---------------------------- MODULE ImagesProofs ----------------------------
(***************************************************************************)
(* Proofs about Images, whatever hosts, pulls, versions, failures and      *)
(* crashes there are: the layer directories overlays are mounted from are  *)
(* complete; and on a host whose pulls came one after another, what was    *)
(* announced is taken back, the persisted digests are in order and updates *)
(* of a tag are seen.                                                      *)
(***************************************************************************)
EXTENDS Images, TLAPS

\* A layer's call works in a directory that is empty until everything is extracted, and a call
\* that succeeded left the layer in its place
FlightsWhole ==
  \A h \in Hosts, l \in Layers :
    /\ At(h, l, "commit") => tmp[h][l] = "full"
    /\ At(h, l, "back") => (flight[h][l].ok => dest[h][l] = "full")
    /\ flight[h][l].pc \notin {"none", "commit", "back"} => tmp[h][l] = "empty"

\* A pull has a version whose layers are there, or are still to come, or it has failed
LayerDone(p, l) == dest[HostOf[p]][l] = "full"

PullWhole(p) ==
  /\ pull[p].pc = "layers" \/ pull[p].pc \in {"head", "save"} \/ (pull[p].pc = "done" /\ ~pull[p].failed)
       => pull[p].ver \in Versions
  /\ pull[p].pc \in {"head", "save"} \/ (pull[p].pc = "done" /\ ~pull[p].failed)
       => \A l \in LayersOf[pull[p].ver] : LayerDone(p, l)
  /\ pull[p].pc = "layers" /\ ~pull[p].failed
       => \A l \in LayersOf[pull[p].ver] : l \in pull[p].todo \/ l \in pull[p].wait \/ LayerDone(p, l)

DirsWhole == \A h \in Hosts, l \in Layers : dest[h][l] \in {"none", "full"}

WholeInv == DirsWhole /\ FlightsWhole /\ \A p \in Pulls : PullWhole(p)

\* A layer's call has a pull that waits for it; a pull asks for each layer once, between
\* entering and leaving layersFromImage
Waited == \A h \in Hosts, l \in Layers :
            ~At(h, l, "none") => \E p \in Pulls : HostOf[p] = h /\ l \in pull[p].wait

AsksOnce == \A p \in Pulls : /\ pull[p].todo \cap pull[p].wait = {}
                             /\ pull[p].pc # "layers" => pull[p].todo = {} /\ pull[p].wait = {}

\* The resolution of a host is under way for a pull that waits for it
Asked == \A h \in Hosts :
           resolving[h].pc # "none" => \E p \in Pulls : HostOf[p] = h /\ pull[p].pc = "resolving"

\* As the host is not in overlapped, at most one of its pulls is at work
OneBusy == \A p, q \in Pulls :
             HostOf[p] = HostOf[q] /\ HostOf[p] \notin overlapped /\ Busy(p) /\ Busy(q) => p = q

SerialInv == Waited /\ AsksOnce /\ Asked /\ OneBusy

\* A layer that is announced is still to be asked for, or its call takes the announcement back
Announced ==
  \A h \in Hosts \ overlapped : \A l \in inflight[h] :
    \E p \in Pulls : /\ HostOf[p] = h /\ pull[p].pc = "layers" /\ l \in pull[p].marked
                     /\ \/ l \in pull[p].todo
                        \/ /\ l \in pull[p].wait /\ flight[h][l].marked
                           /\ ~At(h, l, "none") /\ ~At(h, l, "back")

\* The tag only moves on, so nothing read from it is ahead of it
Behind ==
  /\ \A h \in Hosts : index[h] <= remote /\ resolving[h].idx <= remote
  /\ \A p \in Pulls : pull[p].seen <= remote /\ pull[p].idx <= remote

\* What a host alone with its pull has read of the tag: the digest no later than the manifest, both
\* no earlier than what is persisted and what the tag was when the pull began
CallDated(h) ==
  resolving[h].pc = "back" /\ resolving[h].ver # 0 =>
    /\ resolving[h].idx <= resolving[h].ver /\ index[h] <= resolving[h].ver
    /\ \A p \in Pulls : HostOf[p] = h /\ pull[p].pc = "resolving" => pull[p].seen <= resolving[h].ver

Saves(p) == \/ pull[p].pc = "resolved" /\ pull[p].ver # 0
            \/ pull[p].pc = "layers" /\ pull[p].saves
            \/ pull[p].pc = "save"

Dated(p) ==
  /\ Saves(p) => pull[p].idx <= pull[p].ver /\ index[HostOf[p]] <= pull[p].ver /\ pull[p].seen <= pull[p].ver
  /\ pull[p].pc \in {"head", "save"} => list[HostOf[p]] = pull[p].ver
  /\ pull[p].pc = "done" => pull[p].seen <= pull[p].ver

DatesInv ==
  /\ Behind /\ IndexNotAhead
  /\ \A h \in Hosts \ overlapped : CallDated(h)
  /\ \A p \in Pulls : HostOf[p] \notin overlapped => Dated(p)

\* The records that stand for no call
LEMMA NoneType ==
  /\ NewPull \in Pull /\ NewPull.pc = "new" /\ NewPull.failed = FALSE
  /\ NewPull.todo = {} /\ NewPull.wait = {} /\ NewPull.seen = 0 /\ NewPull.idx = 0
  /\ NoFlight \in Flight /\ NoFlight.pc = "none"
  /\ NoCall \in Call /\ NoCall.pc = "none" /\ NoCall.idx = 0
BY ImagesAssumption DEF NewPull, Pull, PullPC, Version, NoFlight, Flight, FlightPC, NoCall, Call

\* A failure, a crash or a move of the tag is one of at most MaxEvents
LEMMA EventType ==
  ASSUME TypeOK, Event \/ UNCHANGED events
  PROVE  events' \in 0..MaxEvents
BY ImagesAssumption DEF TypeOK, Event

\* A version that is not 0 is one of the image's
LEMMA VersionType ==
  ASSUME NEW v \in Version
  PROVE  v # 0 => v \in Versions /\ LayersOf[v] \in SUBSET Layers
BY ImagesAssumption, Zenon DEF Version, Versions

\* Ending a pull keeps the types
LEMMA EndsType ==
  ASSUME TypeOK, NEW p \in Pulls, NEW v \in Version, NEW confirmed \in BOOLEAN, NEW ok \in BOOLEAN,
         Ends(p, v, confirmed, ok)
  PROVE  /\ pull' \in [Pulls -> Pull]
         /\ \A q \in Pulls \ {p} : pull'[q] = pull[q]
         /\ pull'[p].pc = "done" /\ pull'[p].ver = v /\ pull'[p].failed = ~ok
         /\ pull'[p].todo = {} /\ pull'[p].wait = {} /\ pull'[p].idx = 0
         /\ pull'[p].seen = IF confirmed THEN pull[p].seen ELSE 0
<1> DEFINE new == [NewPull EXCEPT !.pc = "done", !.ver = v, !.failed = ~ok,
                                  !.seen = IF confirmed THEN pull[p].seen ELSE 0]
<1>1. pull[p].seen \in Version /\ 0 \in Version
  BY Zenon DEF TypeOK, Pull, Version
<1>2. /\ new \in Pull /\ new.pc = "done" /\ new.ver = v /\ new.failed = ~ok
      /\ new.todo = {} /\ new.wait = {} /\ new.idx = 0 /\ new.seen = IF confirmed THEN pull[p].seen ELSE 0
  BY <1>1, NoneType, Zenon DEF Pull, PullPC
<1>3. pull' = [pull EXCEPT ![p] = new]
  BY Zenon DEF Ends
<1> HIDE DEF new
<1> QED
  BY <1>2, <1>3, Zenon DEF TypeOK

\* Entering layersFromImage keeps the types
LEMMA EntersType ==
  ASSUME TypeOK, NEW p \in Pulls, NEW v \in Versions, NEW idx \in Version, NEW saves \in BOOLEAN,
         Enters(p, v, idx, saves)
  PROVE  /\ pull' \in [Pulls -> Pull] /\ inflight' \in [Hosts -> SUBSET Layers]
         /\ \A q \in Pulls \ {p} : pull'[q] = pull[q]
         /\ pull'[p].pc = "layers" /\ pull'[p].ver = v /\ pull'[p].todo = LayersOf[v]
         /\ pull'[p].wait = pull[p].wait /\ pull'[p].seen = pull[p].seen
         /\ pull'[p].idx = idx /\ pull'[p].saves = saves
         /\ pull'[p].marked \subseteq LayersOf[v]
         /\ inflight' = [inflight EXCEPT ![HostOf[p]] = inflight[HostOf[p]] \cup pull'[p].marked]
<1> DEFINE missing == {l \in LayersOf[v] : dest[HostOf[p]][l] = "none"}
           new == [pull[p] EXCEPT !.pc = "layers", !.ver = v, !.idx = idx, !.saves = saves,
                                  !.todo = LayersOf[v], !.marked = missing]
<1>1. LayersOf[v] \in SUBSET Layers /\ missing \in SUBSET Layers /\ v \in Version
  BY ImagesAssumption, Zenon DEF Versions, Version
<1>2. /\ inflight' \in [Hosts -> SUBSET Layers] /\ missing \subseteq LayersOf[v]
      /\ inflight' = [inflight EXCEPT ![HostOf[p]] = inflight[HostOf[p]] \cup missing]
  BY <1>1, ImagesAssumption, Zenon DEF Enters, TypeOK
<1>3. pull' = [pull EXCEPT ![p] = new]
  BY Zenon DEF Enters
<1> HIDE DEF missing
<1>4. pull[p] \in Pull
  BY Zenon DEF TypeOK
<1>5. /\ new \in Pull /\ new.pc = "layers" /\ new.ver = v /\ new.todo = LayersOf[v]
      /\ new.wait = pull[p].wait /\ new.seen = pull[p].seen /\ new.idx = idx /\ new.saves = saves
      /\ new.marked = missing
  BY <1>1, <1>4, Zenon DEF Pull, PullPC
<1> HIDE DEF new
<1> QED
  BY <1>2, <1>3, <1>5, ZenonT(60) DEF TypeOK

\* Changing one layer's call keeps the types
LEMMA FlightType ==
  ASSUME TypeOK, NEW h \in Hosts, NEW l \in Layers, NEW f \in Flight,
         flight' = [flight EXCEPT ![h][l] = f]
  PROVE  /\ flight' \in [Hosts -> [Layers -> Flight]]
         /\ flight'[h][l] = f
         /\ \A g \in Hosts, m \in Layers : g # h \/ m # l => flight'[g][m] = flight[g][m]
BY Zenon DEF TypeOK

\* A call that only goes on to another statement
LEMMA GoesType ==
  ASSUME TypeOK, NEW h \in Hosts, NEW l \in Layers, NEW pc \in FlightPC, Goes(h, l, pc)
  PROVE  /\ flight' \in [Hosts -> [Layers -> Flight]]
         /\ flight'[h][l].pc = pc /\ flight'[h][l].marked = flight[h][l].marked
         /\ \A g \in Hosts, m \in Layers : g # h \/ m # l => flight'[g][m] = flight[g][m]
<1> DEFINE f == [flight[h][l] EXCEPT !.pc = pc]
<1>1. flight[h][l] \in Flight
  BY DEF TypeOK
<1>2. f \in Flight /\ f.pc = pc /\ f.marked = flight[h][l].marked
  BY <1>1, Zenon DEF Flight
<1>3. flight' = [flight EXCEPT ![h][l] = f]
  BY Zenon DEF Goes
<1> HIDE DEF f
<1>4. /\ flight' \in [Hosts -> [Layers -> Flight]] /\ flight'[h][l] = f
      /\ \A g \in Hosts, m \in Layers : g # h \/ m # l => flight'[g][m] = flight[g][m]
  BY <1>2, <1>3, Zenon DEF TypeOK
<1> QED
  BY <1>2, <1>4, Zenon

\* Changing what a temporary directory holds keeps the types
LEMMA TmpType ==
  ASSUME TypeOK, NEW h \in Hosts, NEW l \in Layers, NEW c \in Contents,
         tmp' = [tmp EXCEPT ![h][l] = c]
  PROVE  /\ tmp' \in [Hosts -> [Layers -> Contents]]
         /\ tmp'[h][l] = c
         /\ \A g \in Hosts, m \in Layers : g # h \/ m # l => tmp'[g][m] = tmp[g][m]
BY Zenon DEF TypeOK

\* The end of ensureLayer
LEMMA EnsuredType ==
  ASSUME TypeOK, NEW h \in Hosts, NEW l \in Layers, NEW ok \in BOOLEAN, Ensured(h, l, ok)
  PROVE  /\ flight' \in [Hosts -> [Layers -> Flight]] /\ inflight' \in [Hosts -> SUBSET Layers]
         /\ flight'[h][l].pc = "back" /\ flight'[h][l].ok = ok
         /\ \A g \in Hosts, m \in Layers : g # h \/ m # l => flight'[g][m] = flight[g][m]
<1> DEFINE f == [NoFlight EXCEPT !.pc = "back", !.ok = ok]
<1>1. f \in Flight /\ f.pc = "back" /\ f.ok = ok
  BY NoneType, Zenon DEF Flight, FlightPC
<1>2. flight' = [flight EXCEPT ![h][l] = f]
  BY Zenon DEF Ensured
<1>3. inflight[h] \ {l} \in SUBSET Layers /\ inflight \in [Hosts -> SUBSET Layers]
  BY Zenon DEF TypeOK
<1>4. inflight' = inflight \/ inflight' = [inflight EXCEPT ![h] = inflight[h] \ {l}]
  BY Zenon DEF Ensured
<1>5. inflight' \in [Hosts -> SUBSET Layers]
  BY <1>3, <1>4, Zenon
<1> HIDE DEF f
<1>6. /\ flight' \in [Hosts -> [Layers -> Flight]] /\ flight'[h][l] = f
      /\ \A g \in Hosts, m \in Layers : g # h \/ m # l => flight'[g][m] = flight[g][m]
  BY <1>1, <1>2, Zenon DEF TypeOK
<1> QED
  BY <1>1, <1>5, <1>6, Zenon

\* A successful transfer
LEMMA SavedType ==
  ASSUME TypeOK, NEW h \in Hosts, NEW l \in Layers, Saved(h, l)
  PROVE  /\ blob' \in [Hosts -> SUBSET Layers] /\ tmp' \in [Hosts -> [Layers -> Contents]]
         /\ flight' \in [Hosts -> [Layers -> Flight]]
         /\ flight'[h][l].pc = "commit" /\ flight'[h][l].marked = flight[h][l].marked
         /\ tmp'[h][l] = Extracted(tmp[h][l])
         /\ \A g \in Hosts, m \in Layers : g # h \/ m # l => /\ flight'[g][m] = flight[g][m]
                                                                 /\ tmp'[g][m] = tmp[g][m]
<1> DEFINE c == Extracted(tmp[h][l])
<1>1. c \in Contents
  BY Zenon DEF Extracted, Contents
<1>2. blob' \in [Hosts -> SUBSET Layers]
  BY Zenon DEF Saved, TypeOK
<1>3. tmp' = [tmp EXCEPT ![h][l] = c] /\ Goes(h, l, "commit")
  BY Zenon DEF Saved, Extracted
<1>4. /\ tmp' \in [Hosts -> [Layers -> Contents]] /\ tmp'[h][l] = c
      /\ \A g \in Hosts, m \in Layers : g # h \/ m # l => tmp'[g][m] = tmp[g][m]
  <2> HIDE DEF c
  <2> QED
    BY <1>1, <1>3, Zenon DEF TypeOK
<1>5. /\ flight' \in [Hosts -> [Layers -> Flight]]
      /\ flight'[h][l].pc = "commit" /\ flight'[h][l].marked = flight[h][l].marked
      /\ \A g \in Hosts, m \in Layers : g # h \/ m # l => flight'[g][m] = flight[g][m]
  BY <1>3, GoesType, Zenon DEF FlightPC
<1> QED
  BY <1>2, <1>4, <1>5, Zenon

\* A failed extraction
LEMMA ClearedType ==
  ASSUME TypeOK, NEW h \in Hosts, NEW l \in Layers, Cleared(h, l)
  PROVE  /\ blob' \in [Hosts -> SUBSET Layers] /\ tmp' \in [Hosts -> [Layers -> Contents]]
         /\ tmp'[h][l] = "empty"
         /\ \A g \in Hosts, m \in Layers : g # h \/ m # l => tmp'[g][m] = tmp[g][m]
<1>1. blob' \in [Hosts -> SUBSET Layers]
  BY Zenon DEF Cleared, TypeOK
<1> QED
  BY <1>1, TmpType, Zenon DEF Cleared, Contents

\* A pull that begins may be the first to overlap another one
LEMMA BeginsType ==
  ASSUME TypeOK, NEW p \in Pulls, Begins(p)
  PROVE  events' \in 0..MaxEvents /\ overlapped' \in SUBSET Hosts
<1>1. HostOf[p] \in Hosts
  BY ImagesAssumption, Zenon
<1> QED
  BY <1>1, EventType, Zenon DEF Begins, TypeOK

\* The steps of PullWithOptions keep the types
LEMMA PullType ==
  ASSUME TypeOK, NEW p \in Pulls, PullStep(p)
  PROVE  TypeOK'
<1> DEFINE h == HostOf[p]
<1>1. h \in Hosts /\ pull[p] \in Pull
  BY ImagesAssumption, Zenon DEF TypeOK
<1>2. mem[h] \in Version /\ list[h] \in Version /\ 0 \in Version /\ remote \in Version
  BY <1>1, Zenon DEF TypeOK, Version
<1>3. pull[p].ver \in Version /\ pull[p].idx \in Version /\ Loads(h) \in BOOLEAN
  BY <1>1, Zenon DEF Pull, Loads
<1>4. CASE PullFinds(p)
  <2>1. CASE Loads(h)
    <3>1. Ends(p, list[h], FALSE, TRUE) /\ UNCHANGED inflight
      BY <1>4, <2>1, Zenon DEF PullFinds
    <3> QED
      BY <1>2, <1>4, <3>1, EndsType, BeginsType, Zenon DEF PullFinds, TypeOK, files
  <2>2. CASE ~Loads(h)
    <3>1. Enters(p, mem[h], 0, FALSE) /\ mem[h] # 0
      BY <1>4, <2>2, Zenon DEF PullFinds
    <3> QED
      BY <1>2, <1>4, <3>1, EntersType, BeginsType, VersionType, Zenon DEF PullFinds, TypeOK, files
  <2> QED
    BY <2>1, <2>2, Zenon
<1>5. CASE PullRefuses(p)
  BY <1>2, <1>5, EndsType, BeginsType, Zenon DEF PullRefuses, PullFrame, TypeOK, files
<1>6. CASE PullStarts(p)
  <2>1. /\ [pull[p] EXCEPT !.pc = "head", !.ver = list[h], !.seen = remote] \in Pull
        /\ [pull[p] EXCEPT !.pc = "resolve", !.seen = remote] \in Pull
    BY <1>1, <1>2, Zenon DEF Pull, PullPC
  <2>2. pull' \in [Pulls -> Pull]
    BY <1>6, <2>1, Zenon DEF PullStarts, TypeOK
  <2> QED
    BY <1>6, <2>2, BeginsType, Zenon DEF PullStarts, PullFrame, TypeOK, files
<1>7. CASE PullHeads(p)
  <2>1. [pull[p] EXCEPT !.pc = "resolve", !.ver = 0] \in Pull
    BY <1>1, <1>2, Zenon DEF Pull, PullPC
  <2>2. pull' \in [Pulls -> Pull]
    BY <1>3, <1>7, <2>1, EndsType, ZenonT(60) DEF PullHeads, TypeOK
  <2> QED
    BY <1>7, <2>2, EventType, Zenon DEF PullHeads, PullFrame, TypeOK, files
<1>8. CASE PullResolves(p)
  <2>1. [pull[p] EXCEPT !.pc = "resolving"] \in Pull
    BY <1>1, Zenon DEF Pull, PullPC
  <2>2. pull' \in [Pulls -> Pull]
    BY <1>8, <2>1, Zenon DEF PullResolves, TypeOK
  <2>3. ASSUME NEW idx \in {remote, 0}
        PROVE  [pc |-> "image", ver |-> 0, idx |-> idx] \in Call
    BY <1>2, Zenon DEF Call
  <2>4. resolving' \in [Hosts -> Call]
    BY <1>1, <1>8, <2>3 DEF PullResolves, TypeOK
  <2>5. Event \/ UNCHANGED events
    BY <1>8, Zenon DEF PullResolves
  <2> QED
    BY <1>8, <2>2, <2>4, <2>5, EventType, Zenon DEF PullResolves, PullFrame, TypeOK, files
<1>9. CASE PullStores(p)
  <2>1. mem' \in [Hosts -> Version]
    BY <1>1, <1>3, <1>9, Zenon DEF PullStores, TypeOK
  <2>2. pull[p].ver \in Versions /\ Enters(p, pull[p].ver, pull[p].idx, TRUE)
    BY <1>3, <1>9, VersionType, Zenon DEF PullStores
  <2>3. pull' \in [Pulls -> Pull] /\ inflight' \in [Hosts -> SUBSET Layers]
    BY <1>3, <2>2, EntersType, ZenonT(60)
  <2> QED
    BY <1>9, <2>1, <2>3, Zenon DEF PullStores, TypeOK, files
<1>10. CASE PullFallsBack(p)
  <2>1. CASE mem[h] # 0
    <3>1. Enters(p, mem[h], 0, FALSE)
      BY <1>10, <2>1, Zenon DEF PullFallsBack
    <3> QED
      BY <1>2, <1>10, <2>1, <3>1, EntersType, VersionType, Zenon DEF PullFallsBack, TypeOK, files
  <2>2. CASE mem[h] = 0
    <3>1. Ends(p, IF Loads(h) THEN list[h] ELSE 0, FALSE, Loads(h)) /\ UNCHANGED inflight
      BY <1>10, <2>2, Zenon DEF PullFallsBack
    <3>2. (IF Loads(h) THEN list[h] ELSE 0) \in Version
      BY <1>2, Zenon
    <3>3. pull' \in [Pulls -> Pull]
      BY <1>3, <3>1, <3>2, EndsType, Zenon
    <3> QED
      BY <1>10, <3>1, <3>3, Zenon DEF PullFallsBack, TypeOK, files
  <2> QED
    BY <2>1, <2>2, Zenon
<1>11. ASSUME NEW l \in Layers, PullJoins(p, l)
       PROVE  TypeOK'
  <2>1. [pull[p] EXCEPT !.todo = pull[p].todo \ {l}, !.wait = pull[p].wait \cup {l}] \in Pull
    BY <1>1, Zenon DEF Pull
  <2>2. pull' \in [Pulls -> Pull]
    <3>1. pull' = [pull EXCEPT ![p] = [pull[p] EXCEPT !.todo = pull[p].todo \ {l}, !.wait = pull[p].wait \cup {l}]]
      BY <1>1, <1>11, Zenon DEF PullJoins, TypeOK, Pull
    <3> QED
      BY <2>1, <3>1, Zenon DEF TypeOK
  <2>3. flight' \in [Hosts -> [Layers -> Flight]]
    <3>1. flight[h][l] \in Flight
      BY <1>1 DEF TypeOK
    <3>2. ASSUME NEW pc \in FlightPC, NEW b \in BOOLEAN
          PROVE  /\ [flight[h][l] EXCEPT !.pc = pc, !.marked = b] \in Flight
                 /\ [flight[h][l] EXCEPT !.pc = pc, !.ok = b] \in Flight
      BY <3>1, ZenonT(60) DEF Flight
    <3>3. (l \in pull[p].marked) \in BOOLEAN /\ (IF l \in blob[h] THEN "blob" ELSE "ask") \in FlightPC
      BY DEF FlightPC
    <3>4. \/ UNCHANGED flight
          \/ flight' = [flight EXCEPT ![h][l] = [flight[h][l] EXCEPT !.pc = IF l \in blob[h] THEN "blob" ELSE "ask",
                                                                   !.marked = l \in pull[p].marked]]
          \/ flight' = [flight EXCEPT ![h][l] = [flight[h][l] EXCEPT !.pc = "back", !.ok = TRUE]]
      BY <1>11, Zenon DEF PullJoins
    <3>5. \E f \in Flight : flight' = [flight EXCEPT ![h][l] = f] \/ UNCHANGED flight
      BY <3>1, <3>2, <3>3, <3>4, Zenon DEF FlightPC
    <3> QED
      BY <1>1, <3>5, FlightType, Zenon DEF TypeOK
  <2>4. tmp' \in [Hosts -> [Layers -> Contents]]
    <3>1. tmp' = tmp \/ tmp' = [tmp EXCEPT ![h][l] = "empty"]
      BY <1>11, Zenon DEF PullJoins
    <3> QED
      BY <1>1, <3>1, TmpType, Zenon DEF TypeOK, Contents
  <2>5. inflight' \in [Hosts -> SUBSET Layers]
    <3>1. inflight' = inflight \/ inflight' = [inflight EXCEPT ![h] = inflight[h] \ {l}]
      BY <1>11, Zenon DEF PullJoins
    <3>2. inflight[h] \ {l} \in SUBSET Layers
      BY <1>1, Zenon DEF TypeOK
    <3> QED
      BY <3>1, <3>2, ZenonT(60) DEF TypeOK
  <2> QED
    BY <1>11, <2>2, <2>3, <2>4, <2>5, Zenon DEF PullJoins, TypeOK, files
<1>12. CASE PullWaits(p)
  <2>1. [pull[p] EXCEPT !.pc = "save", !.marked = {}] \in Pull /\ (~pull[p].failed) \in BOOLEAN
    BY <1>1, Zenon DEF Pull, PullPC
  <2>2. pull' \in [Pulls -> Pull]
    <3>1. \/ pull' = [pull EXCEPT ![p] = [pull[p] EXCEPT !.pc = "save", !.marked = {}]]
          \/ Ends(p, pull[p].ver, FALSE, ~pull[p].failed)
      BY <1>12, Zenon DEF PullWaits
    <3>2. CASE Ends(p, pull[p].ver, FALSE, ~pull[p].failed)
      BY <1>3, <2>1, <3>2, EndsType, Zenon
    <3> QED
      BY <2>1, <3>1, <3>2, Zenon DEF TypeOK
  <2>3. list' \in [Hosts -> Version]
    BY <1>1, <1>3, <1>12, ZenonT(60) DEF PullWaits, TypeOK
  <2> QED
    BY <1>12, <2>2, <2>3, Zenon DEF PullWaits, TypeOK
<1>13. CASE PullSavesIndex(p)
  <2>1. pull' \in [Pulls -> Pull]
    BY <1>3, <1>13, EndsType, Zenon DEF PullSavesIndex
  <2>2. index' \in [Hosts -> Version]
    BY <1>1, <1>3, <1>13, Zenon DEF PullSavesIndex, TypeOK
  <2> QED
    BY <1>13, <2>1, <2>2, Zenon DEF PullSavesIndex, TypeOK
<1> QED
  BY <1>4, <1>5, <1>6, <1>7, <1>8, <1>9, <1>10, <1>11, <1>12, <1>13, Zenon DEF PullStep

\* The registry's answers keep the types
LEMMA ResolveType ==
  ASSUME TypeOK, NEW h \in Hosts, ResolveStep(h)
  PROVE  TypeOK'
<1>1. resolving[h] \in Call /\ remote \in Version /\ 0 \in Version
  BY Zenon DEF TypeOK, Version
<1>2. CASE ResolveReads(h)
  <2>1. \A ok \in BOOLEAN : [resolving[h] EXCEPT !.pc = "back", !.ver = IF ok THEN remote ELSE 0] \in Call
    BY <1>1, Zenon DEF Call
  <2>2. resolving' \in [Hosts -> Call] /\ (Event \/ UNCHANGED events)
    BY <1>2, <2>1, ZenonT(60) DEF ResolveReads, TypeOK
  <2> QED
    BY <1>2, <2>2, EventType, Zenon DEF ResolveReads, PullFrame, TypeOK, files
<1>3. CASE ResolveReturns(h)
  <2>1. ASSUME NEW p \in Pulls
        PROVE  [pull[p] EXCEPT !.pc = "resolved", !.ver = resolving[h].ver, !.idx = resolving[h].idx] \in Pull
    <3>1. pull[p] \in Pull /\ resolving[h].ver \in Version /\ resolving[h].idx \in Version
      BY <1>1, Zenon DEF TypeOK, Call
    <3> QED
      BY <3>1, ZenonT(60) DEF Pull, PullPC
  <2>2. pull' \in [Pulls -> Pull]
    BY <1>3, <2>1, ZenonT(60) DEF ResolveReturns, TypeOK
  <2>3. resolving' \in [Hosts -> Call]
    BY <1>3, NoneType, Zenon DEF ResolveReturns, TypeOK
  <2> QED
    BY <1>3, <2>2, <2>3, Zenon DEF ResolveReturns, PullFrame, TypeOK, files
<1> QED
  BY <1>2, <1>3, Zenon DEF ResolveStep

\* The steps of ensureLayer keep the types
LEMMA LayerType ==
  ASSUME TypeOK, NEW h \in Hosts, NEW l \in Layers, LayerStep(h, l)
  PROVE  TypeOK'
<1>1. flight[h][l] \in Flight
  BY DEF TypeOK
<1>2. CASE LayerFromBlob(h, l)
  <2>1. CASE tmp' = [tmp EXCEPT ![h][l] = Extracted(@)] /\ Goes(h, l, "commit") /\ UNCHANGED <<blob, events>>
    <3>1. tmp' \in [Hosts -> [Layers -> Contents]]
      BY <2>1, Zenon DEF TypeOK, Extracted, Contents
    <3> QED
      BY <1>2, <2>1, <3>1, GoesType, Zenon DEF LayerFromBlob, FlightFrame, TypeOK, FlightPC
  <2>2. CASE Event /\ Cleared(h, l) /\ Goes(h, l, "ask")
    BY <1>2, <2>2, GoesType, ClearedType, EventType, Zenon DEF LayerFromBlob, FlightFrame, TypeOK, FlightPC
  <2> QED
    BY <1>2, <2>1, <2>2, Zenon DEF LayerFromBlob
<1>3. CASE LayerAsks(h, l)
  <2>1. ASSUME NEW g \in Hosts
        PROVE  [flight[h][l] EXCEPT !.pc = "wait", !.peer = g] \in Flight
    BY <1>1, ZenonT(60) DEF Flight, FlightPC
  <2>2. ASSUME NEW g \in PeerEndpoints(h),
               flight' = [flight EXCEPT ![h][l] = [flight[h][l] EXCEPT !.pc = "wait", !.peer = g]]
        PROVE  flight' \in [Hosts -> [Layers -> Flight]]
    <3>1. [flight[h][l] EXCEPT !.pc = "wait", !.peer = g] \in Flight
      BY <2>1, Zenon DEF PeerEndpoints
    <3> QED
      BY <2>2, <3>1, Zenon DEF TypeOK
  <2>3. /\ Event \/ UNCHANGED events
        /\ \/ Goes(h, l, "peers")
           \/ \E g \in PeerEndpoints(h) :
                flight' = [flight EXCEPT ![h][l] = [flight[h][l] EXCEPT !.pc = "wait", !.peer = g]]
    BY <1>3, ZenonT(60) DEF LayerAsks
  <2>4. flight' \in [Hosts -> [Layers -> Flight]]
    BY <2>2, <2>3, GoesType, Zenon DEF FlightPC
  <2> QED
    BY <1>3, <2>3, <2>4, EventType, Zenon DEF LayerAsks, FlightFrame, TypeOK
<1>4. CASE LayerAwaits(h, l)
  <2>1. CASE Saved(h, l) /\ UNCHANGED events
    BY <1>4, <2>1, SavedType, Zenon DEF LayerAwaits, FlightFrame, TypeOK
  <2>2. CASE Event /\ Cleared(h, l) /\ Goes(h, l, "peers")
    BY <1>4, <2>2, GoesType, ClearedType, EventType, Zenon DEF LayerAwaits, FlightFrame, TypeOK, FlightPC
  <2> QED
    BY <1>4, <2>1, <2>2, Zenon DEF LayerAwaits
<1>5. CASE LayerTimesOut(h, l)
  BY <1>5, GoesType, Zenon DEF LayerTimesOut, FlightFrame, TypeOK, FlightPC
<1>6. CASE LayerFromPeer(h, l)
  <2>1. CASE Saved(h, l) /\ UNCHANGED events
    BY <1>6, <2>1, SavedType, Zenon DEF LayerFromPeer, FlightFrame, TypeOK
  <2>2. ASSUME NEW g \in Fetches(h, l), Event, Cleared(h, l), MarkBad(h, l, g)
        PROVE  TypeOK'
    <3>1. g \in Hosts
      BY Zenon DEF Fetches, Healthy, PeerEndpoints
    <3>2. [flight[h][l] EXCEPT !.bad = flight[h][l].bad \cup {g}] \in Flight
      BY <1>1, <3>1, Zenon DEF Flight
    <3>3. flight' \in [Hosts -> [Layers -> Flight]]
      BY <2>2, <3>2, Zenon DEF MarkBad, TypeOK
    <3> QED
      BY <1>6, <2>2, <3>3, ClearedType, EventType, Zenon DEF LayerFromPeer, FlightFrame, TypeOK
  <2>3. CASE Goes(h, l, "upstream") /\ UNCHANGED <<tmp, blob, events>>
    BY <1>6, <2>3, GoesType, Zenon DEF LayerFromPeer, FlightFrame, TypeOK, FlightPC
  <2> QED
    BY <1>6, <2>1, <2>2, <2>3, Zenon DEF LayerFromPeer
<1>7. CASE LayerFromRegistry(h, l)
  <2> DEFINE tries == flight[h][l].tries + 1
  <2>1. CASE Saved(h, l) /\ UNCHANGED <<inflight, events>>
    BY <1>7, <2>1, SavedType, Zenon DEF LayerFromRegistry, FlightFrame, TypeOK
  <2>2. CASE /\ Event /\ tries < MaxAttempts /\ Cleared(h, l) /\ UNCHANGED inflight
             /\ flight' = [flight EXCEPT ![h][l].tries = tries]
    <3>1. tries \in 0..MaxAttempts
      BY <1>1, <2>2, ImagesAssumption DEF Flight
    <3>2. [flight[h][l] EXCEPT !.tries = tries] \in Flight
      BY <1>1, <3>1, Zenon DEF Flight
    <3>3. flight' \in [Hosts -> [Layers -> Flight]]
      BY <2>2, <3>2, Zenon DEF TypeOK
    <3> QED
      BY <1>7, <2>2, <3>3, ClearedType, EventType, Zenon DEF LayerFromRegistry, FlightFrame, TypeOK
  <2>3. CASE Event /\ tmp' = [tmp EXCEPT ![h][l] = "none"] /\ UNCHANGED blob /\ Ensured(h, l, FALSE)
    <3>1. tmp' \in [Hosts -> [Layers -> Contents]]
      BY <2>3, TmpType, Zenon DEF Contents
    <3> QED
      BY <1>7, <2>3, <3>1, EnsuredType, EventType, Zenon DEF LayerFromRegistry, FlightFrame, TypeOK
  <2> QED
    BY <1>7, <2>1, <2>2, <2>3, Zenon DEF LayerFromRegistry
<1>8. CASE LayerCommits(h, l)
  <2>1. tmp' \in [Hosts -> [Layers -> Contents]]
    BY <1>8, TmpType, ZenonT(60) DEF LayerCommits, Contents
  <2>2. dest' \in [Hosts -> [Layers -> Contents]]
    BY <1>8, Zenon DEF LayerCommits, TypeOK
  <2> QED
    BY <1>8, <2>1, <2>2, EnsuredType, ZenonT(60) DEF LayerCommits, FlightFrame, TypeOK
<1>9. CASE LayerReturns(h, l)
  <2>1. flight' \in [Hosts -> [Layers -> Flight]]
    BY <1>9, FlightType, NoneType, Zenon DEF LayerReturns
  <2>2. ASSUME NEW p \in Pulls
        PROVE  [pull[p] EXCEPT !.wait = pull[p].wait \ {l}, !.failed = pull[p].failed \/ ~flight[h][l].ok] \in Pull
    <3>1. pull[p] \in Pull /\ (pull[p].failed \/ ~flight[h][l].ok) \in BOOLEAN
      BY Zenon DEF TypeOK
    <3> QED
      BY <3>1, ZenonT(60) DEF Pull
  <2>3. pull' \in [Pulls -> Pull]
    BY <1>9, <2>2, Zenon DEF LayerReturns, TypeOK
  <2> QED
    BY <1>9, <2>1, <2>3, Zenon DEF LayerReturns, TypeOK, files
<1> QED
  BY <1>2, <1>3, <1>4, <1>5, <1>6, <1>7, <1>8, <1>9, Zenon DEF LayerStep

\* The image managers' memory and files keep their types (TypeOK).
THEOREM ImagesTypeOK == Spec => []TypeOK
<1>1. Init => TypeOK
  BY ImagesAssumption, NoneType DEF Init, TypeOK, Version, Versions, Contents
<1>2. TypeOK /\ [Next]_vars => TypeOK'
  <2>1. ASSUME TypeOK, TagMoves
        PROVE  TypeOK'
    BY <2>1, EventType, Zenon DEF TagMoves, TypeOK, files
  <2>2. ASSUME TypeOK, NEW h \in Hosts, Restarts(h)
        PROVE  TypeOK'
    <3>1. pull' \in [Pulls -> Pull]
      BY <2>2, NoneType, Zenon DEF Restarts, TypeOK
    <3>2. flight' \in [Hosts -> [Layers -> Flight]] /\ tmp' \in [Hosts -> [Layers -> Contents]]
      BY <2>2, NoneType, Zenon DEF Restarts, TypeOK, Contents
    <3>3. mem' \in [Hosts -> Version] /\ inflight' \in [Hosts -> SUBSET Layers] /\ resolving' \in [Hosts -> Call]
      BY <2>2, NoneType, Zenon DEF Restarts, TypeOK, Version
    <3> QED
      BY <2>2, <3>1, <3>2, <3>3, EventType, Zenon DEF Restarts, TypeOK, files
  <2>3. ASSUME TypeOK, UNCHANGED vars
        PROVE  TypeOK'
    BY <2>3, Zenon DEF vars, TypeOK
  <2> QED
    BY <2>1, <2>2, <2>3, PullType, ResolveType, LayerType, Zenon DEF Next
<1> QED
  BY <1>1, <1>2, PTL DEF Spec

-----------------------------------------------------------------------------
\* A pull whose call and directories are left alone, or only grow, is as whole as it was
LEMMA OtherWhole ==
  ASSUME TypeOK, NEW q \in Pulls, PullWhole(q), pull'[q] = pull[q],
         \A h \in Hosts, l \in Layers : dest[h][l] = "full" => dest'[h][l] = "full"
  PROVE  PullWhole(q)'
<1>1. HostOf[q] \in Hosts /\ \A v \in Versions : LayersOf[v] \subseteq Layers
  BY ImagesAssumption, Zenon DEF Versions
<1> QED
  BY <1>1, Zenon DEF PullWhole, LayerDone

\* loadLayerCache finds every layer of the list, and a layer that is there is whole
LEMMA LoadsWhole ==
  ASSUME TypeOK, DirsWhole, NEW h \in Hosts, Loads(h)
  PROVE  list[h] \in Versions /\ \A l \in LayersOf[list[h]] : dest[h][l] = "full"
<1>1. list[h] \in Versions /\ LayersOf[list[h]] \subseteq Layers
  BY VersionType, Zenon DEF TypeOK, Loads
<1> QED
  BY <1>1, Zenon DEF Loads, DirsWhole

\* The steps of PullWithOptions leave the layers whole
LEMMA PullStepWhole ==
  ASSUME TypeOK, WholeInv, NEW p \in Pulls, PullStep(p)
  PROVE  WholeInv'
<1> DEFINE h == HostOf[p]
<1>1. /\ h \in Hosts /\ pull[p] \in Pull /\ PullWhole(p) /\ DirsWhole
      /\ mem[h] \in Version /\ list[h] \in Version /\ 0 \in Version
      /\ pull[p].ver \in Version /\ pull[p].idx \in Version /\ pull[p].failed \in BOOLEAN
  BY ImagesAssumption, Zenon DEF TypeOK, WholeInv, Version, Pull
<1> DEFINE Kept == /\ dest' = dest /\ FlightsWhole'
                   /\ \A q \in Pulls \ {p} : pull'[q] = pull[q]
                   /\ PullWhole(p)'
<1>2. SUFFICES Kept
  <2>1. ASSUME dest' = dest, NEW q \in Pulls, pull'[q] = pull[q]
        PROVE  PullWhole(q)'
    BY <2>1, OtherWhole, Zenon DEF WholeInv
  <2> QED
    BY <2>1, Zenon DEF WholeInv, DirsWhole
<1>3. UNCHANGED <<dest, tmp, flight>> => FlightsWhole'
  BY DEF WholeInv, FlightsWhole, At
<1>4. CASE PullFinds(p)
  <2>1. CASE Loads(h)
    <3>1. Ends(p, list[h], FALSE, TRUE) /\ UNCHANGED <<dest, tmp, flight>>
      BY <1>4, <2>1, Zenon DEF PullFinds, files
    <3>2. /\ \A q \in Pulls \ {p} : pull'[q] = pull[q]
          /\ pull'[p].pc = "done" /\ pull'[p].ver = list[h]
      BY <1>1, <3>1, EndsType, Zenon
    <3> QED
      BY <1>1, <1>3, <2>1, <3>1, <3>2, LoadsWhole, Zenon DEF PullWhole, LayerDone
  <2>2. CASE ~Loads(h)
    <3>1. Enters(p, mem[h], 0, FALSE) /\ mem[h] \in Versions /\ UNCHANGED <<dest, tmp, flight>>
      BY <1>1, <1>4, <2>2, VersionType, Zenon DEF PullFinds, files
    <3>2. /\ \A q \in Pulls \ {p} : pull'[q] = pull[q]
          /\ pull'[p].pc = "layers" /\ pull'[p].ver = mem[h] /\ pull'[p].todo = LayersOf[mem[h]]
      BY <1>1, <3>1, EntersType, ZenonT(60)
    <3> QED
      BY <1>3, <3>1, <3>2, Zenon DEF PullWhole
  <2> QED
    BY <2>1, <2>2, Zenon
<1>5. CASE PullRefuses(p)
  <2>1. Ends(p, 0, FALSE, FALSE) /\ UNCHANGED <<dest, tmp, flight>>
    BY <1>5, Zenon DEF PullRefuses, PullFrame, files
  <2>2. /\ \A q \in Pulls \ {p} : pull'[q] = pull[q]
        /\ pull'[p].pc = "done" /\ pull'[p].failed
    BY <1>1, <2>1, EndsType, Zenon
  <2> QED
    BY <1>3, <2>1, <2>2, Zenon DEF PullWhole
<1>6. CASE PullStarts(p)
  <2>1. /\ UNCHANGED <<dest, tmp, flight>>
        /\ pull' = [pull EXCEPT ![p] = IF Loads(h) THEN [pull[p] EXCEPT !.pc = "head", !.ver = list[h], !.seen = remote]
                                                  ELSE [pull[p] EXCEPT !.pc = "resolve", !.seen = remote]]
    BY <1>6, Zenon DEF PullStarts, PullFrame, files
  <2>2. /\ \A q \in Pulls \ {p} : pull'[q] = pull[q]
        /\ (Loads(h) /\ pull'[p].pc = "head" /\ pull'[p].ver = list[h]) \/ pull'[p].pc = "resolve"
    BY <1>1, <2>1, Zenon DEF TypeOK, Pull
  <2> QED
    BY <1>1, <1>3, <2>1, <2>2, LoadsWhole, Zenon DEF PullWhole, LayerDone
<1>7. CASE PullHeads(p)
  <2>1. UNCHANGED <<dest, tmp, flight>> /\ pull[p].pc = "head"
    BY <1>7, Zenon DEF PullHeads, PullFrame, files
  <2>2. CASE Ends(p, pull[p].ver, TRUE, TRUE)
    <3>1. /\ \A q \in Pulls \ {p} : pull'[q] = pull[q]
          /\ pull'[p].pc = "done" /\ pull'[p].ver = pull[p].ver
      BY <1>1, <2>2, EndsType, Zenon
    <3> QED
      BY <1>1, <1>3, <2>1, <3>1, Zenon DEF PullWhole, LayerDone
  <2>3. CASE pull' = [pull EXCEPT ![p] = [pull[p] EXCEPT !.pc = "resolve", !.ver = 0]]
    <3>1. (\A q \in Pulls \ {p} : pull'[q] = pull[q]) /\ pull'[p].pc = "resolve"
      BY <1>1, <2>3, Zenon DEF TypeOK, Pull
    <3> QED
      BY <1>3, <2>1, <3>1, Zenon DEF PullWhole
  <2> QED
    BY <1>7, <2>2, <2>3, ZenonT(60) DEF PullHeads
<1>8. CASE PullResolves(p)
  <2>1. UNCHANGED <<dest, tmp, flight>> /\ pull' = [pull EXCEPT ![p].pc = "resolving"]
    BY <1>8, Zenon DEF PullResolves, PullFrame, files
  <2>2. (\A q \in Pulls \ {p} : pull'[q] = pull[q]) /\ pull'[p].pc = "resolving"
    BY <1>1, <2>1, Zenon DEF TypeOK, Pull
  <2> QED
    BY <1>3, <2>1, <2>2, Zenon DEF PullWhole
<1>9. CASE PullStores(p)
  <2>1. /\ Enters(p, pull[p].ver, pull[p].idx, TRUE) /\ pull[p].ver \in Versions
        /\ UNCHANGED <<dest, tmp, flight>>
    BY <1>1, <1>9, VersionType, Zenon DEF PullStores, files
  <2>2. /\ \A q \in Pulls \ {p} : pull'[q] = pull[q]
        /\ pull'[p].pc = "layers" /\ pull'[p].ver = pull[p].ver /\ pull'[p].todo = LayersOf[pull[p].ver]
    BY <1>1, <2>1, EntersType, ZenonT(60)
  <2> QED
    BY <1>3, <2>1, <2>2, Zenon DEF PullWhole
<1>10. CASE PullFallsBack(p)
  <2>1. UNCHANGED <<dest, tmp, flight>>
    BY <1>10, Zenon DEF PullFallsBack, files
  <2>2. CASE mem[h] # 0
    <3>1. Enters(p, mem[h], 0, FALSE) /\ mem[h] \in Versions
      BY <1>1, <1>10, <2>2, VersionType, Zenon DEF PullFallsBack
    <3>2. /\ \A q \in Pulls \ {p} : pull'[q] = pull[q]
          /\ pull'[p].pc = "layers" /\ pull'[p].ver = mem[h] /\ pull'[p].todo = LayersOf[mem[h]]
      BY <1>1, <3>1, EntersType, ZenonT(60)
    <3> QED
      BY <1>3, <2>1, <3>1, <3>2, Zenon DEF PullWhole
  <2>3. CASE mem[h] = 0 /\ Loads(h)
    <3>1. Ends(p, list[h], FALSE, TRUE)
      BY <1>10, <2>3, Zenon DEF PullFallsBack
    <3>2. /\ \A q \in Pulls \ {p} : pull'[q] = pull[q]
          /\ pull'[p].pc = "done" /\ pull'[p].ver = list[h]
      BY <1>1, <3>1, EndsType, Zenon
    <3> QED
      BY <1>1, <1>3, <2>1, <2>3, <3>2, LoadsWhole, Zenon DEF PullWhole, LayerDone
  <2>4. CASE mem[h] = 0 /\ ~Loads(h)
    <3>1. Ends(p, 0, FALSE, FALSE)
      BY <1>10, <2>4, Zenon DEF PullFallsBack, Ends
    <3>2. /\ \A q \in Pulls \ {p} : pull'[q] = pull[q]
          /\ pull'[p].pc = "done" /\ pull'[p].failed
      BY <1>1, <3>1, EndsType, ZenonT(60)
    <3> QED
      BY <1>3, <2>1, <3>2, Zenon DEF PullWhole
  <2> QED
    BY <2>2, <2>3, <2>4, Zenon
<1>11. ASSUME NEW l \in Layers, PullJoins(p, l)
       PROVE  Kept
  <2>1. dest' = dest
    BY <1>11, Zenon DEF PullJoins, files
  <2>2. pull' = [pull EXCEPT ![p] = [pull[p] EXCEPT !.todo = pull[p].todo \ {l}, !.wait = pull[p].wait \cup {l}]]
    BY <1>1, <1>11, Zenon DEF PullJoins, TypeOK, Pull
  <2>3. /\ \A q \in Pulls \ {p} : pull'[q] = pull[q]
        /\ pull'[p].pc = pull[p].pc /\ pull'[p].ver = pull[p].ver /\ pull'[p].failed = pull[p].failed
        /\ pull'[p].todo = pull[p].todo \ {l} /\ pull'[p].wait = pull[p].wait \cup {l}
    BY <1>1, <2>2, Zenon DEF TypeOK, Pull
  <2>4. PullWhole(p)'
    BY <1>1, <2>1, <2>3, Zenon DEF PullWhole, LayerDone
  <2>5. FlightsWhole'
    <3>1. CASE UNCHANGED <<flight, tmp>>
      BY <1>3, <2>1, <3>1, Zenon
    <3>2. CASE /\ tmp' = [tmp EXCEPT ![h][l] = "empty"]
               /\ flight' = [flight EXCEPT ![h][l] = [flight[h][l] EXCEPT !.pc = IF l \in blob[h] THEN "blob" ELSE "ask",
                                                                        !.marked = l \in pull[p].marked]]
      <4>1. /\ flight'[h][l].pc \in {"blob", "ask"} /\ tmp'[h][l] = "empty"
            /\ \A g \in Hosts, m \in Layers : g # h \/ m # l => flight'[g][m] = flight[g][m] /\ tmp'[g][m] = tmp[g][m]
        BY <1>1, <3>2, SMTT(30) DEF TypeOK, Flight
      <4> QED
        BY <1>1, <2>1, <4>1 DEF WholeInv, FlightsWhole, At
    <3>3. CASE /\ dest[h][l] # "none" /\ UNCHANGED tmp
               /\ flight' = [flight EXCEPT ![h][l] = [flight[h][l] EXCEPT !.pc = "back", !.ok = TRUE]]
      <4>1. /\ flight'[h][l].pc = "back" /\ dest[h][l] = "full"
            /\ \A g \in Hosts, m \in Layers : g # h \/ m # l => flight'[g][m] = flight[g][m]
        BY <1>1, <3>3 DEF TypeOK, Flight, DirsWhole
      <4> QED
        BY <1>1, <2>1, <3>3, <4>1 DEF WholeInv, FlightsWhole, At
    <3> QED
      BY <1>11, <3>1, <3>2, <3>3, Zenon DEF PullJoins
  <2> QED
    BY <2>1, <2>3, <2>4, <2>5, Zenon
<1>12. CASE PullWaits(p)
  <2>1. /\ UNCHANGED <<dest, tmp, flight>>
        /\ pull[p].pc = "layers" /\ pull[p].todo = {} /\ pull[p].wait = {}
    BY <1>12, Zenon DEF PullWaits
  <2>2. CASE ~pull[p].failed /\ pull' = [pull EXCEPT ![p] = [pull[p] EXCEPT !.pc = "save", !.marked = {}]]
    <3>1. /\ \A q \in Pulls \ {p} : pull'[q] = pull[q]
          /\ pull'[p].pc = "save" /\ pull'[p].ver = pull[p].ver
      BY <1>1, <2>2, Zenon DEF TypeOK, Pull
    <3> QED
      BY <1>1, <1>3, <2>1, <2>2, <3>1, Zenon DEF PullWhole, LayerDone
  <2>3. CASE Ends(p, pull[p].ver, FALSE, ~pull[p].failed)
    <3>1. /\ \A q \in Pulls \ {p} : pull'[q] = pull[q]
          /\ pull'[p].pc = "done" /\ pull'[p].ver = pull[p].ver /\ pull'[p].failed = pull[p].failed
      BY <1>1, <2>3, EndsType, ZenonT(60)
    <3> QED
      BY <1>1, <1>3, <2>1, <3>1, Zenon DEF PullWhole, LayerDone
  <2> QED
    BY <1>12, <2>2, <2>3, ZenonT(60) DEF PullWaits
<1>13. CASE PullSavesIndex(p)
  <2>1. /\ UNCHANGED <<dest, tmp, flight>>
        /\ pull[p].pc = "save" /\ Ends(p, pull[p].ver, TRUE, TRUE)
    BY <1>13, Zenon DEF PullSavesIndex
  <2>2. /\ \A q \in Pulls \ {p} : pull'[q] = pull[q]
        /\ pull'[p].pc = "done" /\ pull'[p].ver = pull[p].ver
    BY <1>1, <2>1, EndsType, ZenonT(60)
  <2> QED
    BY <1>1, <1>3, <2>1, <2>2, Zenon DEF PullWhole, LayerDone
<1> HIDE DEF Kept
<1> QED
  BY <1>4, <1>5, <1>6, <1>7, <1>8, <1>9, <1>10, <1>11, <1>12, <1>13, Zenon DEF PullStep

\* The registry's answers leave the layers whole
LEMMA ResolveWhole ==
  ASSUME TypeOK, WholeInv, NEW h \in Hosts, ResolveStep(h)
  PROVE  WholeInv'
<1>1. UNCHANGED <<dest, tmp, flight>>
  BY ZenonT(60) DEF ResolveStep, ResolveReads, ResolveReturns, PullFrame, files
<1>2. ASSUME NEW p \in Pulls
      PROVE  PullWhole(p)'
  <2>1. pull[p] \in Pull /\ PullWhole(p)
    BY Zenon DEF TypeOK, WholeInv
  <2>2. \/ pull'[p] = pull[p]
        \/ pull'[p] = [pull[p] EXCEPT !.pc = "resolved", !.ver = resolving[h].ver, !.idx = resolving[h].idx]
    BY Zenon DEF ResolveStep, ResolveReads, ResolveReturns
  <2>3. pull'[p] = pull[p] \/ pull'[p].pc = "resolved"
    BY <2>1, <2>2, ZenonT(60) DEF Pull
  <2> QED
    BY <1>1, <2>1, <2>3, OtherWhole, Zenon DEF PullWhole
<1> QED
  BY <1>1, <1>2 DEF WholeInv, DirsWhole, FlightsWhole, At

\* What the steps of one layer's call have in common: another call is left alone, and a layer that
\* is in its place stays there
LEMMA CallWhole ==
  ASSUME TypeOK, WholeInv, NEW h \in Hosts, NEW l \in Layers,
         UNCHANGED pull,
         \A g \in Hosts, m \in Layers : g # h \/ m # l => /\ flight'[g][m] = flight[g][m]
                                                          /\ tmp'[g][m] = tmp[g][m]
                                                          /\ dest'[g][m] = dest[g][m],
         dest'[h][l] \in {dest[h][l], "full"},
         flight'[h][l].pc = "commit" => tmp'[h][l] = "full",
         flight'[h][l].pc = "back" => (flight'[h][l].ok => dest'[h][l] = "full"),
         flight'[h][l].pc \notin {"none", "commit", "back"} => tmp'[h][l] = "empty"
  PROVE  WholeInv'
<1>1. FlightsWhole'
  BY DEF WholeInv, FlightsWhole, At
<1>2. DirsWhole' /\ \A g \in Hosts, m \in Layers : dest[g][m] = "full" => dest'[g][m] = "full"
  BY ZenonT(60) DEF WholeInv, DirsWhole
<1>3. \A q \in Pulls : PullWhole(q)'
  BY <1>2, OtherWhole, Zenon DEF WholeInv
<1> QED
  BY <1>1, <1>2, <1>3, Zenon DEF WholeInv

\* The steps of ensureLayer leave the layers whole
LEMMA LayerStepWhole ==
  ASSUME TypeOK, WholeInv, NEW h \in Hosts, NEW l \in Layers, LayerStep(h, l)
  PROVE  WholeInv'
<1>1. /\ flight[h][l] \in Flight
      /\ At(h, l, "commit") => tmp[h][l] = "full"
      /\ At(h, l, "back") => (flight[h][l].ok => dest[h][l] = "full")
      /\ flight[h][l].pc \notin {"none", "commit", "back"} => tmp[h][l] = "empty"
      /\ dest[h][l] \in {"none", "full"}
  BY DEF TypeOK, WholeInv, FlightsWhole, DirsWhole
<1>2. ASSUME Saved(h, l), flight[h][l].pc \notin {"none", "commit", "back"}, UNCHANGED <<pull, dest>>
      PROVE  WholeInv'
  <2>1. flight'[h][l].pc = "commit" /\ tmp'[h][l] = "full"
    BY <1>1, <1>2, SavedType, Zenon DEF Extracted
  <2> QED
    BY <1>2, <2>1, SavedType, CallWhole
<1>3. ASSUME Cleared(h, l), NEW pc \in FlightPC \ {"none", "commit", "back"}, Goes(h, l, pc), UNCHANGED <<pull, dest>>
      PROVE  WholeInv'
  BY <1>3, ClearedType, GoesType, CallWhole
<1>4. ASSUME flight[h][l].pc \notin {"none", "commit", "back"}, NEW pc \in FlightPC \ {"none", "commit", "back"},
             Goes(h, l, pc), UNCHANGED <<pull, dest, tmp>>
      PROVE  WholeInv'
  BY <1>1, <1>4, GoesType, CallWhole
<1>5. CASE LayerFromBlob(h, l)
  <2>1. CASE tmp' = [tmp EXCEPT ![h][l] = Extracted(@)] /\ Goes(h, l, "commit")
    <3>1. /\ tmp'[h][l] = "full"
          /\ \A g \in Hosts, m \in Layers : g # h \/ m # l => tmp'[g][m] = tmp[g][m]
      BY <1>1, <1>5, <2>1, Zenon DEF Extracted, LayerFromBlob, At, TypeOK
    <3>2. UNCHANGED <<pull, dest>>
      BY <1>5, Zenon DEF LayerFromBlob, FlightFrame
    <3> QED
      BY <2>1, <3>1, <3>2, GoesType, CallWhole DEF FlightPC
  <2> QED
    BY <1>3, <1>5, <2>1, Zenon DEF LayerFromBlob, FlightFrame, FlightPC
<1>6. CASE LayerAsks(h, l)
  <2>1. UNCHANGED <<pull, dest, tmp>> /\ flight[h][l].pc = "ask"
    BY <1>6, ZenonT(60) DEF LayerAsks, FlightFrame, At
  <2>2. ASSUME NEW g \in Hosts, flight' = [flight EXCEPT ![h][l] = [flight[h][l] EXCEPT !.pc = "wait", !.peer = g]]
        PROVE  WholeInv'
    <3>1. /\ flight'[h][l].pc = "wait"
          /\ \A f \in Hosts, m \in Layers : f # h \/ m # l => flight'[f][m] = flight[f][m]
      BY <1>1, <2>2, Zenon DEF TypeOK, Flight
    <3> QED
      BY <1>1, <2>1, <3>1, CallWhole, Zenon
  <2>3. \/ Goes(h, l, "peers")
        \/ \E g \in Hosts : flight' = [flight EXCEPT ![h][l] = [flight[h][l] EXCEPT !.pc = "wait", !.peer = g]]
    BY <1>6, ZenonT(60) DEF LayerAsks, PeerEndpoints
  <2> QED
    BY <1>4, <2>1, <2>2, <2>3, ZenonT(60) DEF FlightPC
<1>7. CASE LayerAwaits(h, l)
  BY <1>2, <1>3, <1>7, ZenonT(60) DEF LayerAwaits, FlightFrame, FlightPC, At
<1>8. CASE LayerTimesOut(h, l)
  BY <1>4, <1>8, ZenonT(60) DEF LayerTimesOut, FlightFrame, FlightPC, At
<1>9. CASE LayerFromPeer(h, l)
  <2>1. UNCHANGED <<pull, dest>> /\ flight[h][l].pc = "peers"
    BY <1>9, ZenonT(60) DEF LayerFromPeer, FlightFrame, At
  <2>2. ASSUME Cleared(h, l), NEW g, MarkBad(h, l, g)
        PROVE  WholeInv'
    <3>1. /\ flight'[h][l].pc = "peers"
          /\ \A f \in Hosts, m \in Layers : f # h \/ m # l => flight'[f][m] = flight[f][m]
      BY <1>1, <2>1, <2>2, Zenon DEF MarkBad, TypeOK, Flight
    <3> QED
      BY <2>1, <2>2, <3>1, ClearedType, CallWhole
  <2> QED
    BY <1>2, <1>4, <1>9, <2>1, <2>2, ZenonT(60) DEF LayerFromPeer, FlightPC
<1>10. CASE LayerFromRegistry(h, l)
  <2>1. UNCHANGED <<pull, dest>> /\ flight[h][l].pc = "upstream"
    BY <1>10, Zenon DEF LayerFromRegistry, FlightFrame, At
  <2>2. ASSUME Cleared(h, l), NEW n, flight' = [flight EXCEPT ![h][l].tries = n]
        PROVE  WholeInv'
    <3>1. /\ flight'[h][l].pc = "upstream"
          /\ \A f \in Hosts, m \in Layers : f # h \/ m # l => flight'[f][m] = flight[f][m]
      BY <1>1, <2>1, <2>2, Zenon DEF TypeOK, Flight
    <3> QED
      BY <2>1, <2>2, <3>1, ClearedType, CallWhole
  <2>3. ASSUME tmp' = [tmp EXCEPT ![h][l] = "none"], Ensured(h, l, FALSE)
        PROVE  WholeInv'
    <3>1. \A f \in Hosts, m \in Layers : f # h \/ m # l => tmp'[f][m] = tmp[f][m]
      BY <2>3, Zenon DEF TypeOK
    <3>2. /\ flight'[h][l].pc = "back" /\ flight'[h][l].ok = FALSE
          /\ \A f \in Hosts, m \in Layers : f # h \/ m # l => flight'[f][m] = flight[f][m]
      BY <2>3, EnsuredType, Zenon
    <3> QED
      BY <2>1, <3>1, <3>2, CallWhole, Zenon
  <2> QED
    BY <1>2, <1>10, <2>1, <2>2, <2>3, Zenon DEF LayerFromRegistry
<1>11. CASE LayerCommits(h, l)
  <2>1. /\ flight[h][l].pc = "commit" /\ Ensured(h, l, TRUE) /\ UNCHANGED pull
        /\ dest' = [dest EXCEPT ![h][l] = IF dest[h][l] = "none" THEN tmp[h][l] ELSE dest[h][l]]
        /\ tmp' = [tmp EXCEPT ![h][l] = "none"]
    BY <1>11, ZenonT(60) DEF LayerCommits, FlightFrame, At
  <2>2. /\ dest'[h][l] = "full"
        /\ \A f \in Hosts, m \in Layers : f # h \/ m # l => tmp'[f][m] = tmp[f][m] /\ dest'[f][m] = dest[f][m]
    BY <1>1, <2>1, Zenon DEF TypeOK, At
  <2>3. /\ flight'[h][l].pc = "back"
        /\ \A f \in Hosts, m \in Layers : f # h \/ m # l => flight'[f][m] = flight[f][m]
    BY <2>1, EnsuredType, ZenonT(60)
  <2> QED
    BY <2>1, <2>2, <2>3, CallWhole
<1>12. CASE LayerReturns(h, l)
  <2>1. /\ UNCHANGED <<dest, tmp>> /\ flight[h][l].pc = "back"
        /\ flight' = [flight EXCEPT ![h][l] = NoFlight]
    BY <1>12, ZenonT(60) DEF LayerReturns, files, At
  <2>2. /\ flight'[h][l].pc = "none"
        /\ \A g \in Hosts, m \in Layers : g # h \/ m # l => flight'[g][m] = flight[g][m]
    BY <2>1, NoneType, Zenon DEF TypeOK
  <2>3. FlightsWhole' /\ DirsWhole'
    BY <2>1, <2>2, SMTT(30) DEF WholeInv, FlightsWhole, DirsWhole, At
  <2>4. ASSUME NEW p \in Pulls
        PROVE  PullWhole(p)'
    <3>1. pull[p] \in Pull /\ PullWhole(p)
      BY Zenon DEF TypeOK, WholeInv
    <3>2. CASE pull'[p] = pull[p]
      BY <2>1, <3>1, <3>2, OtherWhole, Zenon
    <3>3. CASE /\ HostOf[p] = h
               /\ pull'[p] = [pull[p] EXCEPT !.wait = pull[p].wait \ {l}, !.failed = pull[p].failed \/ ~flight[h][l].ok]
      <4>1. /\ pull'[p].pc = pull[p].pc /\ pull'[p].ver = pull[p].ver /\ pull'[p].todo = pull[p].todo
            /\ pull'[p].wait = pull[p].wait \ {l} /\ (~pull'[p].failed => ~pull[p].failed /\ flight[h][l].ok)
        BY <3>1, <3>3, Zenon DEF Pull
      <4>2. ~pull'[p].failed => dest[h][l] = "full"
        BY <1>1, <2>1, <4>1, Zenon DEF At
      <4> QED
        BY <2>1, <3>1, <3>3, <4>1, <4>2, Zenon DEF PullWhole, LayerDone
    <3> QED
      BY <1>12, <3>2, <3>3, Zenon DEF LayerReturns, TypeOK
  <2> QED
    BY <2>3, <2>4, Zenon DEF WholeInv
<1> QED
  BY <1>5, <1>6, <1>7, <1>8, <1>9, <1>10, <1>11, <1>12, Zenon DEF LayerStep

\* For any hosts, pulls, versions and failures: an extraction fills a directory that was made
\* empty for it, only a full one is renamed, and a pull counts the layers it waits for.
THEOREM ImagesWholeInv == Spec => []WholeInv
<1>1. Init => WholeInv
  BY NoneType DEF Init, WholeInv, FlightsWhole, DirsWhole, PullWhole, At
<1>2. TypeOK /\ WholeInv /\ [Next]_vars => WholeInv'
  <2> SUFFICES ASSUME TypeOK, WholeInv, [Next]_vars
               PROVE  WholeInv'
    OBVIOUS
  <2>1. CASE UNCHANGED <<dest, tmp, flight, pull>>
    BY <2>1, OtherWhole, ZenonT(60) DEF WholeInv, FlightsWhole, DirsWhole, At
  <2>2. ASSUME NEW h \in Hosts, Restarts(h)
        PROVE  WholeInv'
    <3>1. UNCHANGED dest
      BY <2>2, Zenon DEF Restarts, files
    <3>2. \A g \in Hosts, m \in Layers : \/ flight'[g][m] = flight[g][m] /\ tmp'[g][m] = tmp[g][m]
                                         \/ flight'[g][m].pc = "none"
      BY <2>2, NoneType, ZenonT(60) DEF Restarts, TypeOK
    <3>3. FlightsWhole' /\ DirsWhole'
      BY <3>1, <3>2 DEF WholeInv, FlightsWhole, DirsWhole, At
    <3>4. ASSUME NEW p \in Pulls
          PROVE  PullWhole(p)'
      <4>1. pull'[p] = pull[p] \/ pull'[p].pc = "new"
        BY <2>2, NoneType, Zenon DEF Restarts
      <4> QED
        BY <3>1, <4>1, OtherWhole, Zenon DEF WholeInv, PullWhole
    <3> QED
      BY <3>3, <3>4, Zenon DEF WholeInv
  <2>3. CASE TagMoves
    BY <2>1, <2>3, Zenon DEF TagMoves, files
  <2>4. CASE UNCHANGED vars
    BY <2>1, <2>4, Zenon DEF vars
  <2> QED
    BY <2>2, <2>3, <2>4, PullStepWhole, ResolveWhole, LayerStepWhole, Zenon DEF Next
<1> QED
  BY <1>1, <1>2, ImagesTypeOK, PTL DEF Spec

\* LayersWhole, for any hosts, pulls, versions and failures: ensureLayer and commitLayer put only
\* complete extractions in place, and PullWithOptions returns only layers that are there.
THEOREM ImagesLayersWhole == Spec => []LayersWhole
<1>1. WholeInv => LayersWhole
  BY ZenonT(60) DEF WholeInv, LayersWhole, DirsWhole, PullWhole, LayerDone
<1> QED
  BY <1>1, ImagesWholeInv, PTL, ZenonT(60)

-----------------------------------------------------------------------------
\* What the steps of one pull have in common: the other pulls are left alone, one that begins beside
\* another marks the host, and only a pull that goes on to wait starts a resolution
PullMoved(p) ==
  /\ \A q \in Pulls \ {p} : pull'[q] = pull[q]
  /\ pull[p].pc \in {"new", "head", "resolve", "resolved", "layers", "save"}
  /\ pull[p].pc = "new" => Alone(p) \/ HostOf[p] \in overlapped'
  /\ overlapped \subseteq overlapped' /\ UNCHANGED remote
  /\ \/ UNCHANGED resolving
     \/ pull'[p].pc = "resolving" /\ \A g \in Hosts \ {HostOf[p]} : resolving'[g] = resolving[g]

\* And but for the step that asks for a layer, the pull has no layer to ask or to wait for
PullQuiet(p) ==
  /\ pull[p].todo = {} /\ pull[p].wait = {} /\ pull'[p].wait = {} /\ UNCHANGED flight
  /\ pull'[p].todo = {} \/ pull'[p].pc = "layers"
  /\ \/ UNCHANGED inflight
     \/ /\ pull'[p].pc = "layers" /\ pull'[p].marked \subseteq pull'[p].todo
        /\ inflight' = [inflight EXCEPT ![HostOf[p]] = inflight[HostOf[p]] \cup pull'[p].marked]

\* The step that asks for a layer
PullAsks(p, l) ==
  /\ pull[p].pc = "layers" /\ l \in pull[p].todo
  /\ pull' = [pull EXCEPT ![p] = [pull[p] EXCEPT !.todo = pull[p].todo \ {l}, !.wait = pull[p].wait \cup {l}]]
  /\ \A g \in Hosts, m \in Layers : g # HostOf[p] \/ m # l => flight'[g][m] = flight[g][m]
  /\ UNCHANGED <<resolving, overlapped, remote>>

\* Every step of a pull has these effects
LEMMA PullSummary ==
  ASSUME TypeOK, AsksOnce, NEW p \in Pulls, PullStep(p)
  PROVE  PullMoved(p) /\ (PullQuiet(p) \/ \E l \in Layers : PullJoins(p, l) /\ PullAsks(p, l))
<1> DEFINE h == HostOf[p]
<1>1. /\ h \in Hosts /\ pull[p] \in Pull
      /\ mem[h] \in Version /\ list[h] \in Version /\ 0 \in Version
      /\ pull[p].ver \in Version /\ pull[p].idx \in Version /\ pull[p].failed \in BOOLEAN
      /\ pull[p].pc # "layers" => pull[p].todo = {} /\ pull[p].wait = {}
  BY ImagesAssumption, Zenon DEF TypeOK, Version, Pull, AsksOnce
<1>2. ASSUME Begins(p)
      PROVE  /\ pull[p].pc = "new" /\ (Alone(p) \/ HostOf[p] \in overlapped')
             /\ overlapped \subseteq overlapped'
  BY <1>2, Zenon DEF Begins
<1>3. ASSUME NEW v \in Version, NEW c \in BOOLEAN, NEW ok \in BOOLEAN, Ends(p, v, c, ok)
      PROVE  /\ \A q \in Pulls \ {p} : pull'[q] = pull[q]
             /\ pull'[p].todo = {} /\ pull'[p].wait = {}
  BY <1>3, EndsType, SMTT(30)
<1>4. ASSUME NEW v \in Versions, NEW idx \in Version, NEW saves \in BOOLEAN, Enters(p, v, idx, saves)
      PROVE  /\ \A q \in Pulls \ {p} : pull'[q] = pull[q]
             /\ pull'[p].pc = "layers" /\ pull'[p].wait = pull[p].wait
             /\ pull'[p].marked \subseteq pull'[p].todo
             /\ inflight' = [inflight EXCEPT ![h] = inflight[h] \cup pull'[p].marked]
  BY <1>4, EntersType
<1>5. CASE PullFinds(p)
  <2>1. Begins(p) /\ UNCHANGED <<remote, resolving, flight>>
    BY <1>5, Zenon DEF PullFinds
  <2>2. CASE Loads(h)
    <3>1. Ends(p, list[h], FALSE, TRUE) /\ UNCHANGED inflight
      BY <1>5, <2>2, Zenon DEF PullFinds
    <3> QED
      BY <1>1, <1>2, <1>3, <2>1, <3>1, ZenonT(60) DEF PullMoved, PullQuiet
  <2>3. CASE ~Loads(h)
    <3>1. Enters(p, mem[h], 0, FALSE) /\ mem[h] \in Versions
      BY <1>1, <1>5, <2>3, VersionType, ZenonT(60) DEF PullFinds
    <3> QED
      BY <1>1, <1>2, <1>4, <2>1, <3>1, ZenonT(60) DEF PullMoved, PullQuiet
  <2> QED
    BY <2>2, <2>3, Zenon
<1>6. CASE PullRefuses(p)
  <2>1. Begins(p) /\ UNCHANGED <<remote, resolving, flight, inflight>> /\ Ends(p, 0, FALSE, FALSE)
    BY <1>6, Zenon DEF PullRefuses, PullFrame
  <2> QED
    BY <1>1, <1>2, <1>3, <2>1, ZenonT(60) DEF PullMoved, PullQuiet
<1>7. CASE PullStarts(p)
  <2>1. /\ Begins(p) /\ UNCHANGED <<remote, resolving, flight, inflight>>
        /\ pull' = [pull EXCEPT ![p] = IF Loads(h) THEN [pull[p] EXCEPT !.pc = "head", !.ver = list[h], !.seen = remote]
                                                  ELSE [pull[p] EXCEPT !.pc = "resolve", !.seen = remote]]
    BY <1>7, Zenon DEF PullStarts, PullFrame
  <2>2. /\ \A q \in Pulls \ {p} : pull'[q] = pull[q]
        /\ pull'[p].todo = pull[p].todo /\ pull'[p].wait = pull[p].wait
    BY <1>1, <2>1, Zenon DEF TypeOK, Pull
  <2> QED
    BY <1>1, <1>2, <2>1, <2>2, Zenon DEF PullMoved, PullQuiet
<1>8. CASE PullHeads(p)
  <2>1. pull[p].pc = "head" /\ UNCHANGED <<remote, resolving, flight, overlapped, inflight>>
    BY <1>8, Zenon DEF PullHeads, PullFrame
  <2>2. CASE Ends(p, pull[p].ver, TRUE, TRUE)
    BY <1>1, <1>3, <2>1, <2>2, Zenon DEF PullMoved, PullQuiet
  <2>3. CASE pull' = [pull EXCEPT ![p] = [pull[p] EXCEPT !.pc = "resolve", !.ver = 0]]
    <3>1. /\ \A q \in Pulls \ {p} : pull'[q] = pull[q]
          /\ pull'[p].todo = pull[p].todo /\ pull'[p].wait = pull[p].wait
      BY <1>1, <2>3, Zenon DEF TypeOK, Pull
    <3> QED
      BY <1>1, <2>1, <3>1, Zenon DEF PullMoved, PullQuiet
  <2> QED
    BY <1>8, <2>2, <2>3, Zenon DEF PullHeads
<1>9. CASE PullResolves(p)
  <2>1. /\ pull[p].pc = "resolve" /\ UNCHANGED <<remote, flight, overlapped, inflight>>
        /\ pull' = [pull EXCEPT ![p].pc = "resolving"]
    BY <1>9, Zenon DEF PullResolves, PullFrame
  <2>2. /\ \A q \in Pulls \ {p} : pull'[q] = pull[q]
        /\ pull'[p].pc = "resolving" /\ pull'[p].todo = pull[p].todo /\ pull'[p].wait = pull[p].wait
    BY <1>1, <2>1, Zenon DEF TypeOK, Pull
  <2>3. \A g \in Hosts \ {h} : resolving'[g] = resolving[g]
    BY <1>1, <1>9, Zenon DEF PullResolves, TypeOK
  <2> QED
    BY <1>1, <2>1, <2>2, <2>3, Zenon DEF PullMoved, PullQuiet
<1>10. CASE PullStores(p)
  <2>1. /\ pull[p].pc = "resolved" /\ UNCHANGED <<remote, resolving, flight, overlapped>>
        /\ Enters(p, pull[p].ver, pull[p].idx, TRUE) /\ pull[p].ver \in Versions
    BY <1>1, <1>10, VersionType, ZenonT(60) DEF PullStores
  <2> QED
    BY <1>1, <1>4, <2>1, ZenonT(60) DEF PullMoved, PullQuiet
<1>11. CASE PullFallsBack(p)
  <2>1. pull[p].pc = "resolved" /\ UNCHANGED <<remote, resolving, flight, overlapped>>
    BY <1>11, Zenon DEF PullFallsBack
  <2>2. CASE mem[h] # 0
    <3>1. Enters(p, mem[h], 0, FALSE) /\ mem[h] \in Versions
      BY <1>1, <1>11, <2>2, VersionType, Zenon DEF PullFallsBack
    <3> QED
      BY <1>1, <1>4, <2>1, <3>1, ZenonT(60) DEF PullMoved, PullQuiet
  <2>3. CASE mem[h] = 0
    <3>1. (Ends(p, list[h], FALSE, TRUE) \/ Ends(p, 0, FALSE, FALSE)) /\ UNCHANGED inflight
      BY <1>11, <2>3, Zenon DEF PullFallsBack, Ends
    <3> QED
      BY <1>1, <1>3, <2>1, <3>1, Zenon DEF PullMoved, PullQuiet
  <2> QED
    BY <2>2, <2>3, Zenon
<1>12. ASSUME NEW l \in Layers, PullJoins(p, l)
       PROVE  PullMoved(p) /\ PullAsks(p, l)
  <2>1. pull' = [pull EXCEPT ![p] = [pull[p] EXCEPT !.todo = pull[p].todo \ {l}, !.wait = pull[p].wait \cup {l}]]
    BY <1>1, <1>12, ZenonT(60) DEF PullJoins, TypeOK, Pull
  <2>2. l \in pull[p].todo /\ UNCHANGED <<remote, resolving, overlapped>>
    BY <1>12, Zenon DEF PullJoins
  <2>3. pull[p].pc = "layers" /\ \A q \in Pulls \ {p} : pull'[q] = pull[q]
    BY <1>1, <2>1, <2>2, Zenon DEF TypeOK
  <2>4. \A g \in Hosts, m \in Layers : g # h \/ m # l => flight'[g][m] = flight[g][m]
    <3>1. \/ UNCHANGED flight
          \/ flight' = [flight EXCEPT ![h][l] = [flight[h][l] EXCEPT !.pc = IF l \in blob[h] THEN "blob" ELSE "ask",
                                                                   !.marked = l \in pull[p].marked]]
          \/ flight' = [flight EXCEPT ![h][l] = [flight[h][l] EXCEPT !.pc = "back", !.ok = TRUE]]
      BY <1>12, Zenon DEF PullJoins
    <3>2. ASSUME NEW f, flight' = [flight EXCEPT ![h][l] = f]
          PROVE  \A g \in Hosts, m \in Layers : g # h \/ m # l => flight'[g][m] = flight[g][m]
      BY <1>1, <3>2, Zenon DEF TypeOK
    <3> QED
      BY <3>1, <3>2, Zenon
  <2> QED
    BY <2>1, <2>2, <2>3, <2>4, Zenon DEF PullMoved, PullAsks
<1>13. CASE PullWaits(p)
  <2>1. /\ pull[p].pc = "layers" /\ pull[p].todo = {} /\ pull[p].wait = {}
        /\ UNCHANGED <<remote, resolving, flight, overlapped, inflight>>
    BY <1>13, Zenon DEF PullWaits
  <2>2. CASE pull' = [pull EXCEPT ![p] = [pull[p] EXCEPT !.pc = "save", !.marked = {}]]
    <3>1. /\ \A q \in Pulls \ {p} : pull'[q] = pull[q]
          /\ pull'[p].todo = pull[p].todo /\ pull'[p].wait = pull[p].wait
      BY <1>1, <2>2, Zenon DEF TypeOK, Pull
    <3> QED
      BY <2>1, <3>1, Zenon DEF PullMoved, PullQuiet
  <2>3. CASE Ends(p, pull[p].ver, FALSE, ~pull[p].failed)
    BY <1>1, <1>3, <2>1, <2>3, ZenonT(60) DEF PullMoved, PullQuiet
  <2> QED
    BY <1>13, <2>2, <2>3, Zenon DEF PullWaits
<1>14. CASE PullSavesIndex(p)
  <2>1. /\ pull[p].pc = "save" /\ Ends(p, pull[p].ver, TRUE, TRUE)
        /\ UNCHANGED <<remote, resolving, flight, overlapped, inflight>>
    BY <1>14, Zenon DEF PullSavesIndex
  <2> QED
    BY <1>1, <1>3, <2>1, ZenonT(60) DEF PullMoved, PullQuiet
<1> QED
  BY <1>5, <1>6, <1>7, <1>8, <1>9, <1>10, <1>11, <1>12, <1>13, <1>14, Zenon DEF PullStep

\* What the steps of one layer's call have in common: it goes on, ends, or gives its result to
\* the pulls that wait for it
LayerMoved(h, l) ==
  /\ \A g \in Hosts, m \in Layers : g # h \/ m # l => flight'[g][m] = flight[g][m]
  /\ ~At(h, l, "none") /\ UNCHANGED <<resolving, overlapped, remote, list, index>>
  /\ \/ /\ UNCHANGED <<pull, inflight>>
        /\ flight'[h][l].marked = flight[h][l].marked /\ flight'[h][l].pc \notin {"none", "back"}
        /\ ~At(h, l, "back")
     \/ UNCHANGED pull /\ ~At(h, l, "back") /\ \E ok \in BOOLEAN : Ensured(h, l, ok)
     \/ LayerReturns(h, l)

\* Every step of a layer's call has these effects
LEMMA LayerSummary ==
  ASSUME TypeOK, NEW h \in Hosts, NEW l \in Layers, LayerStep(h, l)
  PROVE  LayerMoved(h, l)
<1>1. flight[h][l] \in Flight
  BY DEF TypeOK
<1>2. ASSUME NEW pc \in FlightPC \ {"none", "back"}, Goes(h, l, pc),
             flight[h][l].pc \notin {"none", "back"}, FlightFrame, UNCHANGED inflight
      PROVE  LayerMoved(h, l)
  BY <1>2, GoesType, ZenonT(60) DEF LayerMoved, FlightFrame, At
<1>3. ASSUME Saved(h, l), flight[h][l].pc \notin {"none", "back"}, FlightFrame, UNCHANGED inflight
      PROVE  LayerMoved(h, l)
  BY <1>3, SavedType, ZenonT(60) DEF LayerMoved, FlightFrame, At
<1>4. ASSUME NEW ok \in BOOLEAN, Ensured(h, l, ok), flight[h][l].pc \notin {"none", "back"}, FlightFrame
      PROVE  LayerMoved(h, l)
  BY <1>4, EnsuredType, ZenonT(60) DEF LayerMoved, FlightFrame, At
<1>5. CASE LayerFromBlob(h, l)
  BY <1>2, <1>5, Zenon DEF LayerFromBlob, FlightPC, At
<1>6. CASE LayerAsks(h, l)
  <2>1. FlightFrame /\ UNCHANGED inflight /\ flight[h][l].pc = "ask"
    BY <1>6, ZenonT(60) DEF LayerAsks, At
  <2>2. ASSUME NEW g \in Hosts, flight' = [flight EXCEPT ![h][l] = [flight[h][l] EXCEPT !.pc = "wait", !.peer = g]]
        PROVE  LayerMoved(h, l)
    <3>1. /\ flight'[h][l].pc = "wait" /\ flight'[h][l].marked = flight[h][l].marked
          /\ \A f \in Hosts, m \in Layers : f # h \/ m # l => flight'[f][m] = flight[f][m]
      BY <1>1, <2>2, Zenon DEF TypeOK, Flight
    <3> QED
      BY <2>1, <3>1, Zenon DEF LayerMoved, FlightFrame, At
  <2>3. \/ Goes(h, l, "peers")
        \/ \E g \in Hosts : flight' = [flight EXCEPT ![h][l] = [flight[h][l] EXCEPT !.pc = "wait", !.peer = g]]
    BY <1>6, ZenonT(60) DEF LayerAsks, PeerEndpoints
  <2>4. CASE Goes(h, l, "peers")
    BY <1>2, <2>1, <2>4, Zenon DEF FlightPC
  <2> QED
    BY <2>2, <2>3, <2>4, ZenonT(60)
<1>7. CASE LayerAwaits(h, l)
  BY <1>2, <1>3, <1>7, Zenon DEF LayerAwaits, FlightPC, At
<1>8. CASE LayerTimesOut(h, l)
  BY <1>2, <1>8, Zenon DEF LayerTimesOut, FlightPC, At
<1>9. CASE LayerFromPeer(h, l)
  <2>1. FlightFrame /\ UNCHANGED inflight /\ flight[h][l].pc = "peers"
    BY <1>9, Zenon DEF LayerFromPeer, At
  <2>2. ASSUME NEW g, MarkBad(h, l, g)
        PROVE  LayerMoved(h, l)
    <3>1. /\ flight'[h][l].pc = "peers" /\ flight'[h][l].marked = flight[h][l].marked
          /\ \A f \in Hosts, m \in Layers : f # h \/ m # l => flight'[f][m] = flight[f][m]
      BY <1>1, <2>1, <2>2, Zenon DEF MarkBad, TypeOK, Flight
    <3> QED
      BY <2>1, <3>1, Zenon DEF LayerMoved, FlightFrame, At
  <2>3. Saved(h, l) \/ Goes(h, l, "upstream") \/ \E g : MarkBad(h, l, g)
    BY <1>9, Zenon DEF LayerFromPeer
  <2> QED
    BY <1>2, <1>3, <2>1, <2>2, <2>3, Zenon DEF FlightPC
<1>10. CASE LayerFromRegistry(h, l)
  <2>1. FlightFrame /\ flight[h][l].pc = "upstream"
    BY <1>10, Zenon DEF LayerFromRegistry, At
  <2>2. ASSUME NEW n, flight' = [flight EXCEPT ![h][l].tries = n], UNCHANGED inflight
        PROVE  LayerMoved(h, l)
    <3>1. /\ flight'[h][l].pc = "upstream" /\ flight'[h][l].marked = flight[h][l].marked
          /\ \A f \in Hosts, m \in Layers : f # h \/ m # l => flight'[f][m] = flight[f][m]
      BY <1>1, <2>1, <2>2, Zenon DEF TypeOK, Flight
    <3> QED
      BY <2>1, <2>2, <3>1, Zenon DEF LayerMoved, FlightFrame, At
  <2>3. CASE Saved(h, l) /\ UNCHANGED inflight
    BY <1>3, <2>1, <2>3, Zenon
  <2>4. CASE Ensured(h, l, FALSE)
    BY <1>4, <2>1, <2>4, Zenon
  <2> QED
    BY <1>10, <2>2, <2>3, <2>4, Zenon DEF LayerFromRegistry
<1>11. CASE LayerCommits(h, l)
  BY <1>4, <1>11, ZenonT(60) DEF LayerCommits, At
<1>12. CASE LayerReturns(h, l)
  <2>1. \A g \in Hosts, m \in Layers : g # h \/ m # l => flight'[g][m] = flight[g][m]
    BY <1>12, Zenon DEF LayerReturns, TypeOK
  <2> QED
    BY <1>12, <2>1, Zenon DEF LayerMoved, LayerReturns, files, At
<1> QED
  BY <1>5, <1>6, <1>7, <1>8, <1>9, <1>10, <1>11, <1>12, Zenon DEF LayerStep

\* What a layer's result does to a pull
LEMMA ReturnsEffect ==
  ASSUME TypeOK, NEW h \in Hosts, NEW l \in Layers, LayerReturns(h, l), NEW p \in Pulls
  PROVE  /\ pull'[p].pc = pull[p].pc /\ pull'[p].ver = pull[p].ver /\ pull'[p].idx = pull[p].idx
         /\ pull'[p].saves = pull[p].saves /\ pull'[p].todo = pull[p].todo /\ pull'[p].marked = pull[p].marked
         /\ pull'[p].seen = pull[p].seen
         /\ pull'[p].wait = IF HostOf[p] = h THEN pull[p].wait \ {l} ELSE pull[p].wait
<1>1. pull[p] \in Pull
  BY Zenon DEF TypeOK
<1>2. \/ pull'[p] = pull[p] /\ ~(HostOf[p] = h /\ l \in pull[p].wait)
      \/ /\ HostOf[p] = h
         /\ pull'[p] = [pull[p] EXCEPT !.wait = pull[p].wait \ {l}, !.failed = pull[p].failed \/ ~flight[h][l].ok]
  BY Zenon DEF LayerReturns
<1> QED
  BY <1>1, <1>2, Zenon DEF Pull

\* What the registry's answer does to a pull
LEMMA ResolvedEffect ==
  ASSUME TypeOK, NEW h \in Hosts, ResolveReturns(h), NEW p \in Pulls
  PROVE  /\ pull'[p].todo = pull[p].todo /\ pull'[p].wait = pull[p].wait /\ pull'[p].marked = pull[p].marked
         /\ pull'[p].seen = pull[p].seen
         /\ IF HostOf[p] = h /\ pull[p].pc = "resolving"
            THEN pull'[p].pc = "resolved" /\ pull'[p].ver = resolving[h].ver /\ pull'[p].idx = resolving[h].idx
            ELSE pull'[p] = pull[p]
<1>1. pull[p] \in Pull
  BY Zenon DEF TypeOK
<1>2. pull'[p] = IF HostOf[p] = h /\ pull[p].pc = "resolving"
                 THEN [pull[p] EXCEPT !.pc = "resolved", !.ver = resolving[h].ver, !.idx = resolving[h].idx]
                 ELSE pull[p]
  BY ZenonT(60) DEF ResolveReturns
<1> QED
  BY <1>1, <1>2, Zenon DEF Pull

\* A restart of the host forgets its pulls and its calls
LEMMA RestartsEffect ==
  ASSUME TypeOK, NEW h \in Hosts, Restarts(h)
  PROVE  /\ \A p \in Pulls : \/ pull'[p] = pull[p] /\ ~(HostOf[p] = h /\ Busy(p))
                             \/ pull'[p] = NewPull /\ HostOf[p] = h /\ Busy(p)
         /\ \A g \in Hosts, l \in Layers : IF g = h THEN flight'[g][l].pc = "none" ELSE flight'[g][l] = flight[g][l]
         /\ \A g \in Hosts : IF g = h THEN inflight'[g] = {} /\ resolving'[g] = NoCall
                                      ELSE inflight'[g] = inflight[g] /\ resolving'[g] = resolving[g]
         /\ UNCHANGED <<remote, list, index, overlapped>>
<1>1. \A p \in Pulls : \/ pull'[p] = pull[p] /\ ~(HostOf[p] = h /\ Busy(p))
                       \/ pull'[p] = NewPull /\ HostOf[p] = h /\ Busy(p)
  <2> SUFFICES ASSUME NEW p \in Pulls
               PROVE  \/ pull'[p] = pull[p] /\ ~(HostOf[p] = h /\ Busy(p))
                      \/ pull'[p] = NewPull /\ HostOf[p] = h /\ Busy(p)
    OBVIOUS
  <2>1. pull'[p] = IF HostOf[p] = h /\ Busy(p) THEN NewPull ELSE pull[p]
    BY Zenon DEF Restarts
  <2> QED
    BY <2>1, Zenon
<1>2. \A g \in Hosts, l \in Layers : IF g = h THEN flight'[g][l].pc = "none" ELSE flight'[g][l] = flight[g][l]
  <2>1. \A g \in Hosts : flight'[g] = IF g = h THEN [l \in Layers |-> NoFlight] ELSE flight[g]
    BY Zenon DEF Restarts, TypeOK
  <2> QED
    BY <2>1, NoneType, Zenon
<1>3. \A g \in Hosts : IF g = h THEN inflight'[g] = {} ELSE inflight'[g] = inflight[g]
  BY Zenon DEF Restarts, TypeOK
<1>4. \A g \in Hosts : IF g = h THEN resolving'[g] = NoCall ELSE resolving'[g] = resolving[g]
  BY Zenon DEF Restarts, TypeOK
<1> QED
  BY <1>1, <1>2, <1>3, <1>4, Zenon DEF Restarts, files

\* The bookkeeping of pulls and calls, for any hosts and pulls: a call has a pull that waits for
\* it, and a host that is not marked has at most one pull at work
THEOREM ImagesSerialInv == Spec => []SerialInv
<1>1. Init => SerialInv
  BY NoneType DEF Init, SerialInv, Waited, AsksOnce, Asked, OneBusy, At, Busy
<1>2. TypeOK /\ SerialInv /\ [Next]_vars => SerialInv'
  <2> SUFFICES ASSUME TypeOK, SerialInv, [Next]_vars
               PROVE  SerialInv'
    OBVIOUS
  <2> USE DEF SerialInv
  <2>1. ASSUME NEW p \in Pulls, PullStep(p)
        PROVE  SerialInv'
    <3>1. PullMoved(p) /\ (PullQuiet(p) \/ \E l \in Layers : PullAsks(p, l))
      BY <2>1, PullSummary, Zenon
    <3>2. OneBusy'
      BY <3>1, ZenonT(60) DEF PullMoved, OneBusy, Busy, Alone
    <3>3. Asked'
      BY <3>1 DEF PullMoved, Asked
    <3>4. CASE PullQuiet(p)
      <4>1. Waited'
        BY <3>1, <3>4 DEF PullMoved, PullQuiet, Waited, At
      <4>2. AsksOnce'
        BY <3>1, <3>4, Zenon DEF PullMoved, PullQuiet, AsksOnce
      <4> QED
        BY <3>2, <3>3, <4>1, <4>2, Zenon
    <3>5. ASSUME NEW l \in Layers, PullAsks(p, l)
          PROVE  SerialInv'
      <4>1. /\ pull'[p].pc = "layers" /\ pull[p].pc = "layers"
            /\ pull'[p].todo = pull[p].todo \ {l} /\ pull'[p].wait = pull[p].wait \cup {l}
        BY <3>5, SMTT(30) DEF PullAsks, TypeOK, Pull
      <4>2. AsksOnce'
        BY <3>1, <4>1, Zenon DEF PullMoved, AsksOnce
      <4>3. Waited'
        <5> SUFFICES ASSUME NEW g \in Hosts, NEW m \in Layers, flight'[g][m].pc # "none"
                     PROVE  \E q \in Pulls : HostOf[q] = g /\ m \in pull'[q].wait
          BY Zenon DEF Waited, At
        <5>1. CASE g = HostOf[p] /\ m = l
          BY <4>1, <5>1, Zenon
        <5>2. CASE flight[g][m].pc # "none"
          <6>1. PICK q \in Pulls : HostOf[q] = g /\ m \in pull[q].wait
            BY <5>2, Zenon DEF Waited, At
          <6>2. m \in pull'[q].wait
            BY <3>1, <4>1, <6>1, Zenon DEF PullMoved
          <6> QED
            BY <6>1, <6>2, Zenon
        <5> QED
          BY <3>5, <5>1, <5>2, Zenon DEF PullAsks
      <4> QED
        BY <3>2, <3>3, <4>2, <4>3, Zenon
    <3> QED
      BY <3>1, <3>4, <3>5, Zenon
  <2>2. ASSUME NEW h \in Hosts, ResolveReads(h)
        PROVE  SerialInv'
    <3>1. /\ UNCHANGED <<flight, pull, overlapped>> /\ resolving[h].pc # "none"
          /\ \A g \in Hosts \ {h} : resolving'[g] = resolving[g]
      BY <2>2, Zenon DEF ResolveReads, PullFrame, TypeOK
    <3> QED
      BY <3>1 DEF Waited, AsksOnce, Asked, OneBusy, At, Busy
  <2>3. ASSUME NEW h \in Hosts, ResolveReturns(h)
        PROVE  SerialInv'
    <3>1. /\ UNCHANGED <<flight, overlapped>> /\ resolving'[h].pc = "none"
          /\ \A g \in Hosts \ {h} : resolving'[g] = resolving[g]
      BY <2>3, NoneType, Zenon DEF ResolveReturns, PullFrame, TypeOK
    <3>2. \A p \in Pulls : /\ pull'[p].todo = pull[p].todo /\ pull'[p].wait = pull[p].wait
                           /\ \/ pull'[p] = pull[p]
                              \/ HostOf[p] = h /\ pull[p].pc = "resolving" /\ pull'[p].pc = "resolved"
      BY <2>3, ResolvedEffect, ZenonT(60)
    <3> QED
      BY <3>1, <3>2 DEF Waited, AsksOnce, Asked, OneBusy, At, Busy
  <2>4. ASSUME NEW h \in Hosts, NEW l \in Layers, LayerStep(h, l)
        PROVE  SerialInv'
    <3>1. LayerMoved(h, l)
      BY <2>4, LayerSummary, Zenon
    <3>2. CASE UNCHANGED pull
      BY <3>1, <3>2 DEF LayerMoved, Waited, AsksOnce, Asked, OneBusy, At, Busy
    <3>3. CASE LayerReturns(h, l)
      <4>1. \A p \in Pulls : /\ pull'[p].pc = pull[p].pc /\ pull'[p].todo = pull[p].todo
                             /\ pull'[p].wait = IF HostOf[p] = h THEN pull[p].wait \ {l} ELSE pull[p].wait
        BY <3>3, ReturnsEffect, SMTT(30)
      <4>2. flight'[h][l].pc = "none"
        BY <3>3, NoneType, Zenon DEF LayerReturns, TypeOK
      <4>3. Waited'
        <5> SUFFICES ASSUME NEW g \in Hosts, NEW m \in Layers, flight'[g][m].pc # "none"
                     PROVE  \E q \in Pulls : HostOf[q] = g /\ m \in pull'[q].wait
          BY Zenon DEF Waited, At
        <5>1. (g # h \/ m # l) /\ flight[g][m].pc # "none"
          BY <3>1, <4>2, Zenon DEF LayerMoved
        <5>2. PICK q \in Pulls : HostOf[q] = g /\ m \in pull[q].wait
          BY <5>1, Zenon DEF Waited, At
        <5> QED
          BY <4>1, <5>1, <5>2, Zenon
      <4>4. UNCHANGED <<resolving, overlapped>>
        BY <3>1, Zenon DEF LayerMoved
      <4>5. AsksOnce'
        <5> SUFFICES ASSUME NEW p \in Pulls
                     PROVE  /\ pull'[p].todo \cap pull'[p].wait = {}
                            /\ pull'[p].pc # "layers" => pull'[p].todo = {} /\ pull'[p].wait = {}
          BY Zenon DEF AsksOnce
        <5>1. pull'[p].pc = pull[p].pc /\ pull'[p].todo = pull[p].todo /\ pull'[p].wait \subseteq pull[p].wait
          BY <4>1, Zenon
        <5>2. /\ pull[p].todo \cap pull[p].wait = {}
              /\ pull[p].pc # "layers" => pull[p].todo = {} /\ pull[p].wait = {}
          BY Zenon DEF AsksOnce
        <5> QED
          BY <5>1, <5>2, Zenon
      <4>6. \A p \in Pulls : pull'[p].pc = pull[p].pc
        BY <4>1, Zenon
      <4>7. Asked' /\ OneBusy'
        BY <4>4, <4>6 DEF Asked, OneBusy, Busy
      <4> QED
        BY <4>3, <4>5, <4>7, Zenon
    <3> QED
      BY <3>1, <3>2, <3>3, Zenon DEF LayerMoved
  <2>5. ASSUME NEW h \in Hosts, Restarts(h)
        PROVE  SerialInv'
    <3>1. /\ \A p \in Pulls : \/ pull'[p] = pull[p] /\ ~(HostOf[p] = h /\ Busy(p))
                              \/ pull'[p] = NewPull /\ HostOf[p] = h /\ Busy(p)
          /\ \A g \in Hosts, l \in Layers : IF g = h THEN flight'[g][l].pc = "none" ELSE flight'[g][l] = flight[g][l]
          /\ \A g \in Hosts : IF g = h THEN resolving'[g] = NoCall ELSE resolving'[g] = resolving[g]
          /\ UNCHANGED overlapped
      BY <2>5, RestartsEffect, SMTT(30)
    <3>2. Waited'
      BY <3>1, SMTT(30) DEF Waited, At
    <3>3. Asked'
      BY <3>1, NoneType, SMTT(30) DEF Asked
    <3>4. AsksOnce' /\ OneBusy'
      BY <3>1, NoneType, ZenonT(60) DEF AsksOnce, OneBusy, Busy
    <3> QED
      BY <3>2, <3>3, <3>4, Zenon
  <2>6. CASE UNCHANGED <<flight, pull, resolving, overlapped>>
    BY <2>6 DEF Waited, AsksOnce, Asked, OneBusy, At, Busy
  <2>7. CASE TagMoves
    BY <2>6, <2>7, Zenon DEF TagMoves
  <2>8. CASE UNCHANGED vars
    BY <2>6, <2>8, Zenon DEF vars
  <2> QED
    BY <2>1, <2>2, <2>3, <2>4, <2>5, <2>7, <2>8, Zenon DEF Next, ResolveStep
<1> QED
  BY <1>1, <1>2, ImagesTypeOK, PTL DEF Spec

-----------------------------------------------------------------------------
\* The pull that accounts for an announced layer
Accounts(p, h, l) ==
  /\ HostOf[p] = h /\ pull[p].pc = "layers" /\ l \in pull[p].marked
  /\ \/ l \in pull[p].todo
     \/ l \in pull[p].wait /\ flight[h][l].marked /\ ~At(h, l, "none") /\ ~At(h, l, "back")

\* The announcements, with the pulls that account for them
LEMMA AnnouncedIs ==
  Announced <=> \A h \in Hosts \ overlapped : \A l \in inflight[h] : \E p \in Pulls : Accounts(p, h, l)
BY ZenonT(60) DEF Announced, Accounts

\* markLayerDone is called by the leader of the layer's call, which is the pull that announced it when
\* the host has only one pull at work
LEMMA JoinsAnnounced ==
  ASSUME TypeOK, SerialInv, Announced, NEW p \in Pulls, NEW l \in Layers, PullJoins(p, l), PullAsks(p, l),
         PullMoved(p)
  PROVE  Announced'
<1> DEFINE h == HostOf[p]
<1> SUFFICES ASSUME NEW g \in Hosts \ overlapped', NEW m \in inflight'[g]
             PROVE  \E q \in Pulls : Accounts(q, g, m)'
  BY ZenonT(60) DEF Announced, Accounts
<1>1. h \in Hosts /\ pull[p] \in Pull /\ g \notin overlapped
  BY ImagesAssumption, Zenon DEF TypeOK, PullAsks
<1>2. /\ pull'[p].pc = "layers" /\ pull'[p].marked = pull[p].marked
      /\ pull'[p].todo = pull[p].todo \ {l} /\ pull'[p].wait = pull[p].wait \cup {l}
  BY <1>1, Zenon DEF PullAsks, TypeOK, Pull
<1>3. m \in inflight[g] /\ m \in Layers
  <2>1. inflight' = inflight \/ inflight' = [inflight EXCEPT ![h] = inflight[h] \ {l}]
    BY Zenon DEF PullJoins
  <2> QED
    BY <1>1, <2>1, SMTT(30) DEF TypeOK
<1>4. PICK q \in Pulls : Accounts(q, g, m)
  BY <1>1, <1>3, AnnouncedIs, Zenon
<1>5. CASE g # h \/ m # l
  <2>1. flight'[g][m] = flight[g][m]
    BY <1>3, <1>5, Zenon DEF PullAsks
  <2>2. CASE q = p
    BY <1>2, <1>4, <1>5, <2>1, <2>2, Zenon DEF Accounts, At
  <2>3. CASE q # p
    <3>1. pull'[q] = pull[q]
      BY <2>3, Zenon DEF PullMoved
    <3> QED
      BY <1>4, <2>1, <3>1, ZenonT(60) DEF Accounts, At
  <2> QED
    BY <2>2, <2>3, Zenon
<1>6. CASE g = h /\ m = l
  <2>1. ASSUME NEW r \in Pulls, HostOf[r] = h, pull[r].pc = "layers"
        PROVE  r = p
    BY <1>1, <1>6, <2>1, Zenon DEF SerialInv, OneBusy, Busy, PullAsks
  <2>2. q = p /\ l \in pull[p].marked
    BY <1>4, <1>6, <2>1, Zenon DEF Accounts
  <2>3. flight[h][l].pc = "none"
    <3>1. SUFFICES ASSUME flight[h][l].pc # "none"
                   PROVE  FALSE
      OBVIOUS
    <3>2. PICK r \in Pulls : HostOf[r] = h /\ l \in pull[r].wait
      BY <1>1, <3>1, Zenon DEF SerialInv, Waited, At
    <3>3. pull[r].pc = "layers"
      BY <3>2, Zenon DEF SerialInv, AsksOnce
    <3>4. r = p
      BY <2>1, <3>2, <3>3, Zenon
    <3> QED
      BY <3>2, <3>4, Zenon DEF SerialInv, AsksOnce, PullAsks
  <2>4. CASE dest[h][l] # "none"
    <3>1. inflight' = [inflight EXCEPT ![h] = inflight[h] \ {l}]
      BY <2>2, <2>3, <2>4, Zenon DEF PullJoins, At
    <3> QED
      BY <1>1, <1>6, <3>1, Zenon DEF TypeOK
  <2>5. CASE dest[h][l] = "none"
    <3> DEFINE f == [flight[h][l] EXCEPT !.pc = IF l \in blob[h] THEN "blob" ELSE "ask",
                                         !.marked = l \in pull[p].marked]
    <3>1. flight' = [flight EXCEPT ![h][l] = f]
      BY <2>3, <2>5, Zenon DEF PullJoins, At
    <3>2. flight[h][l] \in Flight
      BY <1>1 DEF TypeOK
    <3>3. f.pc \in {"blob", "ask"} /\ f.marked = (l \in pull[p].marked)
      BY <3>2, Zenon DEF Flight
    <3> HIDE DEF f
    <3>4. flight'[h][l] = f
      BY <1>1, <3>1, Zenon DEF TypeOK
    <3>5. flight'[h][l].marked
      BY <2>2, <3>3, <3>4, Zenon
    <3> QED
      BY <1>2, <1>6, <2>2, <3>3, <3>4, <3>5, Zenon DEF Accounts, At
  <2> QED
    BY <2>4, <2>5, Zenon
<1> QED
  BY <1>5, <1>6, Zenon

\* Announcements are accounted for, for any hosts and pulls
THEOREM ImagesAnnounced == Spec => []Announced
<1>1. Init => Announced
  BY Zenon DEF Init, Announced
<1>2. TypeOK /\ SerialInv /\ Announced /\ [Next]_vars => Announced'
  <2> SUFFICES ASSUME TypeOK, SerialInv, Announced, [Next]_vars
               PROVE  Announced'
    OBVIOUS
  <2>1. ASSUME overlapped \subseteq overlapped',
               \A g \in Hosts \ overlapped', m \in Layers, q \in Pulls :
                 m \in inflight'[g] /\ m \in inflight[g] /\ Accounts(q, g, m) => Accounts(q, g, m)',
               \A g \in Hosts \ overlapped', m \in Layers :
                 m \in inflight'[g] => m \in inflight[g] \/ \E q \in Pulls : Accounts(q, g, m)',
               \A g \in Hosts : inflight'[g] \subseteq Layers
        PROVE  Announced'
    <3> SUFFICES ASSUME NEW g \in Hosts \ overlapped', NEW m \in inflight'[g]
                 PROVE  \E q \in Pulls : Accounts(q, g, m)'
      BY Zenon DEF Announced, Accounts
    <3>1. CASE m \in inflight[g]
      <4>1. PICK q \in Pulls : Accounts(q, g, m)
        BY <2>1, <3>1, AnnouncedIs, Zenon
      <4> QED
        BY <2>1, <3>1, <4>1, Zenon
    <3> QED
      BY <2>1, <3>1, Zenon
  <2>2. TypeOK' => \A g \in Hosts : inflight'[g] \subseteq Layers
    BY Zenon DEF TypeOK
  <2>3. ASSUME NEW p \in Pulls, PullStep(p)
        PROVE  Announced'
    <3>1. PullMoved(p) /\ (PullQuiet(p) \/ \E l \in Layers : PullJoins(p, l) /\ PullAsks(p, l))
      BY <2>3, PullSummary, Zenon DEF SerialInv
    <3>2. CASE PullQuiet(p)
      <4>1. ASSUME NEW g \in Hosts, NEW m \in Layers, NEW q \in Pulls, Accounts(q, g, m)
            PROVE  Accounts(q, g, m)'
        <5>1. q # p /\ pull'[q] = pull[q] /\ UNCHANGED flight
          BY <3>1, <3>2, <4>1, ZenonT(60) DEF Accounts, PullQuiet, PullMoved
        <5> QED
          BY <4>1, <5>1, Zenon DEF Accounts, At
      <4>2. ASSUME NEW g \in Hosts, NEW m \in Layers, m \in inflight'[g], m \notin inflight[g]
            PROVE  Accounts(p, g, m)'
        <5>1. /\ pull'[p].pc = "layers" /\ pull'[p].marked \subseteq pull'[p].todo
              /\ g = HostOf[p] /\ m \in pull'[p].marked
          BY <3>2, <4>2, ImagesAssumption DEF PullQuiet, TypeOK
        <5> QED
          BY <5>1, Zenon DEF Accounts
      <4>3. TypeOK'
        BY <2>3, PullType, Zenon
      <4> QED
        BY <2>1, <2>2, <3>1, <4>1, <4>2, <4>3, ZenonT(60) DEF PullMoved
    <3> QED
      BY <3>1, <3>2, JoinsAnnounced, Zenon
  <2>4. ASSUME NEW h \in Hosts, ResolveStep(h)
        PROVE  Announced'
    <3>1. UNCHANGED <<flight, inflight, overlapped>>
      BY <2>4, ZenonT(60) DEF ResolveStep, ResolveReads, ResolveReturns, PullFrame
    <3>2. ASSUME NEW q \in Pulls, pull[q].pc = "layers"
          PROVE  pull'[q] = pull[q]
      BY <2>4, <3>2, ResolvedEffect, ZenonT(60) DEF ResolveStep, ResolveReads
    <3>3. ASSUME NEW g \in Hosts, NEW m \in Layers, NEW q \in Pulls, Accounts(q, g, m)
          PROVE  Accounts(q, g, m)'
      BY <3>1, <3>2, <3>3, Zenon DEF Accounts, At
    <3> QED
      BY <2>1, <3>1, <3>3, Zenon DEF TypeOK
  <2>5. ASSUME NEW h \in Hosts, NEW l \in Layers, LayerStep(h, l)
        PROVE  Announced'
    <3>1. LayerMoved(h, l) /\ TypeOK'
      BY <2>5, LayerSummary, LayerType, Zenon
    <3>2. \A g \in Hosts, m \in Layers : g # h \/ m # l => flight'[g][m] = flight[g][m]
      BY <3>1, Zenon DEF LayerMoved
    <3>3. UNCHANGED overlapped
      BY <3>1, Zenon DEF LayerMoved
    <3>4. CASE /\ UNCHANGED <<pull, inflight>>
               /\ flight'[h][l].marked = flight[h][l].marked /\ flight'[h][l].pc \notin {"none", "back"}
      <4>1. ASSUME NEW g \in Hosts, NEW m \in Layers, NEW q \in Pulls, Accounts(q, g, m)
            PROVE  Accounts(q, g, m)'
        BY <3>2, <3>4, <4>1, Zenon DEF Accounts, At
      <4> QED
        BY <2>1, <2>2, <3>1, <3>3, <3>4, <4>1, Zenon
    <3>5. ASSUME UNCHANGED pull, NEW ok \in BOOLEAN, Ensured(h, l, ok)
          PROVE  Announced'
      <4>1. ASSUME NEW g \in Hosts, NEW m \in Layers, m \in inflight'[g]
            PROVE  m \in inflight[g] /\ (g = h /\ m = l => ~flight[h][l].marked)
        BY <3>5, <4>1, Zenon DEF Ensured, TypeOK
      <4>2. ASSUME NEW g \in Hosts, NEW m \in Layers, m \in inflight'[g], NEW q \in Pulls, Accounts(q, g, m)
            PROVE  Accounts(q, g, m)'
        <5>1. CASE g # h \/ m # l
          BY <3>2, <3>5, <4>2, <5>1, Zenon DEF Accounts, At
        <5>2. CASE g = h /\ m = l
          BY <3>5, <4>1, <4>2, <5>2, Zenon DEF Accounts, At
        <5> QED
          BY <5>1, <5>2, Zenon
      <4> QED
        BY <2>1, <2>2, <3>1, <3>3, <4>1, <4>2, Zenon
    <3>6. CASE LayerReturns(h, l)
      <4>1. UNCHANGED inflight /\ flight[h][l].pc = "back"
        BY <3>6, Zenon DEF LayerReturns, At
      <4>2. ASSUME NEW g \in Hosts, NEW m \in Layers, NEW q \in Pulls, Accounts(q, g, m)
            PROVE  Accounts(q, g, m)'
        <5>1. /\ pull'[q].pc = pull[q].pc /\ pull'[q].todo = pull[q].todo /\ pull'[q].marked = pull[q].marked
              /\ pull'[q].wait = IF HostOf[q] = h THEN pull[q].wait \ {l} ELSE pull[q].wait
          BY <3>6, ReturnsEffect
        <5>2. CASE g # h \/ m # l
          BY <3>2, <4>2, <5>1, <5>2, Zenon DEF Accounts, At
        <5>3. CASE g = h /\ m = l
          BY <4>1, <4>2, <5>1, <5>3, Zenon DEF Accounts, At
        <5> QED
          BY <5>2, <5>3, Zenon
      <4> QED
        BY <2>1, <2>2, <3>1, <3>3, <4>1, <4>2, Zenon
    <3> QED
      BY <3>1, <3>4, <3>5, <3>6, Zenon DEF LayerMoved
  <2>6. ASSUME NEW h \in Hosts, Restarts(h)
        PROVE  Announced'
    <3>1. /\ \A q \in Pulls : pull'[q] = pull[q] \/ HostOf[q] = h
          /\ \A g \in Hosts, m \in Layers : g # h => flight'[g][m] = flight[g][m]
          /\ \A g \in Hosts : IF g = h THEN inflight'[g] = {} ELSE inflight'[g] = inflight[g]
          /\ UNCHANGED overlapped
      BY <2>6, RestartsEffect
    <3>2. ASSUME NEW g \in Hosts, NEW m \in Layers, m \in inflight'[g], NEW q \in Pulls, Accounts(q, g, m)
          PROVE  Accounts(q, g, m)'
      <4>1. g # h
        BY <3>1, <3>2, Zenon
      <4> QED
        BY <3>1, <3>2, <4>1, Zenon DEF Accounts, At
    <3>3. \A g \in Hosts : inflight'[g] \subseteq inflight[g] /\ inflight'[g] \subseteq Layers
      BY <3>1, Zenon DEF TypeOK
    <3> QED
      BY <2>1, <3>1, <3>2, <3>3, Zenon
  <2>7. CASE UNCHANGED <<flight, pull, inflight, overlapped>>
    BY <2>7 DEF Announced, At
  <2>8. CASE TagMoves
    BY <2>7, <2>8, Zenon DEF TagMoves
  <2>9. CASE UNCHANGED vars
    BY <2>7, <2>9, Zenon DEF vars
  <2> QED
    BY <2>3, <2>4, <2>5, <2>6, <2>8, <2>9, Zenon DEF Next
<1> QED
  BY <1>1, <1>2, ImagesTypeOK, ImagesSerialInv, PTL, ZenonT(60) DEF Spec

\* AnnouncementsEnd, for any hosts and pulls: once the pulls of a host are over, failed ones
\* included, markLayerDone has taken back what markInflight announced.
THEOREM ImagesAnnouncementsEnd == Spec => []AnnouncementsEnd
<1>1. Announced => AnnouncementsEnd
  <2> SUFFICES ASSUME Announced, NEW h \in Hosts \ overlapped, \A p \in Pulls : HostOf[p] = h => ~Busy(p),
                      NEW l \in inflight[h]
               PROVE  FALSE
    BY Zenon DEF AnnouncementsEnd
  <2>1. PICK p \in Pulls : HostOf[p] = h /\ pull[p].pc = "layers"
    BY Zenon DEF Announced
  <2> QED
    BY <2>1, Zenon DEF Busy
<1> QED
  BY <1>1, ImagesAnnounced, PTL

-----------------------------------------------------------------------------
\* Versions are numbers
LEMMA VersionsAreNumbers == Version \subseteq Nat /\ Versions \subseteq Nat
BY ImagesAssumption DEF Version, Versions

\* The versions a state holds are numbers
LEMMA NumbersIn ==
  ASSUME TypeOK
  PROVE  /\ remote \in Nat
         /\ \A h \in Hosts : list[h] \in Nat /\ index[h] \in Nat /\ resolving[h].ver \in Nat /\ resolving[h].idx \in Nat
         /\ \A p \in Pulls : pull[p].ver \in Nat /\ pull[p].idx \in Nat /\ pull[p].seen \in Nat
BY VersionsAreNumbers, ZenonT(60) DEF TypeOK, Call, Pull

\* A step of one pull that keeps the dates of its own host keeps all of them: it writes the two
\* files of its host only, and only while no other pull of the host is at work
LEMMA DatesLocal ==
  ASSUME TypeOK, SerialInv, DatesInv, NEW p \in Pulls, PullMoved(p), Behind',
         \A g \in Hosts \ {HostOf[p]} : index'[g] = index[g] /\ list'[g] = list[g],
         UNCHANGED <<list, index>> \/ Busy(p),
         HostOf[p] \notin overlapped' =>
           Dated(p)' /\ CallDated(HostOf[p])' /\ index'[HostOf[p]] <= list'[HostOf[p]]
  PROVE  DatesInv'
<1> DEFINE h == HostOf[p]
<1>1. h \in Hosts /\ overlapped \subseteq overlapped'
  BY ImagesAssumption, ZenonT(60) DEF PullMoved
<1>2. IndexNotAhead'
  BY <1>1, Zenon DEF DatesInv, IndexNotAhead
<1>3. ASSUME NEW g \in Hosts \ overlapped'
      PROVE  CallDated(g)'
  <2>1. CASE g = h
    BY <1>3, <2>1, Zenon
  <2>2. CASE g # h
    <3>1. resolving'[g] = resolving[g] /\ index'[g] = index[g]
      BY <2>2, Zenon DEF PullMoved
    <3>2. \A q \in Pulls : HostOf[q] = g => pull'[q] = pull[q]
      BY <2>2, Zenon DEF PullMoved
    <3>3. CallDated(g)
      BY <1>1, ZenonT(60) DEF DatesInv
    <3> QED
      BY <3>1, <3>2, <3>3, Zenon DEF CallDated
  <2> QED
    BY <2>1, <2>2, Zenon
<1>4. ASSUME NEW q \in Pulls, HostOf[q] \notin overlapped'
      PROVE  Dated(q)'
  <2>1. CASE q = p
    BY <1>4, <2>1, Zenon
  <2>2. CASE q # p
    <3>1. pull'[q] = pull[q] /\ HostOf[q] \in Hosts /\ Dated(q)
      BY <1>1, <1>4, <2>2, ImagesAssumption, Zenon DEF PullMoved, DatesInv
    <3>2. CASE index'[HostOf[q]] = index[HostOf[q]] /\ list'[HostOf[q]] = list[HostOf[q]]
      BY <3>1, <3>2, ZenonT(60) DEF Dated, Saves
    <3>3. CASE HostOf[q] = h /\ Busy(p)
      <4>1. ~Busy(q)
        BY <1>1, <1>4, <2>2, <3>3, Zenon DEF SerialInv, OneBusy
      <4> QED
        BY <3>1, <4>1, Zenon DEF Dated, Saves, Busy
    <3> QED
      BY <3>1, <3>2, <3>3, Zenon
  <2> QED
    BY <2>1, <2>2, Zenon
<1> QED
  BY <1>2, <1>3, <1>4, Zenon DEF DatesInv

\* A resolution under way on a host with one pull at work is that pull's
LEMMA NoOtherCall ==
  ASSUME TypeOK, SerialInv, NEW p \in Pulls, HostOf[p] \notin overlapped, Busy(p), pull[p].pc # "resolving"
  PROVE  resolving[HostOf[p]].pc = "none"
<1>1. SUFFICES ASSUME resolving[HostOf[p]].pc # "none"
               PROVE  FALSE
  OBVIOUS
<1>2. HostOf[p] \in Hosts
  BY ImagesAssumption, Zenon
<1>3. PICK q \in Pulls : HostOf[q] = HostOf[p] /\ pull[q].pc = "resolving"
  BY <1>1, <1>2, Zenon DEF SerialInv, Asked
<1> QED
  BY <1>3, Zenon DEF SerialInv, OneBusy, Busy

\* A pull's own steps keep the dates: it takes over what the registry said, in the order in which it was
\* read, and writes the layer list before the index digest
LEMMA PullDates ==
  ASSUME TypeOK, SerialInv, DatesInv, NEW p \in Pulls, PullStep(p)
  PROVE  DatesInv'
<1> DEFINE h == HostOf[p]
<1>1. /\ h \in Hosts /\ pull[p] \in Pull /\ mem[h] \in Version /\ list[h] \in Version /\ 0 \in Version
      /\ pull[p].ver \in Version /\ pull[p].idx \in Version /\ pull[p].failed \in BOOLEAN
  BY ImagesAssumption, Zenon DEF TypeOK, Version, Pull
<1>2. PullMoved(p)
  BY PullSummary, Zenon DEF SerialInv
<1>3. /\ overlapped \subseteq overlapped' /\ remote' = remote /\ \A q \in Pulls \ {p} : pull'[q] = pull[q]
      /\ pull[p].pc \in {"new", "head", "resolve", "resolved", "layers", "save"}
  BY <1>2, Zenon DEF PullMoved
<1>4. Behind /\ (h \notin overlapped' => Dated(p) /\ CallDated(h) /\ index[h] <= list[h])
  BY <1>1, <1>3, ZenonT(60) DEF DatesInv, IndexNotAhead
<1>5. /\ remote \in Nat /\ list[h] \in Nat /\ index[h] \in Nat
      /\ pull[p].ver \in Nat /\ pull[p].idx \in Nat /\ pull[p].seen \in Nat
      /\ index[h] <= remote /\ pull[p].seen <= remote /\ pull[p].idx <= remote
  BY <1>1, <1>4, NumbersIn, Zenon DEF Behind
<1>6. ASSUME UNCHANGED <<list, index, resolving>>, pull'[p].pc # "resolving",
             pull'[p].seen <= remote, pull'[p].idx <= remote, h \notin overlapped' => Dated(p)'
      PROVE  DatesInv'
  <2>1. Behind'
    BY <1>3, <1>4, <1>6, ZenonT(60) DEF Behind
  <2>2. h \notin overlapped' => CallDated(h)'
    BY <1>3, <1>4, <1>6, Zenon DEF CallDated
  <2>3. /\ \A g \in Hosts \ {h} : index'[g] = index[g] /\ list'[g] = list[g]
        /\ UNCHANGED <<list, index>> /\ index'[h] = index[h] /\ list'[h] = list[h]
    BY <1>6, Zenon
  <2>4. h \notin overlapped' => Dated(p)' /\ CallDated(h)' /\ index'[h] <= list'[h]
    BY <1>4, <1>6, <2>2, <2>3, Zenon
  <2> QED
    BY <1>2, <2>1, <2>3, <2>4, DatesLocal, ZenonT(60)
<1>7. ASSUME UNCHANGED <<list, index, resolving>>, NEW v \in Version, NEW c \in BOOLEAN, NEW ok \in BOOLEAN,
             Ends(p, v, c, ok), ~c
      PROVE  DatesInv'
  <2>1. pull'[p].pc = "done" /\ pull'[p].ver = v /\ pull'[p].seen = 0 /\ pull'[p].idx = 0
    BY <1>7, EndsType
  <2>2. v \in Nat
    BY <1>7, VersionsAreNumbers, Zenon
  <2>3. Dated(p)'
    BY <2>1, <2>2, SMTT(30) DEF Dated, Saves
  <2> QED
    BY <1>5, <1>6, <1>7, <2>1, <2>3, SMTT(30)
<1>8. ASSUME UNCHANGED <<list, index, resolving>>, NEW v \in Versions, NEW saves \in BOOLEAN,
             Enters(p, v, 0, saves), ~saves
      PROVE  DatesInv'
  <2>1. pull'[p].pc = "layers" /\ ~pull'[p].saves /\ pull'[p].seen = pull[p].seen /\ pull'[p].idx = 0
    BY <1>1, <1>8, EntersType
  <2>2. Dated(p)'
    BY <2>1, Zenon DEF Dated, Saves
  <2> QED
    BY <1>5, <1>6, <1>8, <2>1, <2>2
<1>9. CASE PullFinds(p)
  <2>1. UNCHANGED <<list, index, resolving>>
    BY <1>9, Zenon DEF PullFinds, files
  <2>2. CASE Loads(h)
    BY <1>1, <1>7, <1>9, <2>1, <2>2, ZenonT(60) DEF PullFinds
  <2>3. CASE ~Loads(h)
    <3>1. Enters(p, mem[h], 0, FALSE) /\ mem[h] \in Versions
      BY <1>1, <1>9, <2>3, VersionType, Zenon DEF PullFinds
    <3> QED
      BY <1>8, <2>1, <3>1, ZenonT(60)
  <2> QED
    BY <2>2, <2>3, Zenon
<1>10. CASE PullRefuses(p)
  BY <1>1, <1>7, <1>10, Zenon DEF PullRefuses, PullFrame, files
<1>11. CASE PullStarts(p)
  <2> DEFINE new == IF Loads(h) THEN [pull[p] EXCEPT !.pc = "head", !.ver = list[h], !.seen = remote]
                                ELSE [pull[p] EXCEPT !.pc = "resolve", !.seen = remote]
  <2>1. UNCHANGED <<list, index, resolving>> /\ pull' = [pull EXCEPT ![p] = new]
    BY <1>11, Zenon DEF PullStarts, PullFrame, files
  <2>2. /\ new.pc = "resolve" \/ (new.pc = "head" /\ new.ver = list[h])
        /\ new.seen = remote /\ new.idx = pull[p].idx
    BY <1>1, Zenon DEF Pull
  <2> HIDE DEF new
  <2>3. pull'[p] = new
    BY <2>1, Zenon DEF TypeOK
  <2>4. Dated(p)'
    BY <2>1, <2>2, <2>3, Zenon DEF Dated, Saves
  <2> QED
    BY <1>5, <1>6, <2>1, <2>2, <2>3, <2>4
<1>12. CASE PullHeads(p)
  <2>1. pull[p].pc = "head" /\ UNCHANGED <<list, index, resolving>>
    BY <1>12, Zenon DEF PullHeads, PullFrame, files
  <2>2. CASE index[h] = remote /\ Ends(p, pull[p].ver, TRUE, TRUE)
    <3>1. pull'[p].pc = "done" /\ pull'[p].ver = pull[p].ver /\ pull'[p].seen = pull[p].seen /\ pull'[p].idx = 0
      BY <1>1, <2>2, EndsType, ZenonT(60)
    <3>2. h \notin overlapped' => pull[p].seen <= pull[p].ver
      BY <1>4, <1>5, <2>1, <2>2 DEF Dated, Saves
    <3>3. h \notin overlapped' => Dated(p)'
      BY <3>1, <3>2, Zenon DEF Dated, Saves
    <3> QED
      BY <1>5, <1>6, <2>1, <3>1, <3>3
  <2>3. CASE pull' = [pull EXCEPT ![p] = [pull[p] EXCEPT !.pc = "resolve", !.ver = 0]]
    <3>1. pull'[p].pc = "resolve" /\ pull'[p].seen = pull[p].seen /\ pull'[p].idx = pull[p].idx
      BY <1>1, <2>3, Zenon DEF TypeOK, Pull
    <3>2. Dated(p)'
      BY <3>1, Zenon DEF Dated, Saves
    <3> QED
      BY <1>5, <1>6, <2>1, <3>1, <3>2, Zenon
  <2> QED
    BY <1>12, <2>2, <2>3, Zenon DEF PullHeads
<1>13. CASE PullResolves(p)
  <2>1. /\ pull[p].pc = "resolve" /\ UNCHANGED <<list, index, overlapped>>
        /\ pull' = [pull EXCEPT ![p].pc = "resolving"]
    BY <1>13, Zenon DEF PullResolves, PullFrame, files
  <2>2. pull'[p].pc = "resolving" /\ pull'[p].seen = pull[p].seen /\ pull'[p].idx = pull[p].idx
    BY <1>1, <2>1, Zenon DEF TypeOK, Pull
  <2>3. Dated(p)'
    BY <2>2, Zenon DEF Dated, Saves
  <2>4. \/ UNCHANGED resolving /\ resolving[h].pc # "none"
        \/ \E idx \in {remote, 0} : resolving' = [resolving EXCEPT ![h] = [pc |-> "image", ver |-> 0, idx |-> idx]]
    BY <1>13, Zenon DEF PullResolves
  <2>5. Behind'
    <3>1. \A g \in Hosts : resolving'[g] = resolving[g] \/ resolving'[g].idx \in {remote, 0}
      BY <1>1, <2>4, SMTT(30) DEF TypeOK
    <3>2. \A g \in Hosts : resolving'[g].idx <= remote
      BY <1>4, <1>5, <3>1 DEF Behind
    <3> QED
      BY <1>3, <1>4, <1>5, <2>1, <2>2, <3>2, Zenon DEF Behind
  <2>6. h \notin overlapped' => CallDated(h)'
    <3>1. SUFFICES ASSUME h \notin overlapped'
                   PROVE  CallDated(h)'
      OBVIOUS
    <3>2. resolving[h].pc = "none"
      BY <2>1, <3>1, NoOtherCall, Zenon DEF Busy
    <3>3. resolving'[h].pc = "image"
      BY <1>1, <2>4, <3>2 DEF TypeOK
    <3> QED
      BY <3>3, Zenon DEF CallDated
  <2>7. /\ \A g \in Hosts \ {h} : index'[g] = index[g] /\ list'[g] = list[g]
        /\ UNCHANGED <<list, index>> /\ index'[h] = index[h] /\ list'[h] = list[h]
    BY <2>1, Zenon
  <2>8. h \notin overlapped' => Dated(p)' /\ CallDated(h)' /\ index'[h] <= list'[h]
    BY <1>4, <2>3, <2>6, <2>7, Zenon
  <2> QED
    BY <1>2, <2>5, <2>7, <2>8, DatesLocal, Zenon
<1>14. CASE PullStores(p)
  <2>1. /\ pull[p].pc = "resolved" /\ UNCHANGED <<list, index, resolving>>
        /\ Enters(p, pull[p].ver, pull[p].idx, TRUE) /\ pull[p].ver # 0 /\ pull[p].ver \in Versions
    BY <1>1, <1>14, VersionType, Zenon DEF PullStores, files
  <2>2. /\ pull'[p].pc = "layers" /\ pull'[p].ver = pull[p].ver
        /\ pull'[p].seen = pull[p].seen /\ pull'[p].idx = pull[p].idx
    <3>1. TRUE \in BOOLEAN
      OBVIOUS
    <3> QED
      BY <1>1, <2>1, <3>1, EntersType, ZenonT(60)
  <2>3. h \notin overlapped' => Dated(p)'
    BY <1>4, <2>1, <2>2, ZenonT(60) DEF Dated, Saves
  <2> QED
    BY <1>5, <1>6, <2>1, <2>2, <2>3, ZenonT(60)
<1>15. CASE PullFallsBack(p)
  <2>1. UNCHANGED <<list, index, resolving>>
    BY <1>15, ZenonT(60) DEF PullFallsBack, files
  <2>2. CASE mem[h] # 0
    <3>1. Enters(p, mem[h], 0, FALSE) /\ mem[h] \in Versions
      BY <1>1, <1>15, <2>2, VersionType, Zenon DEF PullFallsBack
    <3> QED
      BY <1>8, <2>1, <3>1, Zenon
  <2>3. CASE mem[h] = 0
    <3>1. Ends(p, list[h], FALSE, TRUE) \/ Ends(p, 0, FALSE, FALSE)
      BY <1>15, <2>3, Zenon DEF PullFallsBack, Ends
    <3> QED
      BY <1>1, <1>7, <2>1, <3>1, Zenon
  <2> QED
    BY <2>2, <2>3, Zenon
<1>16. ASSUME NEW l \in Layers, PullJoins(p, l)
       PROVE  DatesInv'
  <2>1. /\ UNCHANGED <<list, index, resolving>>
        /\ pull' = [pull EXCEPT ![p] = [pull[p] EXCEPT !.todo = pull[p].todo \ {l}, !.wait = pull[p].wait \cup {l}]]
    BY <1>1, <1>16, Zenon DEF PullJoins, TypeOK, Pull, files
  <2>2. /\ pull'[p].pc = pull[p].pc /\ pull'[p].ver = pull[p].ver /\ pull'[p].saves = pull[p].saves
        /\ pull'[p].seen = pull[p].seen /\ pull'[p].idx = pull[p].idx
    BY <1>1, <2>1, Zenon DEF TypeOK, Pull
  <2>3. h \notin overlapped' => Dated(p)'
    BY <1>4, <2>1, <2>2, Zenon DEF Dated, Saves
  <2> QED
    BY <1>3, <1>5, <1>6, <2>1, <2>2, <2>3, Zenon
<1>17. CASE PullWaits(p)
  <2>1. pull[p].pc = "layers" /\ UNCHANGED <<index, resolving, overlapped>>
    BY <1>17, Zenon DEF PullWaits
  <2>2. CASE UNCHANGED list /\ Ends(p, pull[p].ver, FALSE, ~pull[p].failed)
    BY <1>1, <1>7, <2>1, <2>2, Zenon
  <2>3. CASE /\ pull[p].saves /\ list' = [list EXCEPT ![h] = pull[p].ver]
             /\ pull' = [pull EXCEPT ![p] = [pull[p] EXCEPT !.pc = "save", !.marked = {}]]
    <3>1. /\ pull'[p].pc = "save" /\ pull'[p].ver = pull[p].ver
          /\ pull'[p].seen = pull[p].seen /\ pull'[p].idx = pull[p].idx
      BY <1>1, <2>3, Zenon DEF TypeOK, Pull
    <3>2. list'[h] = pull[p].ver /\ \A g \in Hosts \ {h} : list'[g] = list[g] /\ index'[g] = index[g]
      BY <1>1, <2>1, <2>3, Zenon DEF TypeOK
    <3>3. Behind'
      BY <1>3, <1>4, <1>5, <2>1, <3>1, ZenonT(60) DEF Behind
    <3>4. h \notin overlapped' => CallDated(h)'
      BY <1>3, <1>4, <2>1, <3>1, ZenonT(60) DEF CallDated
    <3>5. h \notin overlapped' => Dated(p)' /\ index'[h] <= list'[h]
      <4>1. SUFFICES ASSUME h \notin overlapped'
                     PROVE  Dated(p)' /\ index'[h] <= list'[h]
        OBVIOUS
      <4>2. pull[p].idx <= pull[p].ver /\ index[h] <= pull[p].ver /\ pull[p].seen <= pull[p].ver
        <5>1. pull[p].pc = "layers" /\ pull[p].saves /\ Dated(p)
          BY <1>4, <2>1, <2>3, <4>1, Zenon
        <5> QED
          BY <5>1, Zenon DEF Dated, Saves
      <4>3. index'[h] = index[h]
        BY <2>1, Zenon
      <4> QED
        BY <3>1, <3>2, <4>2, <4>3, ZenonT(60) DEF Dated, Saves
    <3> QED
      BY <1>2, <2>1, <3>2, <3>3, <3>4, <3>5, DatesLocal, Zenon DEF Busy
  <2> QED
    BY <1>17, <2>2, <2>3, Zenon DEF PullWaits
<1>18. CASE PullSavesIndex(p)
  <2>1. /\ pull[p].pc = "save" /\ UNCHANGED <<list, resolving, overlapped>>
        /\ index' = [index EXCEPT ![h] = IF pull[p].idx # 0 THEN pull[p].idx ELSE index[h]]
        /\ Ends(p, pull[p].ver, TRUE, TRUE)
    BY <1>18, Zenon DEF PullSavesIndex
  <2>2. pull'[p].pc = "done" /\ pull'[p].ver = pull[p].ver /\ pull'[p].seen = pull[p].seen /\ pull'[p].idx = 0
    BY <1>1, <2>1, EndsType, ZenonT(60)
  <2>3. /\ index'[h] = IF pull[p].idx # 0 THEN pull[p].idx ELSE index[h]
        /\ \A g \in Hosts \ {h} : list'[g] = list[g] /\ index'[g] = index[g]
    BY <1>1, <2>1, Zenon DEF TypeOK
  <2>4. Behind'
    BY <1>3, <1>4, <1>5, <2>1, <2>2, <2>3 DEF Behind
  <2>5. h \notin overlapped' => CallDated(h)'
    BY <2>1, NoOtherCall, Zenon DEF CallDated, Busy
  <2>6. h \notin overlapped' => Dated(p)' /\ index'[h] <= list'[h]
    BY <1>4, <2>1, <2>2, <2>3, Zenon DEF Dated, Saves
  <2> QED
    BY <1>2, <2>1, <2>3, <2>4, <2>5, <2>6, DatesLocal, ZenonT(60) DEF Busy
<1> QED
  BY <1>9, <1>10, <1>11, <1>12, <1>13, <1>14, <1>15, <1>16, <1>17, <1>18, Zenon DEF PullStep

\* The dates of what was read and what is persisted, for any hosts, pulls and versions
THEOREM ImagesDatesInv == Spec => []DatesInv
<1>1. Init => DatesInv
  <2> SUFFICES ASSUME Init
               PROVE  DatesInv
    OBVIOUS
  <2>1. \A p \in Pulls : pull[p].pc = "new" /\ pull[p].seen = 0 /\ pull[p].idx = 0
    BY NoneType, Zenon DEF Init
  <2>2. /\ remote = 1
        /\ \A h \in Hosts : list[h] = 0 /\ index[h] = 0 /\ resolving[h].pc = "none" /\ resolving[h].idx = 0
    BY NoneType, Zenon DEF Init
  <2>3. Behind /\ IndexNotAhead
    BY <2>1, <2>2, SMTT(30) DEF Behind, IndexNotAhead
  <2>4. /\ \A h \in Hosts : CallDated(h)
        /\ \A p \in Pulls : Dated(p)
    BY <2>1, <2>2, Zenon DEF CallDated, Dated, Saves
  <2> QED
    BY <2>3, <2>4, Zenon DEF DatesInv
<1>2. TypeOK /\ SerialInv /\ DatesInv /\ [Next]_vars => DatesInv'
  <2> SUFFICES ASSUME TypeOK, SerialInv, DatesInv, [Next]_vars
               PROVE  DatesInv'
    OBVIOUS
  <2> USE NumbersIn
  <2>1. ASSUME NEW h \in Hosts, ResolveReads(h)
        PROVE  DatesInv'
    <3>1. UNCHANGED <<remote, list, index, pull, overlapped>>
      BY <2>1, Zenon DEF ResolveReads, PullFrame, files
    <3>2. PICK v \in {remote, 0} : resolving' = [resolving EXCEPT ![h] = [resolving[h] EXCEPT !.pc = "back", !.ver = v]]
      BY <2>1, ZenonT(30) DEF ResolveReads
    <3>3. /\ resolving'[h].ver = v /\ resolving'[h].idx = resolving[h].idx
          /\ \A g \in Hosts \ {h} : resolving'[g] = resolving[g]
      BY <3>2, Zenon DEF TypeOK, Call
    <3>4. Behind' /\ IndexNotAhead'
      BY <3>1, <3>3, Zenon DEF DatesInv, Behind, IndexNotAhead
    <3>5. ASSUME NEW g \in Hosts \ overlapped
          PROVE  CallDated(g)'
      <4>1. CASE g = h
        BY <3>1, <3>3, <4>1, Zenon DEF DatesInv, Behind, CallDated
      <4>2. CASE g # h
        BY <3>1, <3>3, <4>2, ZenonT(60) DEF DatesInv, CallDated
      <4> QED
        BY <4>1, <4>2, Zenon
    <3>6. ASSUME NEW p \in Pulls, HostOf[p] \notin overlapped
          PROVE  Dated(p)'
      BY <3>1, <3>6, Zenon DEF DatesInv, Dated, Saves
    <3> QED
      BY <3>1, <3>4, <3>5, <3>6, Zenon DEF DatesInv
  <2>2. ASSUME NEW h \in Hosts, ResolveReturns(h)
        PROVE  DatesInv'
    <3>1. UNCHANGED <<remote, list, index, overlapped>> /\ resolving[h].pc = "back"
      BY <2>2, ZenonT(60) DEF ResolveReturns, PullFrame, files
    <3>2. /\ resolving'[h].pc = "none" /\ resolving'[h].idx = 0
          /\ \A g \in Hosts \ {h} : resolving'[g] = resolving[g]
      BY <2>2, NoneType, ZenonT(60) DEF ResolveReturns, TypeOK
    <3>3. ASSUME NEW p \in Pulls
          PROVE  /\ pull'[p].seen = pull[p].seen
                 /\ IF HostOf[p] = h /\ pull[p].pc = "resolving"
                    THEN /\ pull'[p].pc = "resolved" /\ pull'[p].ver = resolving[h].ver
                         /\ pull'[p].idx = resolving[h].idx
                    ELSE pull'[p] = pull[p]
      BY <2>2, ResolvedEffect, ZenonT(60)
    <3>4. Behind' /\ IndexNotAhead'
      BY <3>1, <3>2, <3>3 DEF DatesInv, Behind, IndexNotAhead
    <3>5. ASSUME NEW g \in Hosts \ overlapped
          PROVE  CallDated(g)'
      <4>1. CASE g = h
        BY <3>2, <4>1, Zenon DEF CallDated
      <4>2. CASE g # h
        <5>1. \A p \in Pulls : HostOf[p] = g => pull'[p] = pull[p]
          BY <3>3, <4>2, Zenon
        <5> QED
          BY <3>1, <3>2, <4>2, <5>1, ZenonT(60) DEF DatesInv, CallDated
      <4> QED
        BY <4>1, <4>2, Zenon
    <3>6. ASSUME NEW p \in Pulls, HostOf[p] \notin overlapped
          PROVE  Dated(p)'
      <4>1. CASE HostOf[p] = h /\ pull[p].pc = "resolving"
        <5>1. CallDated(h)
          BY <3>6, <4>1, ZenonT(60) DEF DatesInv
        <5> QED
          BY <3>1, <3>3, <4>1, <5>1, ZenonT(60) DEF CallDated, Dated, Saves
      <4>2. CASE pull'[p] = pull[p]
        BY <3>1, <3>6, <4>2, Zenon DEF DatesInv, Dated, Saves
      <4> QED
        BY <3>3, <4>1, <4>2, ZenonT(60)
    <3> QED
      BY <3>1, <3>4, <3>5, <3>6, ZenonT(60) DEF DatesInv
  <2>3. ASSUME UNCHANGED <<remote, list, index, resolving, overlapped>>,
               \A p \in Pulls : /\ pull'[p].pc = pull[p].pc /\ pull'[p].ver = pull[p].ver
                                /\ pull'[p].idx = pull[p].idx /\ pull'[p].saves = pull[p].saves
                                /\ pull'[p].seen = pull[p].seen
        PROVE  DatesInv'
    <3>1. Behind' /\ IndexNotAhead'
      BY <2>3, ZenonT(60) DEF DatesInv, Behind, IndexNotAhead
    <3>2. \A g \in Hosts \ overlapped : CallDated(g)'
      BY <2>3, ZenonT(60) DEF DatesInv, CallDated
    <3>3. ASSUME NEW p \in Pulls, HostOf[p] \notin overlapped
          PROVE  Dated(p)'
      BY <2>3, <3>3, ZenonT(60) DEF DatesInv, Dated, Saves
    <3> QED
      BY <2>3, <3>1, <3>2, <3>3, ZenonT(60) DEF DatesInv
  <2>4. ASSUME NEW h \in Hosts, NEW l \in Layers, LayerStep(h, l)
        PROVE  DatesInv'
    <3>1. LayerMoved(h, l)
      BY <2>4, LayerSummary, Zenon
    <3>2. CASE UNCHANGED pull
      BY <2>3, <3>1, <3>2, Zenon DEF LayerMoved
    <3>3. CASE LayerReturns(h, l)
      BY <2>3, <3>1, <3>3, ReturnsEffect, ZenonT(60) DEF LayerMoved
    <3> QED
      BY <3>1, <3>2, <3>3, ZenonT(60) DEF LayerMoved
  <2>5. ASSUME NEW h \in Hosts, Restarts(h)
        PROVE  DatesInv'
    <3>1. /\ \A p \in Pulls : pull'[p] = pull[p] \/ pull'[p] = NewPull
          /\ \A g \in Hosts : IF g = h THEN resolving'[g] = NoCall ELSE resolving'[g] = resolving[g]
          /\ UNCHANGED <<remote, list, index, overlapped>>
      BY <2>5, RestartsEffect, SMTT(30)
    <3>2. Behind' /\ IndexNotAhead'
      BY <3>1, NoneType, SMTT(30) DEF DatesInv, Behind, IndexNotAhead
    <3>3. ASSUME NEW g \in Hosts \ overlapped
          PROVE  CallDated(g)'
      BY <3>1, NoneType, ZenonT(60) DEF DatesInv, CallDated
    <3>4. ASSUME NEW p \in Pulls, HostOf[p] \notin overlapped
          PROVE  Dated(p)'
      BY <3>1, <3>4, NoneType, ZenonT(60) DEF DatesInv, Dated, Saves
    <3> QED
      BY <3>1, <3>2, <3>3, <3>4, ZenonT(60) DEF DatesInv
  <2>6. CASE TagMoves
    <3>1. remote' = remote + 1 /\ UNCHANGED <<list, index, resolving, pull, overlapped>>
      BY <2>6, Zenon DEF TagMoves, files
    <3>2. Behind' /\ IndexNotAhead'
      BY <3>1 DEF DatesInv, Behind, IndexNotAhead
    <3>3. \A g \in Hosts \ overlapped : CallDated(g)'
      BY <3>1, Zenon DEF DatesInv, CallDated
    <3>4. ASSUME NEW p \in Pulls, HostOf[p] \notin overlapped
          PROVE  Dated(p)'
      BY <3>1, <3>4, Zenon DEF DatesInv, Dated, Saves
    <3> QED
      BY <3>1, <3>2, <3>3, <3>4, Zenon DEF DatesInv
  <2>7. CASE UNCHANGED vars
    BY <2>3, <2>7, Zenon DEF vars
  <2> QED
    BY <2>1, <2>2, <2>4, <2>5, <2>6, <2>7, PullDates, Zenon DEF Next, ResolveStep
<1> QED
  BY <1>1, <1>2, ImagesTypeOK, ImagesSerialInv, PTL DEF Spec

\* IndexNotAhead, for any hosts, pulls, versions and failures: on a host whose pulls came one after
\* another a persisted index digest that matches the registry vouches for the persisted layers, as
\* PullWithOptions takes it to.
THEOREM ImagesIndexNotAhead == Spec => []IndexNotAhead
<1>1. DatesInv => IndexNotAhead
  BY Zenon DEF DatesInv
<1> QED
  BY <1>1, ImagesDatesInv, PTL

\* UpdatesSeen, for any hosts, pulls, versions and failures: an Always pull the registry answered
\* returns a version no older than the tag was when the pull began.
THEOREM ImagesUpdatesSeen == Spec => []UpdatesSeen
<1>1. TypeOK /\ DatesInv => UpdatesSeen
  BY NumbersIn, Zenon DEF DatesInv, Dated, UpdatesSeen
<1> QED
  BY <1>1, ImagesTypeOK, ImagesDatesInv, PTL
=============================================================================
