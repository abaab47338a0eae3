------------------------------ MODULE DirtySet ------------------------------
(***************************************************************************)
(* What the work queue promises its users, with time, order, retries and   *)
(* wake-ups left out: a set of keys that need a handler run and a set of   *)
(* keys whose handler is running.  A key enqueued while its handler runs   *)
(* stays dirty, so the run that may have missed the change is followed by  *)
(* another; no key is ever handled by two workers at once.                 *)
(***************************************************************************)
CONSTANT Keys
VARIABLES dirty, running

dvars == <<dirty, running>>

Add(k)  == dirty' = dirty \cup {k} /\ UNCHANGED running
Drop(k) == dirty' = dirty \ {k} /\ UNCHANGED running

Start(k) ==
    /\ k \in dirty /\ k \notin running
    /\ dirty' = dirty \ {k} /\ running' = running \cup {k}

\* The handler returns; after a failure the key may be dirty again.
Done(k) ==
    /\ k \in running /\ running' = running \ {k}
    /\ dirty' \in {dirty, dirty \cup {k}}

DInit == dirty = {} /\ running = {}
DNext == \E k \in Keys : Add(k) \/ Drop(k) \/ Start(k) \/ Done(k)
DSpec == DInit /\ [][DNext]_dvars
=============================================================================
