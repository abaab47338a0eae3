------------------------------- MODULE Network -------------------------------
(***************************************************************************)
(* The network of pods without a CNI configuration (internal/network): the *)
(* in-process address pool of a pawn and what LinuxNetworkManager leaves   *)
(* in a network namespace.                                                 *)
(***************************************************************************)
EXTENDS Naturals

CONSTANTS Pods, NoPod,
          MaxOffset   \* ipPool.max, the last host offset; the first is 2

ASSUME NetworkAssumption == MaxOffset \in Nat /\ MaxOffset >= 2 /\ NoPod \notin Pods

Offsets == 2..MaxOffset
NoAddr == 0

\* newIPPool
NewPool == [next |-> 2, inUse |-> [o \in Offsets |-> NoPod]]

\* The offset that is k after o, around the end of the range
After(o, k) == 2 + ((o - 2 + k) % (MaxOffset - 1))

\* Mutant: the map is not looked at
AllDistances(pool) == 0..(MaxOffset - 2)

\* How far from next the free offsets are
Distances(pool) == {k \in 0..(MaxOffset - 2) : pool.inUse[After(pool.next, k)] = NoPod}
Exhausted(pool) == Distances(pool) = {}

\* Allocate: the first free offset from next on
Nearest(pool) == CHOOSE k \in Distances(pool) : \A m \in Distances(pool) : k <= m
Offset(pool) == After(pool.next, Nearest(pool))

Allocate(pool, p) == [next |-> After(Offset(pool), 1), inUse |-> [pool.inUse EXCEPT ![Offset(pool)] = p]]

\* Release: one offset of the pod, whichever the map iteration meets first
Releases(pool, p) ==
  LET held == {o \in Offsets : pool.inUse[o] = p}
  IN  IF held = {} THEN {pool} ELSE {[pool EXCEPT !.inUse[o] = NoPod] : o \in held}

\* What is at /var/run/netns/peri-<uid>: nothing, a namespace without an address, or one whose
\* eth0 has an address
Namespaces == {"none", "bare", "ready"}
=============================================================================
