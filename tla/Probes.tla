------------------------------- MODULE Probes -------------------------------
(***************************************************************************)
(* node/probes.go, with the probe bookkeeping of node/podstore.go and      *)
(* runProbes of node/batchwatcher.go: what one round of probes makes of a  *)
(* container's probe state.  ProbeFailure and ProbeUnknown are treated     *)
(* alike by the code, so a result is passed or not.  Counts are cut off at *)
(* their threshold, the only value they are compared with.                 *)
(***************************************************************************)
EXTENDS Integers

CONSTANTS StartupProbed, LivenessProbed, ReadinessProbed, \* containers with that probe
          FailureThreshold, SuccessThreshold

ASSUME ProbeAssumption ==
    FailureThreshold \in Nat \ {0} /\ SuccessThreshold \in Nat \ {0}

\* ContainerProbeState; its times are left out: whether a probe is due
\* (isDue) is a choice.
ProbeState == [startupPassed : BOOLEAN, startupFails : 0 .. FailureThreshold,
               liveFails : 0 .. FailureThreshold, ready : BOOLEAN,
               readyFails : 0 .. FailureThreshold,
               readySuccesses : 0 .. SuccessThreshold]

Fresh(ready) == [startupPassed |-> FALSE, startupFails |-> 0, liveFails |-> 0,
                 ready |-> ready, readyFails |-> 0, readySuccesses |-> 0]

\* InitRestartState's entry for container c.
InitProbeState(c) == Fresh(c \notin ReadinessProbed)

\* ResetProbeState: not ready, whatever probes c has.
ResetProbeState(c) == Fresh(FALSE)

Cut(n, threshold) == IF n < threshold THEN n ELSE threshold

\* The three evaluations: the state after one result.
EvalStartup(p, passed) ==
    IF passed THEN [p EXCEPT !.startupPassed = TRUE, !.startupFails = 0]
    ELSE [p EXCEPT !.startupFails = Cut(@ + 1, FailureThreshold)]

EvalLiveness(p, passed) ==
    [p EXCEPT !.liveFails = IF passed THEN 0 ELSE Cut(@ + 1, FailureThreshold)]

EvalReadiness(p, passed) ==
    IF passed
    THEN LET n == Cut(p.readySuccesses + 1, SuccessThreshold)
         IN [p EXCEPT !.readyFails = 0, !.readySuccesses = n,
                      !.ready = @ \/ n = SuccessThreshold]
    ELSE LET n == Cut(p.readyFails + 1, FailureThreshold)
         IN [p EXCEPT !.readySuccesses = 0, !.readyFails = n,
                      !.ready = @ /\ n < FailureThreshold]

\* What follows the liveness probe; readiness need not be due.
ReadinessOutcomes(c, p) ==
    {[probe |-> p, restart |-> FALSE]} \cup
    {[probe |-> EvalReadiness(p, r), restart |-> FALSE] :
        r \in IF c \in ReadinessProbed THEN BOOLEAN ELSE {}}

StartupOutcomes(c, p) ==
    {[probe |-> p, restart |-> FALSE]} \cup
    {LET q == EvalStartup(p, r)
     IN [probe |-> q, restart |-> ~r /\ q.startupFails = FailureThreshold] :
        r \in BOOLEAN}

\* A failed liveness probe past its threshold resets the state and restarts.
LivenessOutcomes(c, p) ==
    ReadinessOutcomes(c, p) \cup
    UNION {LET q == EvalLiveness(p, r)
           IN IF ~r /\ q.liveFails = FailureThreshold
              THEN {[probe |-> ResetProbeState(c), restart |-> TRUE]}
              ELSE ReadinessOutcomes(c, q) :
              r \in IF c \in LivenessProbed THEN BOOLEAN ELSE {}}

\* runProbes: startup gates the other two.
ProbeOutcomes(c, p) ==
    IF c \in StartupProbed /\ ~p.startupPassed THEN StartupOutcomes(c, p)
    ELSE LivenessOutcomes(c, p)
=============================================================================
