-------------------------- MODULE EffectiveResources --------------------------
(***************************************************************************)
(* effectiveResources of internal/collector/resources.go: what a pod       *)
(* reserves, given the quantities of its containers.                       *)
(*                                                                         *)
(* The code computes four quantities side by side (CPU and memory, request *)
(* and limit) with the same statements; this module computes one of them.  *)
(* A container that does not state the quantity counts as zero.  A call is *)
(* a part of pollOnce, of module Collector; the names of its specification *)
(* differ from Collector's so that one module may speak of both.           *)
(***************************************************************************)
EXTENDS Naturals, Sequences, SequencesExt

CONSTANTS
    MaxContainers,      \* bound: regular containers of a pod
    MaxInitContainers,  \* bound: init containers of a pod
    MaxQuantity         \* bound: the quantity of one container

ASSUME ResourcesAssumption ==
    {MaxContainers, MaxInitContainers, MaxQuantity} \subseteq Nat

Quantities     == 0..MaxQuantity
InitContainers == [always : BOOLEAN, quantity : Quantities]  \* always: a sidecar

VARIABLES
    containers, initContainers,  \* the pod spec, fixed
    i, j,                        \* containers and init containers seen so far
    sum, side, init,             \* the running totals of the two loops
    result, returned             \* the quantity returned, once it is

call == <<containers, initContainers, i, j, sum, side, init, result, returned>>
spec == <<containers, initContainers>>

BiggerOf(a, b) == IF a >= b THEN a ELSE b

\* Every pod has a container.
CallInit == /\ containers \in BoundedSeq(Quantities, MaxContainers) \ {<<>>}
            /\ initContainers \in BoundedSeq(InitContainers, MaxInitContainers)
            /\ i = 0 /\ j = 0
            /\ sum = 0 /\ side = 0 /\ init = 0
            /\ result = 0 /\ returned = FALSE

\* The loop over the containers.
AddContainer == /\ i < Len(containers)
                /\ i' = i + 1
                /\ sum' = sum + containers[i + 1]
                /\ UNCHANGED <<spec, j, side, init, result, returned>>

\* The loop over the init containers.
AddInitContainer ==
    LET c == initContainers[j + 1]
    IN  /\ i = Len(containers)
        /\ j < Len(initContainers)
        /\ j' = j + 1
        /\ IF c.always
           THEN side' = side + c.quantity /\ UNCHANGED init
           ELSE init' = BiggerOf(init, c.quantity) /\ UNCHANGED side
        /\ UNCHANGED <<spec, i, sum, result, returned>>

\* Mutant: the init containers run without the sidecars.
MutEffective == BiggerOf(sum + side, init)

Effective == BiggerOf(sum + side, init + side)

Return == /\ i = Len(containers) /\ j = Len(initContainers)
          /\ ~returned
          /\ returned' = TRUE
          /\ result' = Effective
          /\ UNCHANGED <<spec, i, j, sum, side, init>>

CallNext == AddContainer \/ AddInitContainer \/ Return

CallSpec == CallInit /\ [][CallNext]_call

-----------------------------------------------------------------------------
\* What the Kubernetes scheduler reserves (external: PodRequests of
\* k8s.io/component-helpers): an init container runs while the sidecars that
\* come before it run, and the containers run while all sidecars do.

Phases == 1..Len(initContainers) + 1

\* The sidecars that run in a phase: those before init container k.
SidecarsBefore[k \in Phases] ==
    IF k = 1 THEN 0
    ELSE SidecarsBefore[k - 1] + IF initContainers[k - 1].always
                                 THEN initContainers[k - 1].quantity ELSE 0

TotalOf[n \in 0..Len(containers)] ==
    IF n = 0 THEN 0 ELSE TotalOf[n - 1] + containers[n]

\* What is reserved while init container k starts, or the pod runs (one past
\* the last init container).
Phase(k) == SidecarsBefore[k] + IF k > Len(initContainers)
                                THEN TotalOf[Len(containers)]
                                ELSE initContainers[k].quantity

SchedulerReserves(q) == /\ \E k \in Phases : q = Phase(k)
                        /\ \A k \in Phases : q >= Phase(k)

-----------------------------------------------------------------------------
\* In which order are the sidecars?  All before the other init containers.
SidecarsFirst == \A a, b \in DOMAIN initContainers :
                    initContainers[b].always /\ ~initContainers[a].always => b < a

\* effectiveResources: whatever the mix and the order of the containers, no
\* phase of the pod needs more than what the tile of the pod shows; and where the
\* sidecars come first, that is exactly what the scheduler reserves for these
\* containers.  (It adds a pod's overhead, and prefers pod-level resources, neither
\* of which the code reads: the pods here have none.)
CoversEveryPhase ==
    returned => /\ \A k \in Phases : result >= Phase(k)
                /\ SidecarsFirst => SchedulerReserves(result)

\* The comment on effectiveResources: it "computes a pod's effective requests
\* and limits the way the scheduler does".
AsTheSchedulerDoes == returned => SchedulerReserves(result)
=============================================================================
