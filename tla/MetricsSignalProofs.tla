------------------------- MODULE MetricsSignalProofs -------------------------
(***************************************************************************)
(* Proofs about MetricsSignal, for every set of nodes and pods, every      *)
(* threshold and every retry interval.                                     *)
(*                                                                         *)
(* The invariant has to say more than the properties: that the failure     *)
(* count of a signal that is up is below the threshold, that the time      *)
(* parked and the time since the last 403 add up, and that no fetch is     *)
(* under way while the signal is parked.                                   *)
(***************************************************************************)
EXTENDS MetricsSignal, TLAPS

\* While the signal is up its streak has not been completed.
UpBelowThreshold == metricsUp => metricsFailures < capFailThreshold

\* The ticks parked and the ticks since the last 403 make up forbiddenRetry.
ParkedSince403 == metricsRetryIn + sinceMetrics403 = forbiddenRetry

\* A fetch is under way only if the signal is not parked.
NotParkedWhileAsking == metricsAt # "idle" => metricsRetryIn = 0

IInv == /\ TypeOK
        /\ DownMeansNothingServed
        /\ UsageOfLastGoodFetch
        /\ UpBelowThreshold
        /\ ParkedSince403
        /\ NotParkedWhileAsking

-----------------------------------------------------------------------------
\* No figures: an empty map has no name and no age, and is one of figures.
LEMMA NoFiguresEmpty ==
    ASSUME NEW N, NEW k \in Nat
    PROVE  /\ IsFigures(NoFigures, N, k)
           /\ Ages(NoFigures) = {}
  BY DEF IsFigures, NoFigures, Ages

\* Freshly measured figures all have age 0.
LEMMA MeasuredFresh ==
    ASSUME NEW N, NEW S \in SUBSET N, NEW k \in Nat
    PROVE  /\ IsFigures(Measured(S), N, k)
           /\ Ages(Measured(S)) \subseteq {0}
  BY DEF IsFigures, Measured, Ages

\* One more failure makes every figure one older and changes nothing else.
LEMMA OlderAges ==
    ASSUME NEW m
    PROVE  /\ DOMAIN Older(m) = DOMAIN m
           /\ Ages(Older(m)) = {a + 1 : a \in Ages(m)}
  BY DEF Older, Ages

\* Figures that are all of one age a are figures of any limit above a.
LEMMA OlderFigures ==
    ASSUME NEW N, NEW k \in Nat, NEW m, IsFigures(m, N, k),
           NEW a \in Nat, a < k, \A b \in Ages(m) : b = a
    PROVE  /\ IsFigures(Older(m), N, k)
           /\ \A b \in Ages(Older(m)) : b = a + 1
  BY DEF IsFigures, Older, Ages

-----------------------------------------------------------------------------
\* What New sets up satisfies the inductive invariant.
LEMMA InitEstablishes == Init => IInv
  <1> USE MetricsAssumption
  <1> SUFFICES ASSUME Init PROVE IInv
    OBVIOUS
  <1>1. /\ IsFigures(NoFigures, Pods, capFailThreshold)
        /\ IsFigures(NoFigures, Nodes, capFailThreshold)
        /\ IsFigures(NoFigures, Nodes, 0)
        /\ Ages(NoFigures) = {}
    BY NoFiguresEmpty
  <1>2. TypeOK
    BY <1>1 DEF Init, TypeOK, Answers, Errors
  <1>3. UsageOfLastGoodFetch
    BY <1>1 DEF Init, UsageOfLastGoodFetch
  <1> QED
    BY <1>2, <1>3 DEF Init, IInv, DownMeansNothingServed, UpBelowThreshold,
       ParkedSince403, NotParkedWhileAsking

\* The figures kept across a failure that the signal survives.
LEMMA SurvivingFigures ==
    ASSUME IInv, metricsUp, metricsFailures + 1 < capFailThreshold
    PROVE  /\ IsFigures(Older(lastPodUsage), Pods, capFailThreshold)
           /\ IsFigures(Older(lastNodeUsage), Nodes, capFailThreshold)
           /\ \A b \in Ages(Older(lastPodUsage)) \cup Ages(Older(lastNodeUsage)) :
                 b = metricsFailures + 1
  <1> USE MetricsAssumption
  <1>1. /\ IsFigures(lastPodUsage, Pods, capFailThreshold)
        /\ IsFigures(lastNodeUsage, Nodes, capFailThreshold)
        /\ metricsFailures \in Nat
    BY DEF IInv, TypeOK
  <1>2. /\ \A b \in Ages(lastPodUsage) : b = metricsFailures
        /\ \A b \in Ages(lastNodeUsage) : b = metricsFailures
    BY DEF IInv, UsageOfLastGoodFetch
  <1>3. capFailThreshold \in Nat /\ metricsFailures < capFailThreshold
    BY <1>1
  <1>4. /\ IsFigures(Older(lastPodUsage), Pods, capFailThreshold)
        /\ \A b \in Ages(Older(lastPodUsage)) : b = metricsFailures + 1
    BY <1>1, <1>2, <1>3, OlderFigures
  <1>5. /\ IsFigures(Older(lastNodeUsage), Nodes, capFailThreshold)
        /\ \A b \in Ages(Older(lastNodeUsage)) : b = metricsFailures + 1
    BY <1>1, <1>2, <1>3, OlderFigures
  <1> QED
    BY <1>4, <1>5

\* What noteMetrics writes when the signal has no figures to keep.
LEMMA OlderNothing == Older(NoFigures) = NoFigures
  BY DEF Older, NoFigures

\* Each case of noteMetrics's switch keeps the parts of the invariant that
\* speak of the capability and its figures.
LEMMA TransientPreserves ==
    ASSUME IInv, NoteTransient
    PROVE  /\ metricsUp' \in BOOLEAN
           /\ metricsReason' \in {NoReason} \cup Reasons
           /\ metricsFailures' \in 0..capFailThreshold
           /\ IsFigures(lastPodUsage', Pods, capFailThreshold)
           /\ IsFigures(lastNodeUsage', Nodes, capFailThreshold)
           /\ DownMeansNothingServed'
           /\ UsageOfLastGoodFetch'
           /\ UpBelowThreshold'
  <1> USE MetricsAssumption
  <1>0. /\ metricsUp \in BOOLEAN
        /\ metricsFailures \in 0..capFailThreshold
        /\ DownMeansNothingServed
        /\ UpBelowThreshold
        /\ metricsReason \in {NoReason} \cup Reasons
    BY DEF IInv, TypeOK
  <1>a. /\ IsFigures(NoFigures, Pods, capFailThreshold)
        /\ IsFigures(NoFigures, Nodes, capFailThreshold)
        /\ Ages(NoFigures) = {}
    BY NoFiguresEmpty
  <1>1. CASE metricsUp /\ metricsFailures + 1 < capFailThreshold
    <2>1. /\ metricsUp' = TRUE
          /\ metricsReason' = NoReason
          /\ metricsFailures' = metricsFailures + 1
          /\ lastPodUsage' = Older(lastPodUsage)
          /\ lastNodeUsage' = Older(lastNodeUsage)
      BY <1>1, <1>0 DEF NoteTransient, DownMeansNothingServed
    <2>2. /\ IsFigures(Older(lastPodUsage), Pods, capFailThreshold)
          /\ IsFigures(Older(lastNodeUsage), Nodes, capFailThreshold)
          /\ \A b \in Ages(Older(lastPodUsage)) \cup Ages(Older(lastNodeUsage)) :
                b = metricsFailures + 1
      BY <1>1, SurvivingFigures
    <2>3. UsageOfLastGoodFetch'
      BY <2>1, <2>2, <1>1 DEF UsageOfLastGoodFetch
    <2> QED
      BY <2>1, <2>2, <2>3, <1>0, <1>1 DEF DownMeansNothingServed, UpBelowThreshold
  <1>2. CASE ~ (metricsUp /\ metricsFailures + 1 < capFailThreshold)
    <2>1. /\ metricsUp' = FALSE
          /\ metricsReason' = ReasonUnavailable
          /\ metricsFailures' \in 0..capFailThreshold
      BY <1>2, <1>0 DEF NoteTransient
    <2>2. lastPodUsage' = NoFigures /\ lastNodeUsage' = NoFigures
      BY <1>2, <1>0, OlderNothing DEF NoteTransient, DownMeansNothingServed
    <2>3. UsageOfLastGoodFetch'
      BY <2>2, <1>a DEF UsageOfLastGoodFetch
    <2> QED
      BY <2>1, <2>2, <2>3, <1>a DEF DownMeansNothingServed, UpBelowThreshold, Reasons
  <1> QED
    BY <1>1, <1>2

\* A refusal, definitive whatever came before.
LEMMA RefusalPreserves ==
    ASSUME IInv, NEW r \in {ReasonForbidden, ReasonAbsent},
           metricsUp' = FALSE, metricsReason' = r, metricsFailures' = 0,
           lastPodUsage' = NoFigures, lastNodeUsage' = NoFigures
    PROVE  /\ metricsUp' \in BOOLEAN
           /\ metricsReason' \in {NoReason} \cup Reasons
           /\ metricsFailures' \in 0..capFailThreshold
           /\ IsFigures(lastPodUsage', Pods, capFailThreshold)
           /\ IsFigures(lastNodeUsage', Nodes, capFailThreshold)
           /\ DownMeansNothingServed'
           /\ UsageOfLastGoodFetch'
           /\ UpBelowThreshold'
  <1> USE MetricsAssumption
  <1>1. /\ IsFigures(NoFigures, Pods, capFailThreshold)
        /\ IsFigures(NoFigures, Nodes, capFailThreshold)
        /\ Ages(NoFigures) = {}
    BY NoFiguresEmpty
  <1>2. UsageOfLastGoodFetch'
    BY <1>1 DEF UsageOfLastGoodFetch
  <1>3. DownMeansNothingServed' /\ UpBelowThreshold'
    BY DEF DownMeansNothingServed, UpBelowThreshold
  <1>4. /\ metricsReason' \in {NoReason} \cup Reasons
        /\ metricsFailures' \in 0..capFailThreshold
    BY DEF Reasons
  <1> QED
    BY <1>1, <1>2, <1>3, <1>4

\* A step that leaves the capability and its figures alone keeps what is said
\* about them.
LEMMA StateUnchanged ==
    ASSUME IInv,
           UNCHANGED <<metricsUp, metricsReason, metricsFailures,
                       lastPodUsage, lastNodeUsage>>
    PROVE  /\ metricsUp' \in BOOLEAN
           /\ metricsReason' \in {NoReason} \cup Reasons
           /\ metricsFailures' \in 0..capFailThreshold
           /\ IsFigures(lastPodUsage', Pods, capFailThreshold)
           /\ IsFigures(lastNodeUsage', Nodes, capFailThreshold)
           /\ DownMeansNothingServed'
           /\ UsageOfLastGoodFetch'
           /\ UpBelowThreshold'
  BY DEF IInv, TypeOK, DownMeansNothingServed, UsageOfLastGoodFetch, UpBelowThreshold

\* Every step keeps the inductive invariant: one case per action.
LEMMA NextPreserves == IInv /\ [Next]_vars => IInv'
  <1> USE MetricsAssumption
  <1> SUFFICES ASSUME IInv, [Next]_vars PROVE IInv'
    OBVIOUS
  <1> DEFINE CapabilityKept ==
        /\ metricsUp' \in BOOLEAN
        /\ metricsReason' \in {NoReason} \cup Reasons
        /\ metricsFailures' \in 0..capFailThreshold
        /\ IsFigures(lastPodUsage', Pods, capFailThreshold)
        /\ IsFigures(lastNodeUsage', Nodes, capFailThreshold)
        /\ DownMeansNothingServed'
        /\ UsageOfLastGoodFetch'
        /\ UpBelowThreshold'
  <1> DEFINE FetchKept ==
        /\ metricsEnabled' \in BOOLEAN
        /\ metricsRetryIn' \in 0..forbiddenRetry
        /\ metricsAt' \in {"idle", "nodes", "pods"}
        /\ IsFigures(nodeUsage', Nodes, 0)
        /\ sinceMetrics403' \in 0..forbiddenRetry
        /\ metricsWorld' \in Answers \cup {"any"}
        /\ ParkedSince403'
        /\ NotParkedWhileAsking'
  <1>0. SUFFICES CapabilityKept /\ FetchKept
    BY DEF IInv, TypeOK
  <1>t. /\ metricsEnabled \in BOOLEAN
        /\ metricsRetryIn \in 0..forbiddenRetry
        /\ metricsAt \in {"idle", "nodes", "pods"}
        /\ IsFigures(nodeUsage, Nodes, 0)
        /\ sinceMetrics403 \in 0..forbiddenRetry
        /\ metricsWorld \in Answers \cup {"any"}
        /\ ParkedSince403
        /\ NotParkedWhileAsking
    BY DEF IInv, TypeOK
  <1>e. IsFigures(NoFigures, Nodes, 0)
    BY NoFiguresEmpty
  <1>1. CASE AskMetrics
    <2>1. CapabilityKept
      BY <1>1, StateUnchanged DEF AskMetrics, state
    <2>2. FetchKept
      BY <1>1, <1>t DEF AskMetrics, state, MetricsDue, ParkedSince403, NotParkedWhileAsking
    <2> QED
      BY <2>1, <2>2
  <1>2. ASSUME NEW S \in SUBSET Nodes, NodeMetricsListed(S)
        PROVE  CapabilityKept /\ FetchKept
    <2>1. CapabilityKept
      BY <1>2, StateUnchanged DEF NodeMetricsListed, state
    <2>2. IsFigures(Measured(S), Nodes, 0)
      BY MeasuredFresh
    <2>3. FetchKept
      BY <1>2, <1>t, <2>2 DEF NodeMetricsListed, state, ParkedSince403, NotParkedWhileAsking
    <2> QED
      BY <2>1, <2>3
  <1>3. ASSUME NEW S \in SUBSET Pods, PodMetricsListed(S)
        PROVE  CapabilityKept /\ FetchKept
    <2>1. /\ IsFigures(Measured(S), Pods, capFailThreshold)
          /\ Ages(Measured(S)) \subseteq {0}
      BY MeasuredFresh
    <2>2. /\ IsFigures(nodeUsage, Nodes, capFailThreshold)
          /\ Ages(nodeUsage) \subseteq {0}
      BY <1>t DEF IsFigures, Ages
    <2>3. /\ metricsUp' = TRUE
          /\ metricsReason' = NoReason
          /\ metricsFailures' = 0
          /\ lastPodUsage' = Measured(S)
          /\ lastNodeUsage' = nodeUsage
      BY <1>3 DEF PodMetricsListed, NoteSuccess
    <2>4. UsageOfLastGoodFetch'
      BY <2>1, <2>2, <2>3 DEF UsageOfLastGoodFetch
    <2>5. CapabilityKept
      BY <2>1, <2>2, <2>3, <2>4 DEF DownMeansNothingServed, UpBelowThreshold
    <2>6. FetchKept
      BY <1>3, <1>t, <1>e
      DEF PodMetricsListed, NoteSuccess, ParkedSince403, NotParkedWhileAsking
    <2> QED
      BY <2>5, <2>6
  <1>4. ASSUME NEW err \in Errors, MetricsListFailed(err)
        PROVE  CapabilityKept /\ FetchKept
    <2>1. CASE NoteForbidden
      <3>1. CapabilityKept
        BY <2>1, RefusalPreserves DEF NoteForbidden
      <3>2. FetchKept
        BY <1>4, <2>1, <1>t, <1>e
        DEF MetricsListFailed, NoteForbidden, ParkedSince403, NotParkedWhileAsking
      <3> QED
        BY <3>1, <3>2
    <2>2. CASE NoteAbsent
      <3>1. CapabilityKept
        BY <2>2, RefusalPreserves DEF NoteAbsent
      <3>2. FetchKept
        BY <1>4, <2>2, <1>t, <1>e
        DEF MetricsListFailed, NoteAbsent, ParkedSince403, NotParkedWhileAsking
      <3> QED
        BY <3>1, <3>2
    <2>3. CASE NoteTransient
      <3>1. CapabilityKept
        BY <2>3, TransientPreserves
      <3>2. UNCHANGED <<metricsRetryIn, sinceMetrics403>>
        BY <2>3 DEF NoteTransient
      <3>3. FetchKept
        BY <1>4, <3>2, <1>t, <1>e
        DEF MetricsListFailed, ParkedSince403, NotParkedWhileAsking
      <3> QED
        BY <3>1, <3>3
    <2> QED
      BY <1>4, <2>1, <2>2, <2>3 DEF MetricsListFailed, NoteError
  <1>5. CASE Tick
    <2>1. CapabilityKept
      BY <1>5, StateUnchanged DEF Tick
    <2>2. FetchKept
      BY <1>5, <1>t DEF Tick, ParkedSince403, NotParkedWhileAsking
    <2> QED
      BY <2>1, <2>2
  <1>6. ASSUME NEW a \in Answers, Settle(a)
        PROVE  CapabilityKept /\ FetchKept
    <2>1. CapabilityKept
      BY <1>6, StateUnchanged DEF Settle, state
    <2>2. FetchKept
      BY <1>6, <1>t DEF Settle, state, ParkedSince403, NotParkedWhileAsking
    <2> QED
      BY <2>1, <2>2
  <1>7. CASE UNCHANGED vars
    <2>1. CapabilityKept
      BY <1>7, StateUnchanged DEF vars
    <2>2. FetchKept
      BY <1>7, <1>t DEF vars, ParkedSince403, NotParkedWhileAsking
    <2> QED
      BY <2>1, <2>2
  <1> QED
    BY <1>1, <1>2, <1>3, <1>4, <1>5, <1>6, <1>7 DEF Next, Answered

-----------------------------------------------------------------------------
\* The inductive invariant holds in every reachable state.
THEOREM Invariance == Spec => []IInv
  BY InitEstablishes, NextPreserves, PTL DEF Spec

\* Every variable of the metrics signal keeps its type.
THEOREM TypeCorrect == Spec => []TypeOK
  <1>1. IInv => TypeOK
    BY DEF IInv
  <1> QED
    BY <1>1, Invariance, PTL

\* noteMetrics: the banner and the figures never contradict each other.
THEOREM NothingServedWhileDown == Spec => []DownMeansNothingServed
  <1>1. IInv => DownMeansNothingServed
    BY DEF IInv
  <1> QED
    BY <1>1, Invariance, PTL

\* fetchMetrics, noteMetrics: the usage served is of one fetch, and never older
\* than the hysteresis allows.
THEOREM UsageIsOfOneFetch == Spec => []UsageOfLastGoodFetch
  <1>1. IInv => UsageOfLastGoodFetch
    BY DEF IInv
  <1> QED
    BY <1>1, Invariance, PTL

\* currentMetrics: at most one denied request per forbiddenRetry.
THEOREM OneDenialPerRetry == Spec => DenialsSpaced
  <1>1. IInv => [MetricsListFailed("forbidden") => sinceMetrics403 = forbiddenRetry]_vars
    BY MetricsAssumption
    DEF IInv, TypeOK, MetricsListFailed, ParkedSince403, NotParkedWhileAsking
  <1> QED
    BY <1>1, Invariance, PTL DEF DenialsSpaced

-----------------------------------------------------------------------------
\* A signal that has just been set up is as the contract begins.
LEMMA ContractInit == Init => Contract!Init
  <1> USE DEF NoReason, ReasonForbidden, ReasonAbsent, ReasonUnavailable,
              Contract!NoReason, Contract!ReasonForbidden,
              Contract!ReasonAbsent, Contract!ReasonUnavailable
  <1>e. Ages(NoFigures) = {}
    BY NoFiguresEmpty
  <1> QED
    BY <1>e DEF Init, Contract!Init

\* Every fetch outcome is a step of the contract, every other step leaves the
\* contract's variables alone.
LEMMA ContractStep == IInv /\ [Next]_vars => [Contract!Next]_(Contract!vars)
  <1> USE MetricsAssumption
  <1> USE DEF NoReason, ReasonForbidden, ReasonAbsent, ReasonUnavailable,
              Contract!NoReason, Contract!ReasonForbidden,
              Contract!ReasonAbsent, Contract!ReasonUnavailable
  <1> DEFINE ages == Ages(lastPodUsage) \cup Ages(lastNodeUsage)
  <1>e. Ages(NoFigures) = {}
    BY NoFiguresEmpty
  <1> SUFFICES ASSUME IInv, [Next]_vars
               PROVE  Contract!Next \/ UNCHANGED Contract!vars
    OBVIOUS
  <1>t. /\ metricsUp \in BOOLEAN
        /\ metricsFailures \in 0..capFailThreshold
        /\ DownMeansNothingServed
        /\ UpBelowThreshold
    BY DEF IInv, TypeOK
  <1>1. ASSUME UNCHANGED <<metricsUp, metricsReason, metricsFailures,
                           lastPodUsage, lastNodeUsage>>
        PROVE  UNCHANGED Contract!vars
    BY <1>1 DEF Contract!vars
  <1>2. ASSUME NEW S \in SUBSET Pods, PodMetricsListed(S)
        PROVE  Contract!Succeed
    <2>1. Ages(Measured(S)) \subseteq {0} /\ Ages(nodeUsage) \subseteq {0}
      <3>1. IsFigures(nodeUsage, Nodes, 0)
        BY DEF IInv, TypeOK
      <3>2. Ages(nodeUsage) \subseteq {0}
        BY <3>1 DEF IsFigures, Ages
      <3> QED
        BY <3>2, MeasuredFresh
    <2>2. /\ metricsUp' = TRUE
          /\ metricsReason' = NoReason
          /\ metricsFailures' = 0
          /\ lastPodUsage' = Measured(S)
          /\ lastNodeUsage' = nodeUsage
      BY <1>2 DEF PodMetricsListed, NoteSuccess
    <2> QED
      BY <2>1, <2>2 DEF Contract!Succeed
  <1>3. ASSUME NoteForbidden PROVE Contract!Next
    BY <1>3, <1>e DEF NoteForbidden, Contract!Next, Contract!Refuse
  <1>4. ASSUME NoteAbsent PROVE Contract!Next
    BY <1>4, <1>e DEF NoteAbsent, Contract!Next, Contract!Refuse
  <1>5. ASSUME NoteTransient PROVE Contract!Next
    <2>1. CASE metricsUp /\ metricsFailures + 1 < capFailThreshold
      <3>1. /\ metricsUp' = metricsUp
            /\ metricsReason' = metricsReason
            /\ metricsFailures' = metricsFailures + 1
            /\ lastPodUsage' = Older(lastPodUsage)
            /\ lastNodeUsage' = Older(lastNodeUsage)
        BY <1>5, <2>1, <1>t DEF NoteTransient
      <3>2. /\ Ages(Older(lastPodUsage)) = {a + 1 : a \in Ages(lastPodUsage)}
            /\ Ages(Older(lastNodeUsage)) = {a + 1 : a \in Ages(lastNodeUsage)}
        BY OlderAges
      <3>3. ages' = {a + 1 : a \in ages}
        BY <3>1, <3>2
      <3> QED
        BY <2>1, <3>1, <3>3 DEF Contract!Next, Contract!Survive
    <2>2. CASE metricsUp /\ metricsFailures + 1 >= capFailThreshold
      BY <1>5, <2>2, <1>t, <1>e
      DEF NoteTransient, UpBelowThreshold, Contract!Next, Contract!Lose
    <2>3. CASE ~ metricsUp
      <3>1. lastPodUsage' = NoFigures /\ lastNodeUsage' = NoFigures
        BY <1>5, <2>3, <1>t, OlderNothing DEF NoteTransient, DownMeansNothingServed
      <3>2. /\ metricsUp' = FALSE
            /\ metricsReason' = ReasonUnavailable
            /\ metricsFailures' \in metricsFailures..capFailThreshold
        BY <1>5, <2>3, <1>t DEF NoteTransient
      <3> QED
        BY <2>3, <3>1, <3>2, <1>e DEF Contract!Next, Contract!StayDown
    <2> QED
      BY <2>1, <2>2, <2>3, <1>t
  <1>6. ASSUME NEW err \in Errors, MetricsListFailed(err)
        PROVE  Contract!Next
    BY <1>6, <1>3, <1>4, <1>5 DEF MetricsListFailed, NoteError
  <1>7. CASE AskMetrics
    BY <1>7, <1>1 DEF AskMetrics, state
  <1>8. ASSUME NEW S \in SUBSET Nodes, NodeMetricsListed(S)
        PROVE  UNCHANGED Contract!vars
    BY <1>8, <1>1 DEF NodeMetricsListed, state
  <1>9. CASE Tick
    BY <1>9, <1>1 DEF Tick
  <1>10. ASSUME NEW a \in Answers, Settle(a)
         PROVE  UNCHANGED Contract!vars
    BY <1>10, <1>1 DEF Settle, state
  <1>11. CASE UNCHANGED vars
    BY <1>11, <1>1 DEF vars
  <1> QED
    BY <1>2, <1>6, <1>7, <1>8, <1>9, <1>10, <1>11 DEF Next, Answered, Contract!Next

\* noteMetrics implements Capability: every fetch outcome is a step of the
\* contract, every other step leaves the contract's variables alone.
THEOREM MetricsKeepsContract == Spec => KeepsContract
  BY ContractInit, ContractStep, Invariance, PTL DEF Spec, KeepsContract, Contract!Spec

-----------------------------------------------------------------------------
\* The two halves of ReportsTheWorld that are not about fairness: what the signal
\* has understood it keeps saying, and every fetch that ends brings it nearer.

\* A fetch, of a metrics API that has settled on a, has understood it.
Understood(a) == metricsWorld = a /\ Reports(a)

\* How a fetch of a settled metrics API ends: with what the API says noted, or one
\* more failure counted and still fewer than the threshold.
ComesNearer(a) ==
    metricsWorld = a /\ metricsAt # "idle" /\ metricsAt' = "idle"
        => \/ Reports(a)'
           \/ /\ a = "transient"
              /\ metricsFailures' = metricsFailures + 1
              /\ metricsFailures' < capFailThreshold

LEMMA SaidByCase ==
    ASSUME NEW a \in Answers
    PROVE  /\ Reports(a) <=> \/ a = "ok"        /\ metricsUp
                             \/ a = "forbidden" /\ metricsReason = ReasonForbidden
                             \/ a = "absent"    /\ metricsReason = ReasonAbsent
                             \/ a = "transient" /\ metricsReason = ReasonUnavailable
           /\ Reports(a)' <=> \/ a = "ok"        /\ metricsUp'
                              \/ a = "forbidden" /\ metricsReason' = ReasonForbidden
                              \/ a = "absent"    /\ metricsReason' = ReasonAbsent
                              \/ a = "transient" /\ metricsReason' = ReasonUnavailable
  BY DEF Reports, Answers, Errors

\* The end of a fetch of an API that has settled.
LEMMA FetchEnds ==
    ASSUME IInv, NEW a \in Answers, metricsWorld = a,
           \/ \E S \in SUBSET Pods : PodMetricsListed(S)
           \/ \E err \in Errors : MetricsListFailed(err)
    PROVE  /\ metricsWorld' = a
           /\ Reports(a) => Reports(a)'
           /\ ComesNearer(a)
  <1> USE MetricsAssumption DEF NoReason, ReasonForbidden, ReasonAbsent, ReasonUnavailable
  <1>t. metricsFailures \in Nat /\ capFailThreshold \in Nat
    <2>1. metricsFailures \in 0..capFailThreshold
      BY DEF IInv, TypeOK
    <2> QED
      BY ONLY <2>1, MetricsAssumption
  <1>u. metricsUp => metricsReason = NoReason
    BY DEF IInv, DownMeansNothingServed
  <1>a. a # "any"
    BY DEF Answers, Errors
  <1>1. ASSUME NEW S \in SUBSET Pods, PodMetricsListed(S)
        PROVE  a = "ok" /\ metricsWorld' = a /\ Reports(a)'
    BY <1>1, <1>a, SaidByCase DEF PodMetricsListed, NoteSuccess, MayAnswer
  <1>2. ASSUME NEW err \in Errors, MetricsListFailed(err)
        PROVE  a = err /\ metricsWorld' = a /\ NoteError(a)
    BY <1>2, <1>a DEF MetricsListFailed, MayAnswer
  <1>3. ASSUME (a = "forbidden" /\ NoteForbidden) \/ (a = "absent" /\ NoteAbsent)
        PROVE  Reports(a)'
    BY <1>3, SaidByCase DEF NoteForbidden, NoteAbsent
  <1>4. ASSUME a = "transient", NoteTransient
        PROVE  /\ Reports(a) => Reports(a)'
               /\ \/ Reports(a)'
                  \/ /\ metricsFailures' = metricsFailures + 1
                     /\ metricsFailures' < capFailThreshold
    <2>1. metricsFailures' = IF metricsFailures + 1 > capFailThreshold
                             THEN capFailThreshold ELSE metricsFailures + 1
      BY <1>4 DEF NoteTransient
    <2>2. \/ metricsUp /\ ~ (metricsFailures + 1 >= capFailThreshold)
          \/ metricsReason' = ReasonUnavailable
      BY <1>4, Zenon DEF NoteTransient
    <2>3. CASE metricsUp /\ ~ (metricsFailures + 1 >= capFailThreshold)
      <3>1. ~ (metricsFailures + 1 >= capFailThreshold)
        BY <2>3
      <3>2. /\ metricsFailures' = metricsFailures + 1
            /\ metricsFailures' < capFailThreshold
        BY ONLY <2>1, <3>1, <1>t
      <3>3. ~Reports(a)
        BY <1>4, <2>3, <1>u, SaidByCase
      <3> QED
        BY <3>2, <3>3
    <2>4. CASE metricsReason' = ReasonUnavailable
      BY <1>4, <2>4, SaidByCase
    <2> QED
      BY <2>2, <2>3, <2>4
  <1>5. CASE \E S \in SUBSET Pods : PodMetricsListed(S)
    BY <1>5, <1>1 DEF ComesNearer
  <1>6. CASE \E err \in Errors : MetricsListFailed(err)
    <2>1. PICK err \in Errors : MetricsListFailed(err)
      BY <1>6
    <2>2. a = err /\ metricsWorld' = a /\ NoteError(a)
      BY <2>1, <1>2
    <2> QED
      BY <2>2, <1>3, <1>4 DEF NoteError, ComesNearer
  <1> QED
    BY <1>5, <1>6

\* Every other step: the signal and a settled API stay as they are, and no fetch ends.
LEMMA FetchGoesOn ==
    ASSUME IInv, [Next]_vars, NEW a \in Answers, metricsWorld = a,
           ~ \E S \in SUBSET Pods : PodMetricsListed(S),
           ~ \E err \in Errors : MetricsListFailed(err)
    PROVE  /\ metricsWorld' = a
           /\ UNCHANGED <<metricsUp, metricsReason>>
           /\ metricsAt # "idle" => metricsAt' # "idle"
  <1>1. ASSUME NEW b, Settle(b) PROVE FALSE
    BY <1>1 DEF Settle, Answers, Errors
  <1>2. CASE AskMetrics
    BY <1>2 DEF AskMetrics, state
  <1>3. ASSUME NEW S \in SUBSET Nodes, NodeMetricsListed(S)
        PROVE  /\ metricsWorld' = a
               /\ UNCHANGED <<metricsUp, metricsReason>>
               /\ metricsAt' # "idle"
    BY <1>3 DEF NodeMetricsListed, state
  <1>4. CASE Tick \/ UNCHANGED vars
    BY <1>4 DEF Tick, vars
  <1> QED
    BY <1>1, <1>2, <1>3, <1>4 DEF Next, Answered

LEMMA SettledStep ==
    ASSUME NEW a \in Answers
    PROVE  IInv /\ [Next]_vars => /\ Understood(a) => Understood(a)'
                                  /\ ComesNearer(a)
  <1> SUFFICES ASSUME IInv, [Next]_vars, metricsWorld = a
               PROVE  /\ Understood(a) => Understood(a)'
                      /\ ComesNearer(a)
    BY DEF Understood, ComesNearer
  <1>1. CASE \/ \E S \in SUBSET Pods : PodMetricsListed(S)
             \/ \E err \in Errors : MetricsListFailed(err)
    BY <1>1, FetchEnds DEF Understood
  <1>2. CASE ~ \/ \E S \in SUBSET Pods : PodMetricsListed(S)
               \/ \E err \in Errors : MetricsListFailed(err)
    <2>1. /\ metricsWorld' = a
          /\ UNCHANGED <<metricsUp, metricsReason>>
          /\ metricsAt # "idle" => metricsAt' # "idle"
      BY <1>2, FetchGoesOn
    <2> QED
      BY <2>1, SaidByCase DEF Understood, ComesNearer
  <1> QED
    BY <1>1, <1>2

\* noteMetrics: once the metrics API answers the same for good and the signal says
\* so, it never says anything else again, whatever it had heard before.
THEOREM SaysSoForGood ==
    ASSUME NEW a \in Answers
    PROVE  Spec => [](metricsWorld = a /\ Reports(a) => []Reports(a))
  <1>1. IInv /\ [Next]_vars /\ Understood(a) => Understood(a)'
    BY SettledStep
  <1>2. Understood(a) <=> metricsWorld = a /\ Reports(a)
    BY DEF Understood
  <1> QED
    BY <1>1, <1>2, Invariance, PTL DEF Spec

\* currentMetrics, noteMetrics: no fetch of an API that has settled is wasted.  One
\* that is answered, denied or finds no API installed is enough for the signal to
\* say so; of those that fail, capFailThreshold in a row are.
THEOREM NoFetchWasted ==
    ASSUME NEW a \in Answers
    PROVE  Spec => [][ComesNearer(a)]_vars
  <1>1. IInv /\ [Next]_vars => ComesNearer(a)
    BY SettledStep
  <1> QED
    BY <1>1, Invariance, PTL DEF Spec
=============================================================================
