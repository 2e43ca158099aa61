---------------------------- MODULE MetricsSignal ----------------------------
(***************************************************************************)
(* The live CPU/RAM signal of the collector: currentMetrics, fetchMetrics  *)
(* and noteMetrics of internal/collector/collector.go.                     *)
(*                                                                         *)
(* A fetch lists node metrics and then pod metrics, and time passes while  *)
(* it waits.  The metrics API may answer each list with figures, a 403,    *)
(* "not installed" or a transient error (its 10 s timeout is one), until   *)
(* metricsWorld settles on one kind of answer.                             *)
(*                                                                         *)
(* One tick of the clock is one poll interval.  The instant metricsRetryAt *)
(* is kept as the ticks still to wait, and metricsFailures stops counting  *)
(* at capFailThreshold, beyond which the code never tells counts apart.    *)
(***************************************************************************)
EXTENDS Naturals, Model

CONSTANTS
    Nodes,             \* node names the metrics API may report
    Pods,              \* "namespace/name" keys it may report
    capFailThreshold,  \* consecutive transient failures that drop the signal
    forbiddenRetry     \* ticks the signal stays parked after a 403

ASSUME MetricsAssumption == /\ capFailThreshold \in Nat \ {0}
                            /\ forbiddenRetry \in Nat \ {0}

VARIABLES
    metricsEnabled,    \* Options.MetricsServer, fixed at start
    metricsUp, metricsReason, metricsFailures,
    metricsRetryIn,    \* ticks until metricsRetryAt, 0 once it has passed
    lastPodUsage, lastNodeUsage,
    metricsAt,         \* where the poll goroutine is in fetchMetrics
    nodeUsage,         \* fetchMetrics's local map, filled by the first list
    sinceMetrics403,   \* history: ticks since the last 403, at most forbiddenRetry
    metricsWorld       \* the answer the metrics API has settled on, or "any"

state == <<metricsUp, metricsReason, metricsFailures, metricsRetryIn,
           lastPodUsage, lastNodeUsage>>
vars  == <<metricsEnabled, metricsUp, metricsReason, metricsFailures, metricsRetryIn,
           lastPodUsage, lastNodeUsage, metricsAt, nodeUsage,
           sinceMetrics403, metricsWorld>>

\* How noteMetrics classifies the outcome of a fetch.
Errors  == {"forbidden", "absent", "transient"}
Answers == {"ok"} \cup Errors

TypeOK == /\ metricsEnabled \in BOOLEAN
          /\ metricsUp \in BOOLEAN
          /\ metricsReason \in {NoReason} \cup Reasons
          /\ metricsFailures \in 0..capFailThreshold
          /\ metricsRetryIn \in 0..forbiddenRetry
          /\ IsFigures(lastPodUsage, Pods, capFailThreshold)
          /\ IsFigures(lastNodeUsage, Nodes, capFailThreshold)
          /\ metricsAt \in {"idle", "nodes", "pods"}
          /\ IsFigures(nodeUsage, Nodes, 0)
          /\ sinceMetrics403 \in 0..forbiddenRetry
          /\ metricsWorld \in Answers \cup {"any"}

\* New starts optimistic.
Init == /\ metricsEnabled \in BOOLEAN
        /\ metricsUp = TRUE
        /\ metricsReason = NoReason
        /\ metricsFailures = 0
        /\ metricsRetryIn = 0
        /\ lastPodUsage = NoFigures
        /\ lastNodeUsage = NoFigures
        /\ metricsAt = "idle"
        /\ nodeUsage = NoFigures
        /\ sinceMetrics403 = forbiddenRetry
        /\ metricsWorld = "any"

-----------------------------------------------------------------------------
\* noteMetrics, one operator per case of its switch.

NoteSuccess(podUsage) ==
    /\ metricsUp' = TRUE
    /\ metricsReason' = NoReason
    /\ metricsFailures' = 0
    /\ lastPodUsage' = podUsage
    /\ lastNodeUsage' = nodeUsage
    /\ UNCHANGED <<metricsRetryIn, sinceMetrics403>>

\* Mutant: the signal is not parked.
MutNoteForbidden ==
    /\ metricsUp' = FALSE
    /\ metricsReason' = ReasonForbidden
    /\ metricsFailures' = 0
    /\ lastPodUsage' = NoFigures
    /\ lastNodeUsage' = NoFigures
    /\ sinceMetrics403' = 0
    /\ UNCHANGED metricsRetryIn

\* Mutant: it is parked one tick too long.
MutNoteForbiddenLong ==
    /\ metricsUp' = FALSE
    /\ metricsReason' = ReasonForbidden
    /\ metricsFailures' = 0
    /\ metricsRetryIn' = forbiddenRetry + 1
    /\ lastPodUsage' = NoFigures
    /\ lastNodeUsage' = NoFigures
    /\ sinceMetrics403' = 0

NoteForbidden ==
    /\ metricsUp' = FALSE
    /\ metricsReason' = ReasonForbidden
    /\ metricsFailures' = 0
    /\ metricsRetryIn' = forbiddenRetry
    /\ lastPodUsage' = NoFigures
    /\ lastNodeUsage' = NoFigures
    /\ sinceMetrics403' = 0

\* Mutant: the last figures stay.
MutNoteAbsent ==
    /\ metricsUp' = FALSE
    /\ metricsReason' = ReasonAbsent
    /\ metricsFailures' = 0
    /\ UNCHANGED <<lastPodUsage, lastNodeUsage, metricsRetryIn, sinceMetrics403>>

NoteAbsent ==
    /\ metricsUp' = FALSE
    /\ metricsReason' = ReasonAbsent
    /\ metricsFailures' = 0
    /\ lastPodUsage' = NoFigures
    /\ lastNodeUsage' = NoFigures
    /\ UNCHANGED <<metricsRetryIn, sinceMetrics403>>

\* Mutant: the signal survives one failure too many.
MutNoteTransient ==
    LET failures == metricsFailures + 1
        lost     == metricsUp /\ failures > capFailThreshold
    IN  /\ metricsFailures' = IF failures > capFailThreshold
                              THEN capFailThreshold ELSE failures
        /\ metricsUp' = IF lost THEN FALSE ELSE metricsUp
        /\ metricsReason' = IF metricsUp /\ ~lost THEN metricsReason ELSE ReasonUnavailable
        /\ lastPodUsage' = NoFigures
        /\ lastNodeUsage' = NoFigures
        /\ UNCHANGED <<metricsRetryIn, sinceMetrics403>>

\* Mutant: the half of the fetch that was answered is stored.
MutNoteTransientPartial ==
    LET failures == metricsFailures + 1
        lost     == metricsUp /\ failures >= capFailThreshold
    IN  /\ metricsFailures' = IF failures > capFailThreshold
                              THEN capFailThreshold ELSE failures
        /\ metricsUp' = IF lost THEN FALSE ELSE metricsUp
        /\ metricsReason' = IF metricsUp /\ ~lost THEN metricsReason ELSE ReasonUnavailable
        /\ lastPodUsage' = IF lost THEN NoFigures ELSE Older(lastPodUsage)
        /\ lastNodeUsage' = IF lost THEN NoFigures ELSE nodeUsage
        /\ UNCHANGED <<metricsRetryIn, sinceMetrics403>>

\* The figures kept across a failure are one fetch older afterwards.
NoteTransient ==
    LET failures == metricsFailures + 1
        lost     == metricsUp /\ failures >= capFailThreshold
    IN  /\ metricsFailures' = IF failures > capFailThreshold
                              THEN capFailThreshold ELSE failures
        /\ metricsUp' = IF lost THEN FALSE ELSE metricsUp
        /\ metricsReason' = IF metricsUp /\ ~lost THEN metricsReason ELSE ReasonUnavailable
        /\ lastPodUsage' = IF lost THEN NoFigures ELSE Older(lastPodUsage)
        /\ lastNodeUsage' = IF lost THEN NoFigures ELSE Older(lastNodeUsage)
        /\ UNCHANGED <<metricsRetryIn, sinceMetrics403>>

NoteError(err) == \/ err = "forbidden" /\ NoteForbidden
                  \/ err = "absent"    /\ NoteAbsent
                  \/ err = "transient" /\ NoteTransient

-----------------------------------------------------------------------------
\* Mutant: a signal that was refused is never asked for again.
MutMetricsDue == metricsEnabled /\ metricsReason # ReasonForbidden

\* currentMetrics goes out only when the signal is enabled and not parked;
\* otherwise it returns what it has, which MetricsResult states.
MetricsDue == metricsEnabled /\ metricsRetryIn = 0

AskMetrics == /\ metricsAt = "idle"
              /\ MetricsDue
              /\ metricsAt' = "nodes"
              /\ UNCHANGED <<metricsEnabled, state, nodeUsage, sinceMetrics403, metricsWorld>>

\* What the metrics API (or the timeout) may say to a list request.
MayAnswer(a) == metricsWorld \in {"any", a}

NodeMetricsListed(reported) ==
    /\ metricsAt = "nodes"
    /\ MayAnswer("ok")
    /\ nodeUsage' = Measured(reported)
    /\ metricsAt' = "pods"
    /\ UNCHANGED <<metricsEnabled, state, sinceMetrics403, metricsWorld>>

PodMetricsListed(reported) ==
    /\ metricsAt = "pods"
    /\ MayAnswer("ok")
    /\ NoteSuccess(Measured(reported))
    /\ metricsAt' = "idle"
    /\ nodeUsage' = NoFigures
    /\ UNCHANGED <<metricsEnabled, metricsWorld>>

\* Either list fails: the maps filled so far are dropped with the error.
MetricsListFailed(err) ==
    /\ metricsAt \in {"nodes", "pods"}
    /\ MayAnswer(err)
    /\ NoteError(err)
    /\ metricsAt' = "idle"
    /\ nodeUsage' = NoFigures
    /\ UNCHANGED <<metricsEnabled, metricsWorld>>

Answered == \/ \E S \in SUBSET Nodes : NodeMetricsListed(S)
            \/ \E S \in SUBSET Pods : PodMetricsListed(S)
            \/ \E err \in Errors : MetricsListFailed(err)

Tick == /\ metricsRetryIn' = IF metricsRetryIn = 0 THEN 0 ELSE metricsRetryIn - 1
        /\ sinceMetrics403' = IF sinceMetrics403 = forbiddenRetry
                              THEN forbiddenRetry ELSE sinceMetrics403 + 1
        /\ UNCHANGED <<metricsEnabled, metricsUp, metricsReason, metricsFailures,
                       lastPodUsage, lastNodeUsage, metricsAt, nodeUsage, metricsWorld>>

\* From here on the metrics API always answers a: the permission stays granted
\* or withheld, the server installed or not, the network up or down.
Settle(a) == /\ metricsWorld = "any"
             /\ metricsWorld' = a
             /\ UNCHANGED <<metricsEnabled, state, metricsAt, nodeUsage, sinceMetrics403>>

Next == \/ AskMetrics
        \/ Answered
        \/ Tick
        \/ \E a \in Answers : Settle(a)

\* The poll goroutine keeps polling, every request ends within its timeout and
\* the clock advances.  Nothing obliges the metrics API to settle.
Fairness == WF_vars(AskMetrics) /\ WF_vars(Answered) /\ WF_vars(Tick)

Spec == Init /\ [][Next]_vars /\ Fairness

-----------------------------------------------------------------------------
\* What currentMetrics returns to pollOnce between fetches.
MetricsResult ==
    IF metricsEnabled
    THEN [pods |-> lastPodUsage, nodes |-> lastNodeUsage,
          up |-> metricsUp, reason |-> metricsReason]
    ELSE [pods |-> NoFigures, nodes |-> NoFigures,
          up |-> FALSE, reason |-> ReasonDisabled]

-----------------------------------------------------------------------------
\* currentMetrics, noteMetrics: a capability that is up gives no reason, and
\* one that is down gives one and serves no usage, so the banner and the
\* figures of a snapshot cannot contradict each other.
DownMeansNothingServed ==
    IF metricsUp
    THEN metricsReason = NoReason
    ELSE /\ metricsReason \in {ReasonForbidden, ReasonAbsent, ReasonUnavailable}
         /\ lastPodUsage = NoFigures
         /\ lastNodeUsage = NoFigures

\* fetchMetrics, noteMetrics: pod and node usage come from the same fetch, the
\* last one that was answered in full, and exactly the failures counted since
\* then have passed.  A fetch that failed half way leaves no figure behind, and
\* no figure outlives capFailThreshold - 1 failures.
UsageOfLastGoodFetch ==
    \A age \in Ages(lastPodUsage) \cup Ages(lastNodeUsage) :
        /\ age = metricsFailures
        /\ age < capFailThreshold

\* currentMetrics, forbiddenRetry: a signal that was refused is left alone, so
\* the cluster's audit log gets at most one denied request per forbiddenRetry.
DenialsSpaced ==
    [][MetricsListFailed("forbidden") => sinceMetrics403 = forbiddenRetry]_vars

\* noteMetrics implements the contract shared by both optional signals.
Contract == INSTANCE Capability WITH
                up     <- metricsUp,
                reason <- metricsReason,
                streak <- metricsFailures,
                ages   <- Ages(lastPodUsage) \cup Ages(lastNodeUsage)
KeepsContract == Contract!Spec

\* What the signal says once it has understood that the API always answers a.
Reports(a) == CASE a = "ok"        -> metricsUp
                [] a = "forbidden" -> metricsReason = ReasonForbidden
                [] a = "absent"    -> metricsReason = ReasonAbsent
                [] a = "transient" -> metricsReason = ReasonUnavailable

\* currentMetrics, noteMetrics: whatever the metrics API settles on, after any
\* history, a signal that is on comes to say so and says so ever after.  A permission
\* granted later is noticed without a restart, a parked signal wakes up.
ReportsTheWorld == \A a \in Answers : (metricsEnabled /\ metricsWorld = a) ~> []Reports(a)
=============================================================================
