------------------------------ MODULE Collector ------------------------------
(***************************************************************************)
(* The collector's poll loop: Run, poll, pollOnce and publish of           *)
(* internal/collector/collector.go, composed of the two optional signals   *)
(* (modules MetricsSignal and DiskSignal) and the subscriptions (Hub).     *)
(*                                                                         *)
(* pollOnce lists the nodes, then the pods, from informer caches that      *)
(* follow a changing cluster; asks the two signals, each of which may take *)
(* several poll intervals; and assembles and publishes a snapshot of what  *)
(* it has gathered on the way.  Meanwhile the ticker fires, and the context*)
(* may be cancelled, at any moment.                                        *)
(***************************************************************************)
EXTENDS Naturals

CONSTANTS
    Nodes, Pods,
    Channels, NoSnap,                  \* of the Hub
    Options,                           \* the command lines considered: <<metrics, disk>>
    capFailThreshold, diskInterval, forbiddenRetry

ASSUME CollectorAssumption == /\ capFailThreshold \in Nat \ {0}
                              /\ diskInterval \in Nat \ {0}
                              /\ forbiddenRetry \in Nat \ {0}
                              /\ diskInterval <= forbiddenRetry
                              /\ "nowhere" \notin Nodes

VARIABLES
    \* MetricsSignal's
    metricsEnabled, metricsUp, metricsReason, metricsFailures, metricsRetryIn,
    lastPodUsage, lastNodeUsage, metricsAt, nodeUsage, sinceMetrics403, metricsWorld,
    \* DiskSignal's
    diskMode, diskByNode, diskLive, diskReason, diskFailures, sinceDisk, diskRoute,
    diskAt, asked, kubeletErr, since403, answered, diskWorld,
    \* Hub's
    latest, subs, chan,
    \* the cluster, as the informer caches hold it
    cluster,       \* the nodes
    placement,     \* pod -> its node, or "nowhere"
    quiet,         \* has the cluster stopped changing for good?
    inherited,     \* history: pods whose figures in lastPodUsage are those of a
                   \* predecessor with the same namespace and name
    \* Run's
    at,            \* where the poll goroutine is
    ticker,        \* "none" before it is created, then what ticker.C holds
    cancelled,     \* is ctx done?
    nodes, pods    \* pollOnce's locals

M == INSTANCE MetricsSignal
D == INSTANCE DiskSignal
H == INSTANCE Hub
INSTANCE Model

mvars  == <<metricsEnabled, metricsUp, metricsReason, metricsFailures, metricsRetryIn,
            lastPodUsage, lastNodeUsage, metricsAt, nodeUsage, sinceMetrics403, metricsWorld>>
dvars  == <<diskMode, diskByNode, diskLive, diskReason, diskFailures, sinceDisk, diskRoute,
            diskAt, asked, kubeletErr, since403, answered, diskWorld>>
hvars  == <<latest, subs, chan>>
cvars  == <<cluster, placement, quiet, inherited>>
locals == <<nodes, pods>>
vars   == <<mvars, dvars, hvars, cvars, at, ticker, cancelled, nodes, pods>>

Stages == {"sync", "nodes", "pods", "metrics", "disk", "publish", "select", "returned"}

\* A pod that is pending, has finished or does not exist is "nowhere": pollOnce
\* skips the pods without a node and those in a terminal phase.
Places == Nodes \cup {"nowhere"}
Shown(where) == {p \in Pods : where[p] # "nowhere"}

TypeOK == /\ M!TypeOK /\ D!TypeOK
          /\ cluster \subseteq Nodes
          /\ placement \in [Pods -> Places]
          /\ quiet \in BOOLEAN
          /\ inherited \subseteq DOMAIN lastPodUsage
          /\ at \in Stages
          /\ ticker \in {"none", "empty", "tick"}
          /\ cancelled \in BOOLEAN
          /\ nodes \subseteq Nodes
          /\ pods \in [Pods -> Places]

NoPods == [p \in Pods |-> "nowhere"]

Init == /\ M!Init /\ D!Init /\ H!HubInit
        /\ <<metricsEnabled, diskMode>> \in Options
        /\ cluster \in SUBSET Nodes
        /\ placement = NoPods
        /\ quiet = FALSE
        /\ inherited = {}
        /\ at = "sync"
        /\ ticker = "none"
        /\ cancelled = FALSE
        /\ nodes = {}
        /\ pods = NoPods

-----------------------------------------------------------------------------
\* Run and poll.  The goroutine's own steps leave the cluster, the ticker and
\* the context alone unless they say otherwise.

Goto(from, to) == at = from /\ at' = to

\* WaitForCacheSync, then the first poll; Run gives up if ctx ends first.
CachesSynced == /\ Goto("sync", "nodes")
                /\ UNCHANGED <<mvars, dvars, hvars, cvars, ticker, cancelled, locals>>

SyncGivenUp == /\ cancelled
               /\ Goto("sync", "returned")
               /\ UNCHANGED <<mvars, dvars, hvars, cvars, ticker, cancelled, locals>>

ListNodes == /\ Goto("nodes", "pods")
             /\ nodes' = cluster
             /\ UNCHANGED <<mvars, dvars, hvars, cvars, ticker, cancelled, pods>>

ListPods == /\ Goto("pods", "metrics")
            /\ pods' = placement
            /\ UNCHANGED <<mvars, dvars, hvars, cvars, ticker, cancelled, nodes>>

\* The first poll is over: Run creates the ticker.  Later ones find it there.
NewTicker == ticker' = IF ticker = "none" THEN "empty" ELSE ticker

\* Either lister fails: the poll fails and publishes nothing.
PollFails == /\ at \in {"nodes", "pods"}
             /\ ~quiet
             /\ at' = "select"
             /\ nodes' = {}
             /\ pods' = NoPods
             /\ NewTicker
             /\ UNCHANGED <<mvars, dvars, hvars, cvars, cancelled>>

\* currentMetrics: a fetch, or right on to the disk.
StartMetrics == /\ at = "metrics"
                /\ M!AskMetrics
                /\ UNCHANGED <<dvars, hvars, cvars, at, ticker, cancelled, locals>>

SkipMetrics == /\ Goto("metrics", "disk")
               /\ metricsAt = "idle"
               /\ ~M!MetricsDue
               /\ UNCHANGED <<mvars, dvars, hvars, cvars, ticker, cancelled, locals>>

\* The metrics API may be behind: what it reports of a pod may have been
\* measured before the pod was replaced, as long as pods are being replaced.
MetricsAnswered ==
    /\ at = "metrics"
    /\ M!Answered
    /\ at' = IF metricsAt' = "idle" THEN "disk" ELSE "metrics"
    /\ IF metricsAt = "pods" /\ metricsFailures' = 0 /\ metricsUp'
       THEN inherited' \in SUBSET (IF quiet THEN {} ELSE DOMAIN lastPodUsage')
       ELSE inherited' = inherited \cap DOMAIN lastPodUsage'
    /\ UNCHANGED <<dvars, hvars, cluster, placement, quiet, ticker, cancelled, locals>>

\* currentDisk: a refresh over the nodes listed, or right on to the snapshot.
StartDisk == /\ at = "disk"
             /\ D!AskDisk(nodes)
             /\ UNCHANGED <<mvars, hvars, cvars, at, ticker, cancelled, locals>>

SkipDisk == /\ Goto("disk", "publish")
            /\ diskAt = "idle"
            /\ ~D!DiskDue
            /\ UNCHANGED <<mvars, dvars, hvars, cvars, ticker, cancelled, locals>>

DiskAnswered == /\ at = "disk"
                /\ D!FanOutReturned
                /\ at' = IF diskAt' = "idle" THEN "publish" ELSE "disk"
                /\ UNCHANGED <<mvars, hvars, cvars, ticker, cancelled, locals>>

\* The entries of m for the names in S.
Only(m, S) == [x \in DOMAIN m \cap S |-> m[x]]

\* The snapshot: the nodes listed, the pods shown on them, the figures that
\* name one of those, and the capabilities as the signals returned them.
Snapshot ==
    LET usage == M!MetricsResult
        disk  == D!DiskResult
        shown == {p \in Shown(pods) : pods[p] \in nodes}
    IN  [nodes         |-> nodes,
         pods          |-> Only(pods, shown),
         podUsage      |-> Only(usage.pods, shown),
         inherited     |-> inherited \cap shown,
         nodeUsage     |-> Only(usage.nodes, nodes),
         disk          |-> Only(disk.disk, nodes),
         metrics       |-> usage.up,
         metricsReason |-> usage.reason,
         diskLive      |-> disk.live,
         diskReason    |-> disk.reason]

Publish == /\ Goto("publish", "select")
           /\ H!publish(Snapshot)
           /\ nodes' = {}
           /\ pods' = NoPods
           /\ NewTicker
           /\ UNCHANGED <<mvars, dvars, cvars, cancelled>>

\* The select of Run, which picks either case when both are ready.
NextPoll == /\ Goto("select", "nodes")
            /\ ticker = "tick"
            /\ ticker' = "empty"
            /\ UNCHANGED <<mvars, dvars, hvars, cvars, cancelled, locals>>

\* Mutant: ctx is only looked at when no tick is waiting.
MutRunReturns == /\ Goto("select", "returned")
                 /\ cancelled /\ ticker # "tick"
                 /\ UNCHANGED <<mvars, dvars, hvars, cvars, ticker, cancelled, locals>>

RunReturns == /\ Goto("select", "returned")
              /\ cancelled
              /\ UNCHANGED <<mvars, dvars, hvars, cvars, ticker, cancelled, locals>>

-----------------------------------------------------------------------------
\* The environment.

\* One poll interval passes.  ticker.C has room for one tick: a poll that takes
\* longer than the interval loses the others.  Nobody ticks before the first poll
\* is over, or after Run has returned.
Tick == /\ M!Tick /\ D!Tick
        /\ ticker' = IF ticker = "none" \/ at = "returned" THEN ticker ELSE "tick"
        /\ UNCHANGED <<hvars, cvars, at, cancelled, locals>>

Cancel == /\ ~cancelled
          /\ cancelled' = TRUE
          /\ UNCHANGED <<mvars, dvars, hvars, cvars, at, ticker, locals>>

NodesChange(new) == /\ ~quiet
                    /\ cluster' = new
                    /\ UNCHANGED <<mvars, dvars, hvars, placement, quiet, inherited, at,
                                   ticker, cancelled, locals>>

\* A pod does not move: what is elsewhere now, or here again, is another pod that
\* goes by the same namespace and name, and has another UID.
PodReplaced(p, where) == /\ ~quiet
                         /\ placement' = [placement EXCEPT ![p] = where]
                         /\ inherited' = inherited \cup ({p} \cap DOMAIN lastPodUsage)
                         /\ UNCHANGED <<mvars, dvars, hvars, cluster, quiet, at, ticker,
                                        cancelled, locals>>

Quieten == /\ ~quiet
           /\ quiet' = TRUE
           /\ UNCHANGED <<mvars, dvars, hvars, cluster, placement, inherited, at, ticker,
                          cancelled, locals>>

PollGoroutine == \/ CachesSynced \/ SyncGivenUp \/ ListNodes \/ ListPods \/ PollFails
                 \/ StartMetrics \/ SkipMetrics \/ MetricsAnswered
                 \/ StartDisk \/ SkipDisk \/ DiskAnswered \/ Publish \/ NextPoll

Next == \/ PollGoroutine
        \/ RunReturns
        \/ Tick
        \/ Cancel
        \/ \E new \in SUBSET Nodes : NodesChange(new)
        \/ \E p \in Pods, where \in Places : PodReplaced(p, where)
        \/ Quieten

\* The goroutine runs when it can (its requests end within their timeouts, the
\* caches sync), the clock advances, and a select that keeps finding ctx done
\* takes that case sooner or later.
Fairness == WF_vars(PollGoroutine) /\ WF_vars(Tick) /\ SF_vars(RunReturns)

Spec == Init /\ [][Next]_vars /\ Fairness

-----------------------------------------------------------------------------
\* pollOnce, model.Capabilities: whatever happened between listing and
\* publishing, a snapshot never contradicts itself.  A capability that is down
\* says why and comes with no figure of its signal, one that is up gives no
\* reason, "disabled" means switched off, and every pod shown is on a node that
\* is shown.  The usage of pods and of nodes was measured by one fetch, never some
\* of it before and some after a failure.
SnapshotConsistent ==
    latest # NoSnap =>
        /\ latest.metrics <=> latest.metricsReason = NoReason
        /\ latest.diskLive <=> latest.diskReason = NoReason
        /\ metricsEnabled <=> latest.metricsReason # ReasonDisabled
        /\ diskMode = "off" <=> latest.diskReason = ReasonDisabled
        /\ ~latest.metrics => /\ latest.podUsage = NoFigures
                              /\ latest.nodeUsage = NoFigures
        /\ ~latest.diskLive => latest.disk = NoFigures
        /\ \A p \in DOMAIN latest.pods : latest.pods[p] \in latest.nodes
        /\ \A a, b \in Ages(latest.podUsage) \cup Ages(latest.nodeUsage) : a = b

\* What a poll of the cluster as it is now shows: its nodes and pods, and none of
\* them with what another pod used.
ShowsCluster == /\ latest # NoSnap
                /\ latest.inherited = {}
                /\ latest.nodes = cluster
                /\ latest.pods = Only(placement, {p \in Pods : placement[p] \in cluster})

\* Run, pollOnce: once the cluster stops changing, every later snapshot shows
\* it as it is, unless kshows is told to stop first.  Usage is joined to pods by
\* namespace and name, so a pod may be shown with what its predecessor used; that
\* passes too, whatever the metrics API does from then on: figures that are not
\* renewed are dropped, never served for good.
ClusterGetsShown == quiet ~> (cancelled \/ []ShowsCluster)

\* Run: the collector stops when its context ends, whatever it was doing.
RunEnds == cancelled ~> (at = "returned")
=============================================================================
