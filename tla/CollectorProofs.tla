--------------------------- MODULE CollectorProofs ---------------------------
(***************************************************************************)
(* The poll loop, for every cluster and every setting of the two signals.  *)
(*                                                                         *)
(* What is proved of the signals on their own carries over: the loop's     *)
(* steps are steps of the modules MetricsSignal and DiskSignal, or leave   *)
(* their state alone, so their inductive invariants hold inside it.  MP    *)
(* and DP are those modules with their proofs; the first lemmas say that   *)
(* they name what the Collector calls M and D.  The last section is about  *)
(* the calls of effectiveResources that a poll makes.                      *)
(***************************************************************************)
EXTENDS Collector, EffectiveResources, TLAPS

MP == INSTANCE MetricsSignalProofs
DP == INSTANCE DiskSignalProofs

\* What the poll goroutine and its environment add to the two signals.
LoopOK == /\ cluster \subseteq Nodes
          /\ placement \in [Pods -> Places]
          /\ quiet \in BOOLEAN
          /\ inherited \subseteq DOMAIN lastPodUsage
          /\ at \in Stages
          /\ ticker \in {"none", "empty", "tick"}
          /\ cancelled \in BOOLEAN
          /\ nodes \subseteq Nodes
          /\ pods \in [Pods -> Places]

\* The run of the Collector leaves open what the routes to the nodes deliver.
Open == diskWorld = D!Unsettled

IInv == MP!IInv /\ DP!IInv /\ Open /\ LoopOK /\ SnapshotConsistent

-----------------------------------------------------------------------------
\* M and MP, D and DP are the same modules.

LEMMA MetricsNames ==
    /\ M!Init => MP!Init
    /\ M!AskMetrics => MP!AskMetrics
    /\ M!Tick => MP!Tick
    /\ UNCHANGED mvars => UNCHANGED MP!vars
<1>1. M!Init => MP!Init
  BY DEF M!Init, MP!Init, M!NoReason, MP!NoReason, M!NoFigures, MP!NoFigures
<1>2. M!AskMetrics => MP!AskMetrics
  BY DEF M!AskMetrics, MP!AskMetrics, M!MetricsDue, MP!MetricsDue, M!state, MP!state
<1>3. M!Tick => MP!Tick
  BY DEF M!Tick, MP!Tick
<1>4. UNCHANGED mvars => UNCHANGED MP!vars
  BY DEF mvars, MP!vars
<1> QED BY <1>1, <1>2, <1>3, <1>4

LEMMA MetricsAnswers == M!Answered => MP!Answered
  BY DEF M!Answered, MP!Answered, M!Errors, MP!Errors,
         M!NodeMetricsListed, MP!NodeMetricsListed, M!PodMetricsListed, MP!PodMetricsListed,
         M!MetricsListFailed, MP!MetricsListFailed, M!MayAnswer, MP!MayAnswer,
         M!state, MP!state, M!Measured, MP!Measured, M!Older, MP!Older,
         M!NoFigures, MP!NoFigures, M!NoteSuccess, MP!NoteSuccess, M!NoteError, MP!NoteError,
         M!NoteForbidden, MP!NoteForbidden, M!NoteAbsent, MP!NoteAbsent,
         M!NoteTransient, MP!NoteTransient, M!NoReason, MP!NoReason,
         M!ReasonForbidden, MP!ReasonForbidden, M!ReasonAbsent, MP!ReasonAbsent,
         M!ReasonUnavailable, MP!ReasonUnavailable

LEMMA MetricsFacts ==
    MP!IInv => M!TypeOK /\ M!DownMeansNothingServed /\ M!UsageOfLastGoodFetch
  BY DEF MP!IInv, MP!TypeOK, M!TypeOK, MP!DownMeansNothingServed, M!DownMeansNothingServed,
         MP!UsageOfLastGoodFetch, M!UsageOfLastGoodFetch, M!Ages, MP!Ages,
         M!NoFigures, MP!NoFigures, M!IsFigures, MP!IsFigures, M!Answers, MP!Answers,
         M!Errors, MP!Errors, M!NoReason, MP!NoReason, M!Reasons, MP!Reasons,
         M!ReasonForbidden, MP!ReasonForbidden, M!ReasonAbsent, MP!ReasonAbsent,
         M!ReasonUnavailable, MP!ReasonUnavailable, M!ReasonDisabled, MP!ReasonDisabled

LEMMA DiskNames ==
    /\ D!Init => DP!Init
    /\ \A S : D!AskDisk(S) => DP!AskDisk(S)
    /\ D!Tick => DP!Tick
    /\ UNCHANGED dvars => UNCHANGED DP!vars
<1>1. D!Init => DP!Init
  BY DEF D!Init, DP!Init, D!NoReason, DP!NoReason, D!NoFigures, DP!NoFigures, D!Modes, DP!Modes,
         D!Routes, DP!Routes, D!NoRoute, DP!NoRoute, D!Unsettled, DP!Unsettled
<1>2. \A S : D!AskDisk(S) => DP!AskDisk(S)
  BY DEF D!AskDisk, DP!AskDisk, D!DiskDue, DP!DiskDue, D!signal, DP!signal,
         D!FirstRoute, DP!FirstRoute, D!NoRoute, DP!NoRoute,
         D!ReasonForbidden, DP!ReasonForbidden
<1>3. D!Tick => DP!Tick
  BY DEF D!Tick, DP!Tick, D!Later, DP!Later, D!Routes, DP!Routes
<1>4. UNCHANGED dvars => UNCHANGED DP!vars
  BY DEF dvars, DP!vars
<1> QED BY <1>1, <1>2, <1>3, <1>4

LEMMA DiskAnswers == D!FanOutReturned => DP!FanOutReturned
  BY DEF D!FanOutReturned, DP!FanOutReturned, D!Outcomes, DP!Outcomes,
         D!FallThrough, DP!FallThrough, D!Refreshed, DP!Refreshed, D!Probing, DP!Probing,
         D!MaySay, DP!MaySay, D!Verdict, DP!Verdict, D!Measured, DP!Measured, D!Hear, DP!Hear,
         D!signal, DP!signal, D!RouteAfter, DP!RouteAfter, D!NoRoute, DP!NoRoute,
         D!Note, DP!Note, D!FetchErr, DP!FetchErr, D!FailuresAfter, DP!FailuresAfter,
         D!NoteSuccess, DP!NoteSuccess, D!NoteForbidden, DP!NoteForbidden,
         D!NoteTransient, DP!NoteTransient, D!Kept, DP!Kept, D!Older, DP!Older,
         D!NoFigures, DP!NoFigures, D!NoReason, DP!NoReason,
         D!ReasonForbidden, DP!ReasonForbidden, D!ReasonUnavailable, DP!ReasonUnavailable

LEMMA DiskFacts == DP!IInv => D!TypeOK /\ D!DiskOfLastGoodRefresh
  BY DEF DP!IInv, DP!TypeOK, D!TypeOK, DP!DiskOfLastGoodRefresh, D!DiskOfLastGoodRefresh,
         D!Ages, DP!Ages, D!NoFigures, DP!NoFigures, D!Modes, DP!Modes, D!Routes, DP!Routes,
         D!NoRoute, DP!NoRoute, D!IsFigures, DP!IsFigures, D!Errors, DP!Errors,
         D!Worlds, DP!Worlds, D!Outcomes, DP!Outcomes, D!Unsettled, DP!Unsettled,
         D!NoReason, DP!NoReason, D!Reasons, DP!Reasons,
         D!ReasonForbidden, DP!ReasonForbidden, D!ReasonAbsent, DP!ReasonAbsent,
         D!ReasonUnavailable, DP!ReasonUnavailable, D!ReasonDisabled, DP!ReasonDisabled

-----------------------------------------------------------------------------
\* Each signal, inside the loop.

\* A step of the loop asks the metrics signal, is its answer, lets a tick pass or
\* leaves it alone.
LEMMA OnlyAnswersChange ==
    [Next]_vars => M!AskMetrics \/ MetricsAnswered \/ M!Tick \/ UNCHANGED mvars
<1> SUFFICES ASSUME [Next]_vars
             PROVE  M!AskMetrics \/ MetricsAnswered \/ M!Tick \/ UNCHANGED mvars
  OBVIOUS
<1>1. StartMetrics => M!AskMetrics
  BY DEF StartMetrics
<1>2. Tick => M!Tick
  BY DEF Tick
<1>3. CachesSynced \/ SyncGivenUp \/ ListNodes \/ ListPods \/ PollFails => UNCHANGED mvars
  BY DEF CachesSynced, SyncGivenUp, ListNodes, ListPods, PollFails
<1>4. SkipMetrics \/ StartDisk \/ SkipDisk \/ DiskAnswered => UNCHANGED mvars
  BY DEF SkipMetrics, StartDisk, SkipDisk, DiskAnswered
<1>5. Publish \/ NextPoll \/ RunReturns \/ Cancel \/ Quieten => UNCHANGED mvars
  BY DEF Publish, NextPoll, RunReturns, Cancel, Quieten
<1>6. \A new : NodesChange(new) => UNCHANGED mvars
  BY DEF NodesChange
<1>7. \A p, where : PodReplaced(p, where) => UNCHANGED mvars
  BY DEF PodReplaced
<1>8. UNCHANGED vars => UNCHANGED mvars
  BY DEF vars
<1> QED BY <1>1, <1>2, <1>3, <1>4, <1>5, <1>6, <1>7, <1>8 DEF Next, PollGoroutine

\* So it is a step of the metrics signal, or leaves it alone.
LEMMA MetricsSteps ==
    [Next]_vars => M!AskMetrics \/ M!Answered \/ M!Tick \/ UNCHANGED mvars
  BY OnlyAnswersChange DEF MetricsAnswered

\* And likewise for the disk signal, which is asked about nodes that were listed.
LEMMA DiskSteps ==
    [Next]_vars => D!AskDisk(nodes) \/ D!FanOutReturned \/ D!Tick \/ UNCHANGED dvars
<1> SUFFICES ASSUME [Next]_vars
             PROVE  D!AskDisk(nodes) \/ D!FanOutReturned \/ D!Tick \/ UNCHANGED dvars
  OBVIOUS
<1>1. StartDisk => D!AskDisk(nodes)
  BY DEF StartDisk
<1>2. DiskAnswered => D!FanOutReturned
  BY DEF DiskAnswered
<1>3. Tick => D!Tick
  BY DEF Tick
<1>4. CachesSynced \/ SyncGivenUp \/ ListNodes \/ ListPods \/ PollFails => UNCHANGED dvars
  BY DEF CachesSynced, SyncGivenUp, ListNodes, ListPods, PollFails
<1>5. StartMetrics \/ SkipMetrics \/ MetricsAnswered \/ SkipDisk => UNCHANGED dvars
  BY DEF StartMetrics, SkipMetrics, MetricsAnswered, SkipDisk
<1>6. Publish \/ NextPoll \/ RunReturns \/ Cancel \/ Quieten => UNCHANGED dvars
  BY DEF Publish, NextPoll, RunReturns, Cancel, Quieten
<1>7. \A new : NodesChange(new) => UNCHANGED dvars
  BY DEF NodesChange
<1>8. \A p, where : PodReplaced(p, where) => UNCHANGED dvars
  BY DEF PodReplaced
<1>9. UNCHANGED vars => UNCHANGED dvars
  BY DEF vars
<1> QED BY <1>1, <1>2, <1>3, <1>4, <1>5, <1>6, <1>7, <1>8, <1>9 DEF Next, PollGoroutine

\* The invariants of the two signals are kept.
LEMMA SignalsKept == IInv /\ [Next]_vars => MP!IInv' /\ DP!IInv' /\ Open'
<1> SUFFICES ASSUME IInv, [Next]_vars PROVE MP!IInv' /\ DP!IInv' /\ Open'
  OBVIOUS
<1> USE CollectorAssumption DEF MP!MetricsAssumption, DP!DiskAssumption
<1>1. MP!IInv'
  <2>1. [MP!Next]_(MP!vars)
    BY MetricsSteps, MetricsNames, MetricsAnswers DEF MP!Next
  <2> QED BY <2>1, MP!NextPreserves DEF IInv
<1>2. DP!IInv'
  <2>1. CASE D!AskDisk(nodes)
    <3>1. nodes \in SUBSET Nodes /\ DP!AskDisk(nodes)
      BY <2>1, DiskNames DEF IInv, LoopOK
    <3> QED BY <3>1, DP!AskPreserves DEF IInv
  <2>2. CASE D!FanOutReturned \/ D!Tick \/ UNCHANGED dvars
    <3>1. [DP!Next]_(DP!vars)
      BY <2>2, DiskNames, DiskAnswers DEF DP!Next
    <3> QED BY <3>1, DP!NextPreserves DEF IInv
  <2> QED BY <2>1, <2>2, DiskSteps
<1>3. UNCHANGED diskWorld
  <2>1. UNCHANGED dvars => UNCHANGED diskWorld
    BY DEF dvars
  <2>2. \A S : D!AskDisk(S) => UNCHANGED diskWorld
    BY DEF D!AskDisk
  <2>3. D!FanOutReturned => UNCHANGED diskWorld
    BY DEF D!FanOutReturned, D!FallThrough, D!Refreshed
  <2>4. D!Tick => UNCHANGED diskWorld
    BY DEF D!Tick
  <2> QED BY <2>1, <2>2, <2>3, <2>4, DiskSteps
<1> QED BY <1>1, <1>2, <1>3 DEF IInv, Open, D!Unsettled, D!Routes
-----------------------------------------------------------------------------
\* The loop's own state.

\* The metrics signal changes its figures only when it is answered.
LEMMA UsageUnchanged ==
    M!AskMetrics \/ M!Tick \/ UNCHANGED mvars => UNCHANGED lastPodUsage
  BY DEF M!AskMetrics, M!state, M!Tick, mvars

LEMMA NoPodsType == NoPods \in [Pods -> Places]
  BY DEF NoPods, Places

\* Every step keeps the loop's variables within their types, and inherited within
\* the pods that have figures.
LEMMA LoopKept == IInv /\ [Next]_vars => LoopOK'
<1> SUFFICES ASSUME LoopOK, [Next]_vars PROVE LoopOK'
  BY DEF IInv
<1> USE DEF Goto, Stages, locals, cvars
<1>1. CASE CachesSynced \/ SyncGivenUp \/ NextPoll \/ RunReturns
  BY <1>1 DEF CachesSynced, SyncGivenUp, NextPoll, RunReturns, mvars, LoopOK
<1>2. CASE ListNodes \/ ListPods
  BY <1>2 DEF ListNodes, ListPods, mvars, LoopOK
<1>3. CASE PollFails \/ Publish
  BY <1>3, NoPodsType DEF PollFails, Publish, NewTicker, mvars, LoopOK
<1>4. CASE StartMetrics
  <2>1. UNCHANGED lastPodUsage
    BY <1>4, UsageUnchanged DEF StartMetrics
  <2> QED BY <1>4, <2>1 DEF StartMetrics, LoopOK
<1>5. CASE SkipMetrics \/ SkipDisk \/ StartDisk
  BY <1>5 DEF SkipMetrics, SkipDisk, StartDisk, mvars, LoopOK
<1>6. CASE MetricsAnswered
  <2>1. inherited' \subseteq DOMAIN lastPodUsage'
    BY <1>6 DEF MetricsAnswered
  <2>2. at' \in Stages /\ UNCHANGED <<cluster, placement, quiet, ticker, cancelled, nodes, pods>>
    BY <1>6 DEF MetricsAnswered
  <2> QED BY <2>1, <2>2 DEF LoopOK
<1>7. CASE DiskAnswered
  BY <1>7 DEF DiskAnswered, mvars, LoopOK
<1>8. CASE Tick
  <2>1. UNCHANGED lastPodUsage
    BY <1>8, UsageUnchanged DEF Tick
  <2>2. ticker' \in {"none", "empty", "tick"}
    BY <1>8 DEF Tick, LoopOK
  <2> QED BY <1>8, <2>1, <2>2 DEF Tick, LoopOK
<1>9. CASE Cancel \/ Quieten
  BY <1>9 DEF Cancel, Quieten, mvars, LoopOK
<1>10. ASSUME NEW new \in SUBSET Nodes, NodesChange(new) PROVE LoopOK'
  BY <1>10 DEF NodesChange, mvars, LoopOK
<1>11. ASSUME NEW p \in Pods, NEW where \in Places, PodReplaced(p, where) PROVE LoopOK'
  BY <1>11 DEF PodReplaced, mvars, LoopOK
<1>12. CASE UNCHANGED vars
  BY <1>12 DEF vars, mvars, LoopOK
<1> QED
  BY <1>1, <1>2, <1>3, <1>4, <1>5, <1>6, <1>7, <1>8, <1>9, <1>10, <1>11, <1>12
  DEF Next, PollGoroutine

-----------------------------------------------------------------------------
\* Snapshots.

\* What a poll leaves out of a map is all that it changes about it.
LEMMA OnlySome ==
    ASSUME NEW m, NEW S
    PROVE  /\ Ages(Only(m, S)) \subseteq Ages(m)
           /\ \A x \in DOMAIN Only(m, S) : x \in S /\ Only(m, S)[x] = m[x]
           /\ Only(NoFigures, S) = NoFigures
  BY DEF Only, Ages, NoFigures

\* What currentMetrics returns says of itself why it is down, and serves nothing
\* then.
LEMMA MetricsResultOK ==
    ASSUME MP!IInv
    PROVE  LET r == M!MetricsResult
           IN  /\ r.up \in BOOLEAN
               /\ r.up <=> r.reason = NoReason
               /\ metricsEnabled <=> r.reason # ReasonDisabled
               /\ ~r.up => r.pods = NoFigures /\ r.nodes = NoFigures
               /\ \A a, b \in Ages(r.pods) \cup Ages(r.nodes) : a = b
<1> USE DEF NoReason, ReasonDisabled, NoFigures, M!NoReason, M!ReasonDisabled, M!NoFigures,
            M!ReasonForbidden, M!ReasonAbsent, M!ReasonUnavailable
<1> DEFINE r == M!MetricsResult
<1>0. /\ metricsEnabled \in BOOLEAN /\ metricsUp \in BOOLEAN
      /\ M!DownMeansNothingServed /\ M!UsageOfLastGoodFetch
  BY MetricsFacts DEF M!TypeOK
<1>1. CASE metricsEnabled
  <2>1. /\ r.up = metricsUp /\ r.reason = metricsReason
        /\ r.pods = lastPodUsage /\ r.nodes = lastNodeUsage
    BY <1>1 DEF M!MetricsResult
  <2>2. \A a \in Ages(lastPodUsage) \cup Ages(lastNodeUsage) : a = metricsFailures
    BY <1>0 DEF M!UsageOfLastGoodFetch, M!Ages, Ages
  <2> HIDE DEF r
  <2>3. \A a, b \in Ages(r.pods) \cup Ages(r.nodes) : a = b
    BY <2>1, <2>2
  <2>4. /\ r.up <=> r.reason = NoReason
        /\ r.reason # ReasonDisabled
        /\ ~r.up => r.pods = NoFigures /\ r.nodes = NoFigures
    BY <1>0, <2>1 DEF M!DownMeansNothingServed
  <2> QED BY <1>0, <1>1, <2>1, <2>3, <2>4 DEF r
<1>2. CASE ~metricsEnabled
  <2>1. /\ r.up = FALSE /\ r.reason = ReasonDisabled
        /\ r.pods = NoFigures /\ r.nodes = NoFigures
    BY <1>2 DEF M!MetricsResult
  <2>2. Ages(NoFigures) = {}
    BY DEF Ages
  <2> HIDE DEF r
  <2>3. \A a, b \in Ages(r.pods) \cup Ages(r.nodes) : a = b
    BY <2>1, <2>2
  <2>4. /\ r.up \in BOOLEAN
        /\ r.up <=> r.reason = NoReason
        /\ metricsEnabled <=> r.reason # ReasonDisabled
        /\ ~r.up => r.pods = NoFigures /\ r.nodes = NoFigures
    BY <1>2, <2>1
  <2> QED BY <2>3, <2>4 DEF r
<1> QED BY <1>0, <1>1, <1>2

\* And so does what currentDisk returns.
LEMMA DiskResultOK ==
    ASSUME DP!IInv
    PROVE  LET r == D!DiskResult
           IN  /\ r.live \in BOOLEAN
               /\ r.live <=> r.reason = NoReason
               /\ diskMode = "off" <=> r.reason = ReasonDisabled
               /\ ~r.live => r.disk = NoFigures
<1> USE DEF NoReason, ReasonDisabled, NoFigures, D!NoReason, D!ReasonDisabled, D!NoFigures,
            D!ReasonForbidden, D!ReasonUnavailable
<1>0. diskLive \in BOOLEAN /\ D!DiskOfLastGoodRefresh
  BY DiskFacts DEF D!TypeOK
<1>1. CASE diskMode = "off"
  BY <1>1 DEF D!DiskResult
<1>2. CASE diskMode # "off"
  BY <1>0, <1>2 DEF D!DiskResult, D!DiskOfLastGoodRefresh
<1> QED BY <1>1, <1>2

\* The snapshot a poll publishes does not contradict itself.
LEMMA PublishConsistent ==
    ASSUME MP!IInv, DP!IInv, Publish
    PROVE  SnapshotConsistent'
<1> DEFINE usage == M!MetricsResult
           disk  == D!DiskResult
           shown == {p \in Shown(pods) : pods[p] \in nodes}
<1>1. UNCHANGED <<metricsEnabled, diskMode>> /\ latest' = Snapshot
  BY DEF Publish, H!publish, mvars, dvars
<1>2. /\ latest'.nodes = nodes
      /\ latest'.pods = Only(pods, shown)
      /\ latest'.podUsage = Only(usage.pods, shown)
      /\ latest'.nodeUsage = Only(usage.nodes, nodes)
      /\ latest'.disk = Only(disk.disk, nodes)
      /\ latest'.metrics = usage.up /\ latest'.metricsReason = usage.reason
      /\ latest'.diskLive = disk.live /\ latest'.diskReason = disk.reason
  BY <1>1 DEF Snapshot
<1>3. /\ usage.up \in BOOLEAN
      /\ usage.up <=> usage.reason = NoReason
      /\ metricsEnabled <=> usage.reason # ReasonDisabled
      /\ ~usage.up => usage.pods = NoFigures /\ usage.nodes = NoFigures
      /\ \A a, b \in Ages(usage.pods) \cup Ages(usage.nodes) : a = b
  BY MetricsResultOK
<1>4. /\ disk.live \in BOOLEAN
      /\ disk.live <=> disk.reason = NoReason
      /\ diskMode = "off" <=> disk.reason = ReasonDisabled
      /\ ~disk.live => disk.disk = NoFigures
  BY DiskResultOK
<1>5. \A p \in DOMAIN latest'.pods : latest'.pods[p] \in latest'.nodes
  BY <1>2, OnlySome
<1> HIDE DEF usage, disk, shown
<1>6. \A a, b \in Ages(latest'.podUsage) \cup Ages(latest'.nodeUsage) : a = b
  <2>1. /\ Ages(latest'.podUsage) \subseteq Ages(usage.pods)
        /\ Ages(latest'.nodeUsage) \subseteq Ages(usage.nodes)
    BY <1>2, OnlySome
  <2> QED BY <1>3, <2>1
<1>7. ~latest'.metrics => latest'.podUsage = NoFigures /\ latest'.nodeUsage = NoFigures
  BY <1>2, <1>3, OnlySome
<1>8. ~latest'.diskLive => latest'.disk = NoFigures
  BY <1>2, <1>4, OnlySome
<1>9. /\ latest'.metrics <=> latest'.metricsReason = NoReason
      /\ latest'.diskLive <=> latest'.diskReason = NoReason
      /\ metricsEnabled' <=> latest'.metricsReason # ReasonDisabled
      /\ diskMode' = "off" <=> latest'.diskReason = ReasonDisabled
  BY <1>1, <1>2, <1>3, <1>4
<1> QED BY <1>5, <1>6, <1>7, <1>8, <1>9 DEF SnapshotConsistent, Ages, NoFigures

\* Which signals are on is settled at start.
LEMMA OptionsFixed == [Next]_vars => UNCHANGED <<metricsEnabled, diskMode>>
<1> SUFFICES ASSUME [Next]_vars PROVE UNCHANGED <<metricsEnabled, diskMode>>
  OBVIOUS
<1>1. M!AskMetrics \/ M!Tick \/ UNCHANGED mvars => UNCHANGED metricsEnabled
  BY DEF M!AskMetrics, M!Tick, mvars
<1>2. M!Answered => UNCHANGED metricsEnabled
  BY DEF M!Answered, M!NodeMetricsListed, M!PodMetricsListed, M!MetricsListFailed
<1>3. D!AskDisk(nodes) \/ D!Tick \/ UNCHANGED dvars => UNCHANGED diskMode
  BY DEF D!AskDisk, D!Tick, dvars
<1>4. D!FanOutReturned => UNCHANGED diskMode
  BY DEF D!FanOutReturned, D!FallThrough, D!Refreshed
<1> QED BY <1>1, <1>2, <1>3, <1>4, MetricsSteps, DiskSteps

\* Only publish replaces the latest snapshot.
LEMMA LatestKept == [Next]_vars /\ ~Publish => UNCHANGED latest
<1> USE DEF hvars
<1>1. CachesSynced \/ SyncGivenUp \/ ListNodes \/ ListPods \/ PollFails => UNCHANGED latest
  BY DEF CachesSynced, SyncGivenUp, ListNodes, ListPods, PollFails
<1>2. StartMetrics \/ SkipMetrics \/ MetricsAnswered => UNCHANGED latest
  BY DEF StartMetrics, SkipMetrics, MetricsAnswered
<1>3. StartDisk \/ SkipDisk \/ DiskAnswered => UNCHANGED latest
  BY DEF StartDisk, SkipDisk, DiskAnswered
<1>4. NextPoll \/ RunReturns \/ Tick \/ Cancel \/ Quieten => UNCHANGED latest
  BY DEF NextPoll, RunReturns, Tick, Cancel, Quieten
<1>5. \A new : NodesChange(new) => UNCHANGED latest
  BY DEF NodesChange
<1>6. \A p, where : PodReplaced(p, where) => UNCHANGED latest
  BY DEF PodReplaced
<1>7. UNCHANGED vars => UNCHANGED latest
  BY DEF vars
<1> QED BY <1>1, <1>2, <1>3, <1>4, <1>5, <1>6, <1>7 DEF Next, PollGoroutine

-----------------------------------------------------------------------------
\* What New sets up satisfies the inductive invariant.
LEMMA InitEstablishes == Init => IInv
<1> SUFFICES ASSUME Init PROVE IInv
  OBVIOUS
<1>1. MP!IInv
  BY MetricsNames, MP!InitEstablishes, CollectorAssumption DEF Init, MP!MetricsAssumption
<1>2. DP!IInv
  BY DiskNames, DP!InitEstablishes, CollectorAssumption DEF Init, DP!DiskAssumption
<1>3. Open
  BY DEF Init, D!Init, Open
<1>4. LoopOK
  BY NoPodsType DEF Init, LoopOK, Stages
<1>5. SnapshotConsistent
  BY DEF Init, H!HubInit, SnapshotConsistent
<1> QED BY <1>1, <1>2, <1>3, <1>4, <1>5 DEF IInv

\* Every step keeps it.
LEMMA NextPreserves == IInv /\ [Next]_vars => IInv'
<1> SUFFICES ASSUME IInv, [Next]_vars PROVE IInv'
  OBVIOUS
<1>1. MP!IInv' /\ DP!IInv' /\ Open' /\ LoopOK'
  BY SignalsKept, LoopKept
<1>2. SnapshotConsistent'
  <2>1. CASE Publish
    BY <2>1, PublishConsistent DEF IInv
  <2>2. CASE ~Publish
    BY <2>2, LatestKept, OptionsFixed DEF IInv, SnapshotConsistent
  <2> QED BY <2>1, <2>2
<1> QED BY <1>1, <1>2 DEF IInv

\* The inductive invariant holds in every reachable state.
THEOREM Invariance == Spec => []IInv
  BY InitEstablishes, NextPreserves, PTL DEF Spec

\* Run, pollOnce: the poll goroutine, the two signals it asks and the cluster it
\* watches keep every variable within its type, and figures that a pod inherited
\* are always figures that are served.
THEOREM TypeCorrect == Spec => []TypeOK
<1>1. IInv => TypeOK
  BY MetricsFacts, DiskFacts DEF IInv, LoopOK, TypeOK
<1> QED BY <1>1, Invariance, PTL

\* pollOnce, publish: no snapshot contradicts itself, for any cluster and however
\* its changes, the ticker and the answers of both signals fall between the listing
\* of the nodes and the publishing of the snapshot.
THEOREM SnapshotsConsistent == Spec => []SnapshotConsistent
<1>1. IInv => SnapshotConsistent
  BY DEF IInv
<1> QED BY <1>1, Invariance, PTL

\* pollOnce, currentMetrics, currentDisk: the poll loop runs each signal exactly as
\* its own module lets it run, so that what is shown of a signal on its own, one
\* step at a time, is true of it here.
THEOREM LoopRunsSignals == Spec => /\ M!Init /\ [][M!Next]_(M!vars)
                                   /\ D!Init /\ [][D!Next]_(D!vars)
<1>1. Init => M!Init /\ D!Init
  BY DEF Init
<1>2. IInv /\ [Next]_vars => [M!Next]_(M!vars)
  <2>1. UNCHANGED mvars => UNCHANGED M!vars
    BY DEF mvars, M!vars
  <2> QED BY <2>1, MetricsSteps DEF M!Next
<1>3. IInv /\ [Next]_vars => [D!Next]_(D!vars)
  <2> SUFFICES ASSUME IInv, [Next]_vars PROVE [D!Next]_(D!vars)
    OBVIOUS
  <2>1. UNCHANGED dvars => UNCHANGED D!vars
    BY DEF dvars, D!vars
  <2>2. D!AskDisk(nodes) => D!Ask
    <3>1. nodes \in SUBSET Nodes /\ diskWorld = D!Unsettled
      BY DEF IInv, LoopOK, Open
    <3> QED BY <3>1 DEF D!Ask
  <2> QED BY <2>1, <2>2, DiskSteps DEF D!Next
<1> QED BY <1>1, <1>2, <1>3, Invariance, PTL DEF Spec

\* currentMetrics, currentDisk, with polls that fail, overlap ticks or find the
\* cluster empty: the collector as a whole sends at most one request that is
\* denied per forbiddenRetry to the metrics API, and per route to the nodes.
THEOREM CollectorDenialsSpaced == Spec => M!DenialsSpaced /\ D!DenialsSpaced
<1>1. IInv => [M!MetricsListFailed("forbidden") => sinceMetrics403 = forbiddenRetry]_(M!vars)
  BY CollectorAssumption
  DEF IInv, MP!IInv, MP!TypeOK, MP!ParkedSince403, MP!NotParkedWhileAsking, M!MetricsListFailed
<1>2. IInv => [\A outcome \in [asked -> D!Outcomes] :
                  /\ D!FallThrough(outcome) \/ D!Refreshed(outcome)
                  /\ D!Verdict(outcome).err = "forbidden"
                  => since403[diskAt] = forbiddenRetry]_(D!vars)
  BY DEF IInv, DP!IInv, DP!QuietDuring, DP!Waited, D!FallThrough, D!Refreshed
<1> QED BY <1>1, <1>2, Invariance, PTL DEF M!DenialsSpaced, D!DenialsSpaced

\* noteMetrics, currentDisk, inside the poll loop: however polls fail, overlap ticks
\* or are cancelled, each signal goes up and down only as the contract shared by both
\* lets it.
THEOREM SignalsKeepContract == Spec => M!KeepsContract /\ D!KeepsContract
<1> USE CollectorAssumption DEF MP!MetricsAssumption, DP!DiskAssumption
<1>1. Init => M!Contract!Init
  <2>1. Init => MP!Contract!Init
    BY MetricsNames, MP!ContractInit DEF Init
  <2> QED BY <2>1
          DEF MP!Contract!Init, M!Contract!Init, MP!Ages, M!Ages,
              MP!Contract!NoReason, M!Contract!NoReason
<1>2. Init => D!Contract!Init
  <2>1. Init => DP!Contract!Init
    BY DiskNames, DP!ContractInit DEF Init
  <2> QED BY <2>1
          DEF DP!Contract!Init, D!Contract!Init, DP!Ages, D!Ages,
              DP!Contract!NoReason, D!Contract!NoReason
<1>3. IInv /\ [Next]_vars => [M!Contract!Next]_(M!Contract!vars)
  <2>1. IInv /\ [Next]_vars => [MP!Contract!Next]_(MP!Contract!vars)
    <3>1. [Next]_vars => [MP!Next]_(MP!vars)
      BY MetricsSteps, MetricsNames, MetricsAnswers DEF MP!Next
    <3> QED BY <3>1, MP!ContractStep DEF IInv
  <2> QED BY <2>1
          DEF MP!Contract!Next, M!Contract!Next, MP!Contract!vars, M!Contract!vars,
              MP!Ages, M!Ages, MP!Contract!Succeed, M!Contract!Succeed,
              MP!Contract!Refuse, M!Contract!Refuse, MP!Contract!Survive, M!Contract!Survive,
              MP!Contract!Lose, M!Contract!Lose, MP!Contract!StayDown, M!Contract!StayDown,
              MP!Contract!NoReason, M!Contract!NoReason,
              MP!Contract!ReasonForbidden, M!Contract!ReasonForbidden,
              MP!Contract!ReasonAbsent, M!Contract!ReasonAbsent,
              MP!Contract!ReasonUnavailable, M!Contract!ReasonUnavailable
<1>4. IInv /\ [Next]_vars => [D!Contract!Next]_(D!Contract!vars)
  <2>1. IInv /\ [Next]_vars => [DP!Contract!Next]_(DP!Contract!vars)
    <3> SUFFICES ASSUME IInv, [Next]_vars PROVE [DP!Contract!Next]_(DP!Contract!vars)
      OBVIOUS
    <3>1. nodes \in SUBSET Nodes /\ diskWorld = DP!Unsettled
      BY DEF IInv, LoopOK, Open, D!Unsettled, DP!Unsettled, D!Routes, DP!Routes
    <3>2. [DP!Next]_(DP!vars)
      BY <3>1, DiskSteps, DiskNames, DiskAnswers DEF DP!Next, DP!Ask
    <3> QED BY <3>2, DP!ContractStep DEF IInv
  <2> QED BY <2>1
          DEF DP!Contract!Next, D!Contract!Next, DP!Contract!vars, D!Contract!vars,
              DP!Ages, D!Ages, DP!Contract!Succeed, D!Contract!Succeed,
              DP!Contract!Refuse, D!Contract!Refuse, DP!Contract!Survive, D!Contract!Survive,
              DP!Contract!Lose, D!Contract!Lose, DP!Contract!StayDown, D!Contract!StayDown,
              DP!Contract!NoReason, D!Contract!NoReason,
              DP!Contract!ReasonForbidden, D!Contract!ReasonForbidden,
              DP!Contract!ReasonAbsent, D!Contract!ReasonAbsent,
              DP!Contract!ReasonUnavailable, D!Contract!ReasonUnavailable
<1> QED BY <1>1, <1>2, <1>3, <1>4, Invariance, PTL
        DEF Spec, M!KeepsContract, D!KeepsContract, M!Contract!Spec, D!Contract!Spec

-----------------------------------------------------------------------------
\* The settled cluster: the half of ClusterGetsShown that needs no fairness.

\* What the poll under way has listed is the cluster as it is now.
ListedNow == /\ at \in {"pods", "metrics", "disk", "publish"} => nodes = cluster
             /\ at \in {"metrics", "disk", "publish"} => pods = placement

\* The cluster has stopped changing, the poll under way did not begin before it
\* did, and no figure of a predecessor is left.
Converged == quiet /\ inherited = {} /\ ListedNow

\* A cluster that has settled stays as it is.
LEMMA QuietStays == quiet /\ [Next]_vars => quiet' /\ UNCHANGED <<cluster, placement>>
<1> SUFFICES ASSUME quiet, [Next]_vars PROVE quiet' /\ UNCHANGED <<cluster, placement>>
  OBVIOUS
<1> USE DEF cvars
<1>1. CASE CachesSynced \/ SyncGivenUp \/ ListNodes \/ ListPods \/ PollFails
  BY <1>1 DEF CachesSynced, SyncGivenUp, ListNodes, ListPods, PollFails
<1>2. CASE StartMetrics \/ SkipMetrics \/ MetricsAnswered
  BY <1>2 DEF StartMetrics, SkipMetrics, MetricsAnswered
<1>3. CASE StartDisk \/ SkipDisk \/ DiskAnswered \/ Publish
  BY <1>3 DEF StartDisk, SkipDisk, DiskAnswered, Publish
<1>4. CASE NextPoll \/ RunReturns \/ Tick \/ Cancel
  BY <1>4 DEF NextPoll, RunReturns, Tick, Cancel
<1>5. ~Quieten /\ (\A new : ~NodesChange(new)) /\ (\A p, where : ~PodReplaced(p, where))
  BY DEF Quieten, NodesChange, PodReplaced
<1>6. CASE UNCHANGED vars
  BY <1>6 DEF vars
<1> QED BY <1>1, <1>2, <1>3, <1>4, <1>5, <1>6 DEF Next, PollGoroutine

\* Once the figures of predecessors are gone none come back.
LEMMA NoneInherited == quiet /\ inherited = {} /\ [Next]_vars => inherited' = {}
<1> SUFFICES ASSUME quiet, inherited = {}, [Next]_vars PROVE inherited' = {}
  OBVIOUS
<1> USE DEF cvars
<1>1. CASE CachesSynced \/ SyncGivenUp \/ ListNodes \/ ListPods \/ PollFails
  BY <1>1 DEF CachesSynced, SyncGivenUp, ListNodes, ListPods, PollFails
<1>2. CASE StartMetrics \/ SkipMetrics
  BY <1>2 DEF StartMetrics, SkipMetrics
<1>3. CASE MetricsAnswered
  BY <1>3 DEF MetricsAnswered
<1>4. CASE StartDisk \/ SkipDisk \/ DiskAnswered \/ Publish
  BY <1>4 DEF StartDisk, SkipDisk, DiskAnswered, Publish
<1>5. CASE NextPoll \/ RunReturns \/ Tick \/ Cancel
  BY <1>5 DEF NextPoll, RunReturns, Tick, Cancel
<1>6. ~Quieten /\ (\A new : ~NodesChange(new)) /\ (\A p, where : ~PodReplaced(p, where))
  BY DEF Quieten, NodesChange, PodReplaced
<1>7. CASE UNCHANGED vars
  BY <1>7 DEF vars
<1> QED BY <1>1, <1>2, <1>3, <1>4, <1>5, <1>6, <1>7 DEF Next, PollGoroutine

\* Every poll of a settled cluster lists it as it is.
LEMMA ListedStays == quiet /\ ListedNow /\ [Next]_vars => ListedNow'
<1> SUFFICES ASSUME quiet, ListedNow, [Next]_vars PROVE ListedNow'
  OBVIOUS
<1>0. UNCHANGED <<cluster, placement>>
  BY QuietStays
<1> USE DEF Goto, locals, ListedNow
<1>1. CASE CachesSynced \/ SyncGivenUp \/ NextPoll \/ RunReturns \/ PollFails \/ Publish
  BY <1>1 DEF CachesSynced, SyncGivenUp, NextPoll, RunReturns, PollFails, Publish
<1>2. CASE ListNodes
  BY <1>0, <1>2 DEF ListNodes
<1>3. CASE ListPods
  BY <1>0, <1>3 DEF ListPods
<1>4. CASE StartMetrics \/ SkipMetrics
  BY <1>0, <1>4 DEF StartMetrics, SkipMetrics
<1>5. CASE MetricsAnswered
  <2>1. at = "metrics" /\ at' \in {"metrics", "disk"} /\ UNCHANGED <<nodes, pods>>
    BY <1>5 DEF MetricsAnswered
  <2> QED BY <1>0, <2>1
<1>6. CASE StartDisk \/ SkipDisk
  BY <1>0, <1>6 DEF StartDisk, SkipDisk
<1>7. CASE DiskAnswered
  <2>1. at = "disk" /\ at' \in {"disk", "publish"} /\ UNCHANGED <<nodes, pods>>
    BY <1>7 DEF DiskAnswered
  <2> QED BY <1>0, <2>1
<1>8. CASE Tick \/ Cancel
  BY <1>0, <1>8 DEF Tick, Cancel
<1>9. ~Quieten /\ (\A new : ~NodesChange(new)) /\ (\A p, where : ~PodReplaced(p, where))
  BY DEF Quieten, NodesChange, PodReplaced
<1>10. CASE UNCHANGED vars
  BY <1>0, <1>10 DEF vars
<1> QED BY <1>1, <1>2, <1>3, <1>4, <1>5, <1>6, <1>7, <1>8, <1>9, <1>10
        DEF Next, PollGoroutine

\* What a poll of a settled cluster publishes shows that cluster.
LEMMA PublishShows ==
    ASSUME LoopOK, Converged, [Next]_vars, Publish, "nodes" \notin DOMAIN NoSnap
    PROVE  ShowsCluster'
<1>1. /\ latest' = Snapshot /\ nodes = cluster /\ pods = placement
      /\ UNCHANGED <<cluster, placement>>
  BY QuietStays DEF Publish, H!publish, Goto, Converged, ListedNow
<1>2. {p \in Shown(pods) : pods[p] \in nodes} = {p \in Pods : placement[p] \in cluster}
  BY <1>1, CollectorAssumption DEF Shown, LoopOK
<1>3. /\ "nodes" \in DOMAIN latest'
      /\ latest'.nodes = nodes
      /\ latest'.pods = Only(pods, {p \in Shown(pods) : pods[p] \in nodes})
      /\ latest'.inherited = inherited \cap {p \in Shown(pods) : pods[p] \in nodes}
  BY <1>1 DEF Snapshot
<1> QED BY <1>1, <1>2, <1>3 DEF ShowsCluster, Converged, Only

\* Run, pollOnce, once the cluster has stopped changing: from the first poll that
\* began after that and finds no figure left of a pod's predecessor, every snapshot
\* published shows the cluster as it is, and no later failure, tick or cancellation
\* makes a snapshot that shows it give way to one that does not.  NoSnap is nil, not
\* a snapshot.
THEOREM ClusterShownForGood ==
    ASSUME "nodes" \notin DOMAIN NoSnap
    PROVE  Spec => /\ [](Converged /\ ShowsCluster => []ShowsCluster)
                   /\ [][Converged /\ Publish => ShowsCluster']_vars
<1>1. Converged /\ [Next]_vars => Converged'
  BY QuietStays, NoneInherited, ListedStays DEF Converged
<1>2. IInv /\ Converged /\ ShowsCluster /\ [Next]_vars => ShowsCluster'
  <2>1. ASSUME Converged, ShowsCluster, [Next]_vars, ~Publish PROVE ShowsCluster'
    BY <2>1, QuietStays, LatestKept DEF Converged, ShowsCluster, Only
  <2> QED BY <2>1, PublishShows DEF IInv
<1>3. IInv /\ [Next]_vars => [Converged /\ Publish => ShowsCluster']_vars
  BY PublishShows DEF IInv
<1> QED BY <1>1, <1>2, <1>3, Invariance, PTL DEF Spec

\* Figures a pod inherited are served, so the signal is up and within its streak.
LEMMA InheritedServed ==
    IInv /\ inherited # {} => metricsUp /\ metricsFailures < capFailThreshold
<1> SUFFICES ASSUME IInv, inherited # {} PROVE metricsUp /\ metricsFailures < capFailThreshold
  OBVIOUS
<1>1. lastPodUsage # MP!NoFigures
  BY DEF IInv, LoopOK, MP!NoFigures
<1>2. metricsUp
  BY <1>1 DEF IInv, MP!IInv, MP!DownMeansNothingServed
<1> QED BY <1>2 DEF IInv, MP!IInv, MP!UpBelowThreshold

\* Once pods are no longer replaced, a fetch that ends does away with inherited
\* figures or is one more failure.
LEMMA FetchWears ==
    ASSUME IInv, quiet, inherited # {}, MetricsAnswered, metricsAt' = "idle"
    PROVE  inherited' = {} \/ metricsFailures' = metricsFailures + 1
<1>0. /\ metricsUp /\ metricsFailures < capFailThreshold
      /\ metricsFailures \in Nat /\ capFailThreshold \in Nat
  <2>1. metricsFailures \in 0..capFailThreshold
    BY DEF IInv, MP!IInv, MP!TypeOK
  <2> QED BY <2>1, InheritedServed, CollectorAssumption
<1>1. M!Answered
  BY DEF MetricsAnswered
<1>2. \A S : ~M!NodeMetricsListed(S)
  BY DEF M!NodeMetricsListed
<1>3. ASSUME NEW S, M!PodMetricsListed(S) PROVE inherited' = {}
  <2>1. metricsAt = "pods" /\ metricsFailures' = 0 /\ metricsUp'
    BY <1>3 DEF M!PodMetricsListed, M!NoteSuccess
  <2> QED BY <2>1 DEF MetricsAnswered
<1>4. ASSUME NEW err, M!MetricsListFailed(err)
      PROVE  inherited' = {} \/ metricsFailures' = metricsFailures + 1
  <2>1. CASE M!NoteForbidden \/ M!NoteAbsent
    <3>1. ~metricsUp' /\ lastPodUsage' = M!NoFigures
      BY <2>1 DEF M!NoteForbidden, M!NoteAbsent
    <3>2. DOMAIN lastPodUsage' = {}
      BY <3>1 DEF M!NoFigures
    <3> QED BY <3>1, <3>2 DEF MetricsAnswered
  <2>2. CASE M!NoteTransient
    BY <1>0, <2>2 DEF M!NoteTransient
  <2> QED BY <1>4, <2>1, <2>2 DEF M!MetricsListFailed, M!NoteError
<1> QED BY <1>1, <1>2, <1>3, <1>4 DEF M!Answered

\* noteMetrics, as the poll loop joins usage to pods: figures of a pod's predecessor
\* are never served past capFailThreshold - 1 failed fetches, and once pods are no
\* longer replaced every fetch that ends either does away with them or brings the
\* streak one nearer to the threshold; nothing in between sets it back.
THEOREM InheritedWearsOff ==
    Spec => /\ [](inherited # {} => metricsUp /\ metricsFailures < capFailThreshold)
            /\ [][quiet /\ inherited # {} /\ MetricsAnswered /\ metricsAt' = "idle"
                     => inherited' = {} \/ metricsFailures' = metricsFailures + 1]_vars
            /\ [][~(MetricsAnswered /\ metricsAt' = "idle")
                     => UNCHANGED metricsFailures]_vars
<1>1. IInv /\ [Next]_vars =>
        [quiet /\ inherited # {} /\ MetricsAnswered /\ metricsAt' = "idle"
            => inherited' = {} \/ metricsFailures' = metricsFailures + 1]_vars
  BY FetchWears
<1>2. [Next]_vars => [~(MetricsAnswered /\ metricsAt' = "idle")
                         => UNCHANGED metricsFailures]_vars
  <2> SUFFICES ASSUME [Next]_vars, ~(MetricsAnswered /\ metricsAt' = "idle")
               PROVE  UNCHANGED metricsFailures
    OBVIOUS
  <2>1. M!AskMetrics \/ M!Tick \/ UNCHANGED mvars => UNCHANGED metricsFailures
    BY DEF M!AskMetrics, M!state, M!Tick, mvars
  <2>2. MetricsAnswered /\ metricsAt' # "idle" => UNCHANGED metricsFailures
    BY DEF MetricsAnswered, M!Answered, M!NodeMetricsListed, M!PodMetricsListed, M!MetricsListFailed, M!state
  <2> QED BY <2>1, <2>2, OnlyAnswersChange
<1> QED BY <1>1, <1>2, InheritedServed, Invariance, PTL DEF Spec

-----------------------------------------------------------------------------
(***************************************************************************)
(* A call of effectiveResources, which pollOnce makes for every pod, for   *)
(* pods of any size.  The scheduler's sums are recursive; the loops of the *)
(* code are the induction.  They are shown to solve the two equations one  *)
(* more element at a time, and every solution to agree with the running    *)
(* totals.                                                                 *)
(***************************************************************************)
\* The quantity init container k adds to the sidecars.
Sidecar(k) == IF initContainers[k].always THEN initContainers[k].quantity ELSE 0

\* What the scheduler's two recursive sums are: solutions of their equations.
TotalEq(g) == g = [n \in 0..Len(containers) |->
                     IF n = 0 THEN 0 ELSE g[n - 1] + containers[n]]
SideEq(g) == g = [k \in Phases |->
                    IF k = 1 THEN 0 ELSE g[k - 1] + Sidecar(k - 1)]

PodOK == /\ containers \in Seq(Quantities)
         /\ initContainers \in Seq(InitContainers)
         /\ i \in 0..Len(containers)
         /\ j \in 0..Len(initContainers)
         /\ sum \in Nat /\ side \in Nat /\ init \in Nat

\* The equations have a solution for what the loops have seen so far ...
TotalSolvable == \E f \in [0..i -> Nat] :
    \A n \in 0..i : f[n] = IF n = 0 THEN 0 ELSE f[n - 1] + containers[n]
SideSolvable == \E f \in [1..j + 1 -> Nat] :
    \A k \in 1..j + 1 : f[k] = IF k = 1 THEN 0 ELSE f[k - 1] + Sidecar(k - 1)

\* ... and of every solution the running totals say the following.
TotalSoFar == \A g : TotalEq(g) => g[i] = sum
SidecarsSoFar == \A g : SideEq(g) =>
    /\ g[j + 1] = side
    /\ \A k \in 1..j + 1 : g[k] \in Nat /\ g[k] <= side
    /\ \A k \in 1..j + 1 : (\A b \in k..j : ~initContainers[b].always) => g[k] = side
LargestSoFar ==
    /\ \A k \in 1..j : ~initContainers[k].always => initContainers[k].quantity <= init
    /\ init # 0 => \E k \in 1..j : /\ ~initContainers[k].always
                                   /\ initContainers[k].quantity = init
Returned == returned => /\ i = Len(containers) /\ j = Len(initContainers)
                        /\ result = Effective

PodInv == /\ PodOK /\ TotalSolvable /\ SideSolvable
          /\ TotalSoFar /\ SidecarsSoFar /\ LargestSoFar /\ Returned

LEMMA PodInit == CallInit => PodInv
<1> SUFFICES ASSUME CallInit PROVE PodInv OBVIOUS
<1>1. PodOK
  <2>1. ASSUME NEW S, NEW n, NEW s \in BoundedSeq(S, n) PROVE s \in Seq(S)
    <3>1. PICK m \in 0..n : s \in [1..m -> S] BY DEF BoundedSeq, SeqOf
    <3> QED BY <3>1
  <2>2. containers \in Seq(Quantities) /\ initContainers \in Seq(InitContainers)
    BY <2>1 DEF CallInit
  <2> QED BY <2>2 DEF CallInit, PodOK
<1>2. TotalSolvable /\ SideSolvable
  <2>1. [n \in 0..i |-> 0] \in [0..i -> Nat] /\ [k \in 1..j + 1 |-> 0] \in [1..j + 1 -> Nat]
    OBVIOUS
  <2>2. i = 0 /\ j = 0 BY DEF CallInit
  <2>3. \A n \in 0..i : n = 0 BY <2>2
  <2>4. \A k \in 1..j + 1 : k = 1 BY <2>2
  <2> QED BY <2>1, <2>3, <2>4 DEF TotalSolvable, SideSolvable
<1>3. TotalSoFar
  BY <1>1 DEF CallInit, TotalSoFar, TotalEq, PodOK
<1>4. SidecarsSoFar
  <2> SUFFICES ASSUME NEW g, SideEq(g)
               PROVE g[1] = 0
    BY <1>1 DEF CallInit, SidecarsSoFar, PodOK
  <2>1. 1 \in Phases BY <1>1 DEF PodOK, Phases
  <2> QED BY <2>1 DEF SideEq
<1>5. LargestSoFar /\ Returned
  BY DEF CallInit, LargestSoFar, Returned
<1> QED BY <1>1, <1>2, <1>3, <1>4, <1>5 DEF PodInv

LEMMA SidecarNat == 
    ASSUME PodOK, NEW k \in 1..Len(initContainers)
    PROVE  /\ Sidecar(k) \in Nat
           /\ initContainers[k].quantity \in Nat
           /\ initContainers[k].always \in BOOLEAN
<1>1. initContainers[k] \in InitContainers BY DEF PodOK
<1>2. /\ initContainers[k].quantity \in Quantities
      /\ initContainers[k].always \in BOOLEAN
  BY <1>1 DEF InitContainers
<1>3. initContainers[k].quantity \in Nat BY <1>2 DEF Quantities
<1> QED BY <1>2, <1>3 DEF Sidecar

LEMMA ContainerNat == 
    ASSUME PodOK, NEW k \in 1..Len(containers)
    PROVE  containers[k] \in Nat
<1>1. containers[k] \in Quantities BY DEF PodOK
<1> QED BY <1>1 DEF Quantities

LEMMA PodAddContainer == PodInv /\ AddContainer => PodInv'
<1> SUFFICES ASSUME PodInv, AddContainer PROVE PodInv' OBVIOUS
<1> USE DEF AddContainer, spec
<1>0. PodOK BY DEF PodInv
<1>a. i + 1 \in 1..Len(containers) /\ i \in Nat BY <1>0 DEF PodOK
<1>b. containers[i + 1] \in Nat BY <1>0, <1>a, ContainerNat
<1>1. PodOK' BY <1>0, <1>b DEF PodOK
<1>2. TotalSolvable'
  <2>1. PICK f \in [0..i -> Nat] :
                  \A n \in 0..i : f[n] = IF n = 0 THEN 0 ELSE f[n - 1] + containers[n]
    BY DEF PodInv, TotalSolvable
  <2> DEFINE h == [n \in 0..i + 1 |-> IF n = i + 1 THEN f[i] + containers[i + 1] ELSE f[n]]
  <2>2. f[i] \in Nat BY <1>a
  <2>3. h \in [0..i + 1 -> Nat] BY <1>a, <1>b, <2>2
  <2>4. \A n \in 0..i + 1 : h[n] = IF n = 0 THEN 0 ELSE h[n - 1] + containers[n]
    BY <1>a, <2>1
  <2>5. \E f2 \in [0..i' -> Nat] :
           \A n \in 0..i' : f2[n] = IF n = 0 THEN 0 ELSE f2[n - 1] + containers[n]
    BY <2>3, <2>4
  <2> QED BY <2>5 DEF TotalSolvable
<1>6. SideSolvable' BY DEF PodInv, SideSolvable, Sidecar
<1>3. TotalSoFar'
  <2> SUFFICES ASSUME NEW g, TotalEq(g) PROVE g[i + 1] = sum + containers[i + 1]
    BY DEF TotalSoFar, TotalEq
  <2>1. g[i] = sum BY DEF PodInv, TotalSoFar
  <2>2. g[i + 1] = g[i] + containers[i + 1]
    <3> DEFINE F(n) == IF n = 0 THEN 0 ELSE g[n - 1] + containers[n]
    <3>1. g = [n \in 0..Len(containers) |-> F(n)] BY DEF TotalEq
    <3>2. i + 1 \in 0..Len(containers) /\ i + 1 # 0 /\ (i + 1) - 1 = i BY <1>a
    <3>3. g[i + 1] = F(i + 1) BY ONLY <3>1, <3>2
    <3> QED BY <3>2, <3>3
  <2> QED BY <2>1, <2>2
<1>4. SidecarsSoFar' 
  BY DEF PodInv, SidecarsSoFar, SideEq, Sidecar, Phases
<1>5. LargestSoFar' /\ Returned' 
  BY <1>a, <1>0 DEF PodInv, LargestSoFar, Returned, PodOK
<1> QED BY <1>1, <1>2, <1>3, <1>4, <1>5, <1>6 DEF PodInv

LEMMA PodAddInitContainer == PodInv /\ AddInitContainer => PodInv'
<1> SUFFICES ASSUME PodInv, AddInitContainer PROVE PodInv' OBVIOUS
<1> DEFINE c == initContainers[j + 1]
<1>0. PodOK BY DEF PodInv
<1>s. /\ i = Len(containers) /\ j < Len(initContainers) /\ j' = j + 1
      /\ UNCHANGED <<containers, initContainers, i, sum, result, returned>>
  BY DEF AddInitContainer, spec
<1>a. j + 1 \in 1..Len(initContainers) /\ j \in Nat BY <1>0, <1>s DEF PodOK
<1>b. c.quantity \in Nat /\ c.always \in BOOLEAN /\ Sidecar(j + 1) \in Nat
  BY <1>0, <1>a, SidecarNat
<1>e. /\ c.always => side' = side + c.quantity /\ init' = init
      /\ ~c.always => init' = BiggerOf(init, c.quantity) /\ side' = side
  BY DEF AddInitContainer
<1>c. side' = side + Sidecar(j + 1) /\ side \in Nat /\ init \in Nat
  BY <1>0, <1>b, <1>e DEF Sidecar, PodOK
<1>d. init' = IF c.always THEN init ELSE IF init >= c.quantity THEN init ELSE c.quantity
  BY <1>b, <1>e DEF BiggerOf
<1> HIDE DEF c
<1>1. PodOK' BY <1>0, <1>s, <1>b, <1>c, <1>d DEF PodOK
<1>2. SideSolvable'
  <2>1. PICK f \in [1..j + 1 -> Nat] :
          \A k \in 1..j + 1 : f[k] = IF k = 1 THEN 0 ELSE f[k - 1] + Sidecar(k - 1)
    BY DEF PodInv, SideSolvable
  <2> DEFINE h == [k \in 1..j + 2 |-> IF k = j + 2 THEN f[j + 1] + Sidecar(j + 1) ELSE f[k]]
  <2>2. f[j + 1] \in Nat BY <1>a
  <2>3. h \in [1..j + 2 -> Nat] BY <1>a, <1>b, <2>2
  <2>4. \A k \in 1..j + 2 : h[k] = IF k = 1 THEN 0 ELSE h[k - 1] + Sidecar(k - 1)
    <3> SUFFICES ASSUME NEW k \in 1..j + 2, k # 1
                 PROVE  h[k] = h[k - 1] + Sidecar(k - 1)
      BY <1>a, <2>1
    <3>1. CASE k = j + 2
      <4>1. h[j + 2] = f[j + 1] + Sidecar(j + 1) /\ h[j + 1] = f[j + 1] BY <1>a
      <4> QED BY <3>1, <4>1, <1>a
    <3>2. CASE k \in 1..j + 1
      <4>1. k - 1 \in 1..j + 1 /\ k # j + 2 /\ k - 1 # j + 2 BY <3>2, <1>a
      <4>2. h[k] = f[k] /\ h[k - 1] = f[k - 1] BY <4>1, <3>2, <1>a
      <4> QED BY <4>2, <3>2, <2>1
    <3> QED BY <3>1, <3>2, <1>a
  <2>5. j' + 1 = j + 2 BY <1>s, <1>a
  <2>6. \E f2 \in [1..j' + 1 -> Nat] :
           \A k \in 1..j' + 1 : f2[k] = IF k = 1 THEN 0 ELSE f2[k - 1] + Sidecar(k - 1)
    BY <2>3, <2>4, <2>5
  <2> QED BY <2>6, <1>s DEF SideSolvable, Sidecar
<1>7. TotalSolvable' BY <1>s DEF PodInv, TotalSolvable
<1>3. TotalSoFar' BY <1>s DEF PodInv, TotalSoFar, TotalEq
<1>4. SidecarsSoFar'
  <2> SUFFICES ASSUME NEW g, SideEq(g)
               PROVE  /\ g[j' + 1] = side'
                      /\ \A k \in 1..j' + 1 : g[k] \in Nat /\ g[k] <= side'
                      /\ \A k \in 1..j' + 1 : (\A b \in k..j' : ~initContainers[b].always)
                            => g[k] = side'
    BY <1>s DEF SidecarsSoFar, SideEq, Sidecar, Phases
  <2>1. /\ g[j + 1] = side
        /\ \A k \in 1..j + 1 : g[k] \in Nat /\ g[k] <= side
        /\ \A k \in 1..j + 1 : (\A b \in k..j : ~initContainers[b].always) => g[k] = side
    BY DEF PodInv, SidecarsSoFar
  <2>2. g[j + 2] = g[j + 1] + Sidecar(j + 1)
    <3> DEFINE F(k) == IF k = 1 THEN 0 ELSE g[k - 1] + Sidecar(k - 1)
    <3>1. g = [k \in Phases |-> F(k)] BY DEF SideEq
    <3>2. j + 2 \in Phases /\ j + 2 # 1 /\ (j + 2) - 1 = j + 1
      BY <1>a, <1>0 DEF Phases, PodOK
    <3>3. g[j + 2] = F(j + 2) BY ONLY <3>1, <3>2
    <3> QED BY <3>2, <3>3
  <2>3. j' + 1 = j + 2 /\ j' = j + 1 BY <1>s, <1>a
  <2>4. g[j + 2] = side' BY <2>1, <2>2, <1>c
  <2>5. side <= side' /\ side' \in Nat BY <1>b, <1>c
  <2>6. ASSUME NEW k \in 1..j' + 1 PROVE g[k] \in Nat /\ g[k] <= side'
    <3>1. CASE k = j + 2 BY <3>1, <2>4, <2>5
    <3>2. CASE k \in 1..j + 1 BY <3>2, <2>1, <2>5, <1>c
    <3> QED BY <3>1, <3>2, <2>3, <1>a
  <2>7. ASSUME NEW k \in 1..j' + 1, \A b \in k..j' : ~initContainers[b].always
        PROVE  g[k] = side'
    <3>1. CASE k = j + 2 BY <3>1, <2>4
    <3>2. CASE k \in 1..j + 1
      <4>1. j + 1 \in k..j' /\ \A b \in k..j : b \in k..j' BY <3>2, <2>3, <1>a
      <4>2. Sidecar(j + 1) = 0 BY <4>1, <2>7 DEF Sidecar
      <4>3. g[k] = side BY <4>1, <2>7, <3>2, <2>1
      <4> QED BY <4>2, <4>3, <1>c
    <3> QED BY <3>1, <3>2, <2>3, <1>a
  <2> QED BY <2>3, <2>4, <2>6, <2>7
<1>5. LargestSoFar'
  <2>1. \A k \in 1..j' : k = j + 1 \/ k \in 1..j BY <1>s, <1>a
  <2>2. \A k \in 1..j + 1 : k \in 1..j' BY <1>s
  <2>3. \A k \in 1..j : k \in 1..j' /\ initContainers[k].quantity \in Nat
    BY <1>s, <1>a, <1>0, SidecarNat
  <2>4. /\ \A k \in 1..j : ~initContainers[k].always => initContainers[k].quantity <= init
        /\ init # 0 => \E k \in 1..j : /\ ~initContainers[k].always
                                       /\ initContainers[k].quantity = init
    BY DEF PodInv, LargestSoFar
  <2>5. init <= init' /\ init' \in Nat BY <1>b, <1>c, <1>d
  <2>6. ASSUME NEW k \in 1..j', ~initContainers[k].always
        PROVE  initContainers[k].quantity <= init'
    <3>1. CASE k = j + 1 BY <3>1, <2>6, <1>b, <1>c, <1>d DEF c
    <3>2. CASE k \in 1..j BY <3>2, <2>6, <2>3, <2>4, <2>5, <1>c
    <3> QED BY <3>1, <3>2, <2>1
  <2>7. ASSUME init' # 0
        PROVE  \E k \in 1..j' : ~initContainers[k].always /\ initContainers[k].quantity = init'
    <3>1. CASE init' = init BY <3>1, <2>7, <2>3, <2>4
    <3>2. CASE init' # init
      <4>1. ~c.always /\ init' = c.quantity BY <3>2, <1>d
      <4>2. j + 1 \in 1..j' BY <2>2, <1>a
      <4> QED BY <4>1, <4>2 DEF c
    <3> QED BY <3>1, <3>2
  <2> QED BY <2>6, <2>7, <1>s DEF LargestSoFar
<1>6. Returned'
  <2>1. ~returned BY <1>s, <1>a, <1>0 DEF PodInv, Returned, PodOK
  <2> QED BY <2>1, <1>s DEF Returned
<1> QED BY <1>1, <1>2, <1>3, <1>4, <1>5, <1>6, <1>7 DEF PodInv

LEMMA PodUnchanged ==
    ASSUME PodInv, UNCHANGED <<containers, initContainers, i, j, sum, side, init>>
    PROVE  (/\ PodOK /\ TotalSolvable /\ SideSolvable
            /\ TotalSoFar /\ SidecarsSoFar /\ LargestSoFar)'
<1>1. PodOK' BY DEF PodInv, PodOK
<1>2. TotalSolvable' BY DEF PodInv, TotalSolvable
<1>6. SideSolvable' BY DEF PodInv, SideSolvable, Sidecar
<1>3. TotalSoFar' BY DEF PodInv, TotalSoFar, TotalEq
<1>4. SidecarsSoFar' BY DEF PodInv, SidecarsSoFar, SideEq, Sidecar, Phases
<1>5. LargestSoFar' BY DEF PodInv, LargestSoFar
<1> QED BY <1>1, <1>2, <1>3, <1>4, <1>5, <1>6

LEMMA PodNext == PodInv /\ [CallNext]_call => PodInv'
<1> SUFFICES ASSUME PodInv, [CallNext]_call PROVE PodInv' OBVIOUS
<1>1. CASE AddContainer BY <1>1, PodAddContainer
<1>2. CASE AddInitContainer BY <1>2, PodAddInitContainer
<1>3. CASE Return
  <2>1. Returned' BY <1>3 DEF Return, spec, Returned, Effective
  <2> QED BY <1>3, <2>1, PodUnchanged DEF Return, spec, PodInv
<1>4. CASE UNCHANGED call
  <2>1. Returned' BY <1>4 DEF call, Returned, Effective, PodInv
  <2> QED BY <1>4, <2>1, PodUnchanged DEF call, PodInv
<1> QED BY <1>1, <1>2, <1>3, <1>4 DEF CallNext

\* The recursive sums satisfy their equations once the loops have ended.
LEMMA SumsDefined ==
    ASSUME PodInv, i = Len(containers), j = Len(initContainers)
    PROVE  TotalEq(TotalOf) /\ SideEq(SidecarsBefore)
<1>1. PICK f \in [0..i -> Nat] :
        \A n \in 0..i : f[n] = IF n = 0 THEN 0 ELSE f[n - 1] + containers[n]
  BY DEF PodInv, TotalSolvable
<1>2. TotalEq(f) BY <1>1 DEF TotalEq
<1>3. TotalOf = CHOOSE g : TotalEq(g) BY DEF TotalOf, TotalEq
<1>4. PICK h \in [1..j + 1 -> Nat] :
        \A k \in 1..j + 1 : h[k] = IF k = 1 THEN 0 ELSE h[k - 1] + Sidecar(k - 1)
  BY DEF PodInv, SideSolvable
<1>5. SideEq(h) BY <1>4 DEF SideEq, Phases
<1>6. SidecarsBefore = CHOOSE g : SideEq(g) BY DEF SidecarsBefore, SideEq, Sidecar
<1>7. TotalEq(TotalOf) BY <1>2, <1>3
<1>8. SideEq(SidecarsBefore) BY <1>5, <1>6
<1> QED BY <1>7, <1>8

LEMMA PodCovered == PodInv => CoversEveryPhase
<1> SUFFICES ASSUME PodInv, returned PROVE
        /\ \A k \in Phases : result >= Phase(k)
        /\ SidecarsFirst => SchedulerReserves(result)
  BY DEF CoversEveryPhase
<1> DEFINE S == SidecarsBefore
           n == Len(initContainers)
<1>0. PodOK BY DEF PodInv
<1>1. i = Len(containers) /\ j = n /\ result = Effective BY DEF PodInv, Returned
<1>2. n \in Nat /\ sum \in Nat /\ side \in Nat /\ init \in Nat
  BY <1>0 DEF PodOK
<1>3. result = (IF sum >= init THEN sum + side ELSE init + side) /\ result \in Nat
  BY <1>1, <1>2 DEF Effective, BiggerOf
<1>4. TotalOf[Len(containers)] = sum
  BY <1>1, SumsDefined DEF PodInv, TotalSoFar
<1>5. /\ S[n + 1] = side
      /\ \A k \in 1..n + 1 : S[k] \in Nat /\ S[k] <= side
      /\ \A k \in 1..n + 1 : (\A b \in k..n : ~initContainers[b].always) => S[k] = side
  BY <1>1, SumsDefined DEF PodInv, SidecarsSoFar
<1>6. SideEq(S) BY <1>1, SumsDefined
<1>7. Phase(n + 1) = side + sum
  BY <1>2, <1>4, <1>5 DEF Phase
<1>8. \A k \in 1..n : Phase(k) = S[k] + initContainers[k].quantity
  BY <1>2 DEF Phase
<1>9. \A k \in 1..n : initContainers[k].quantity \in Nat /\ initContainers[k].always \in BOOLEAN
  BY <1>0, SidecarNat
<1>10. /\ \A k \in 1..n : ~initContainers[k].always => initContainers[k].quantity <= init
       /\ init # 0 => \E k \in 1..n : /\ ~initContainers[k].always
                                      /\ initContainers[k].quantity = init
  BY <1>1 DEF PodInv, LargestSoFar
<1>11. \A k \in Phases : k = n + 1 \/ k \in 1..n
  BY <1>2 DEF Phases
<1>12. /\ n + 1 \in Phases
       /\ \A k \in 1..n : /\ k \in Phases /\ k + 1 \in Phases
                          /\ k \in 1..n + 1 /\ k + 1 \in 1..n + 1
  BY <1>2 DEF Phases
<1>13. ASSUME NEW k \in 1..n, initContainers[k].always
       PROVE  S[k + 1] = S[k] + initContainers[k].quantity
  <2> DEFINE F(m) == IF m = 1 THEN 0 ELSE S[m - 1] + Sidecar(m - 1)
  <2>1. S = [m \in Phases |-> F(m)] BY <1>6 DEF SideEq
  <2>2. k + 1 # 1 /\ (k + 1) - 1 = k BY <1>2
  <2>3. S[k + 1] = F(k + 1) BY ONLY <2>1, <1>12
  <2> QED BY <2>2, <2>3, <1>13 DEF Sidecar
<1> HIDE DEF S, n
<1>14. ASSUME NEW k \in Phases PROVE result >= Phase(k)
  <2>1. CASE k = n + 1 BY <2>1, <1>7, <1>3, <1>2
  <2>2. CASE k \in 1..n /\ initContainers[k].always
    <3>1. S[k + 1] = S[k] + initContainers[k].quantity BY <2>2, <1>13
    <3>2. S[k + 1] <= side /\ S[k] \in Nat /\ S[k + 1] \in Nat BY <2>2, <1>5, <1>12
    <3>3. Phase(k) = S[k + 1] BY <2>2, <1>8, <3>1
    <3>4. side <= result BY <1>2, <1>3
    <3> QED BY <3>2, <3>3, <3>4, <1>2, <1>3
  <2>3. CASE k \in 1..n /\ ~initContainers[k].always
    <3>1. initContainers[k].quantity <= init /\ initContainers[k].quantity \in Nat
      BY <2>3, <1>9, <1>10
    <3>2. S[k] <= side /\ S[k] \in Nat BY <2>3, <1>5, <1>12
    <3>3. Phase(k) = S[k] + initContainers[k].quantity BY <2>3, <1>8
    <3>4. init + side <= result BY <1>2, <1>3
    <3> QED BY <3>1, <3>2, <3>3, <3>4, <1>2, <1>3
  <2> QED BY <2>1, <2>2, <2>3, <1>11
<1>15. ASSUME SidecarsFirst PROVE \E k \in Phases : result = Phase(k)
  <2>1. CASE sum >= init
    <3>1. result = Phase(n + 1) BY <2>1, <1>3, <1>7, <1>2
    <3> QED BY <3>1, <1>12
  <2>2. CASE ~(sum >= init)
    <3>1. init # 0 BY <2>2, <1>2
    <3>2. PICK k \in 1..n : ~initContainers[k].always /\ initContainers[k].quantity = init
      BY <3>1, <1>10
    <3>3. \A b \in k..n : ~initContainers[b].always
      BY <1>15, <3>2, <1>0, <1>2 DEF SidecarsFirst, n, PodOK
    <3>4. S[k] = side BY <3>3, <1>5, <1>12
    <3>5. result = Phase(k) BY <2>2, <3>2, <3>4, <1>3, <1>8, <1>2
    <3> QED BY <3>5, <1>12
  <2> QED BY <2>1, <2>2
<1> QED BY <1>14, <1>15 DEF SchedulerReserves


\* effectiveResources, called by pollOnce: for pods of any number of containers
\* and init containers, in any order and of any quantities, no phase of the pod
\* needs more than what is computed; and where the sidecars come first, some phase
\* needs just that, which is what the scheduler reserves.
THEOREM PodsCovered == CallSpec => []CoversEveryPhase
<1>1. CallSpec => []PodInv
  BY PodInit, PodNext, PTL DEF CallSpec
<1> QED BY <1>1, PodCovered, PTL
=============================================================================
