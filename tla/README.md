# kshows: a TLA+ model

kshows shows a Kubernetes cluster as a map: a Go server collects what the nodes
and pods reserve and use, and a page in the browser draws it.  This directory
models the parts of it whose correctness depends on order, failure and time,
checks them with TLC on small instances, and proves their safety properties for
every instance with TLAPS.

    tlc -workers 2 -config MCMetricsSignal.cfg MCMetricsSignal
    tlapm MetricsSignalProofs.tla

`PROJECT.json` maps every definition to the lines it models and lists the runs,
the mutants that each property rejects, the hazards and the findings.


## The system

| part | state | operations | talks to |
|---|---|---|---|
| metrics signal (`collector.go`) | up or down, reason, failure streak, park until, last figures | `currentMetrics`, `fetchMetrics`, `noteMetrics` | metrics API, two list requests per fetch |
| disk signal (`collector.go`, `disk.go`) | the same, plus the time of the last refresh and the route settled on | `currentDisk`, `fetchDisk` | kubelets, directly or through the API server |
| fan-out (`disk.go`) | results, error, semaphore, mutex, WaitGroup | `fanOut` and one goroutine per node | the two route functions |
| poll loop (`collector.go`) | the locals of a poll, the ticker | `Run`, `poll`, `pollOnce` | informer caches, both signals, `publish` |
| hub (`collector.go`, same code in `mock.go`) | latest snapshot, one-slot channels | `publish`, `Latest`, `Subscribe`, cancel | poll loop on one side, handlers on the other |
| pod resources (`resources.go`) | none | `effectiveResources` | called for every pod |
| stream (`server.go`, `metrics.go`) | a goroutine per client, the `stream_clients` gauge | `handleStream` | hub, browser |
| endpoints (`server.go`, `metrics.go`) | the marshal cache: a snapshot pointer and its bytes | `handleSnapshot`, `handleCapabilities`, `handleReady`, the scrape collector, `marshalCache.bytes` | hub, browsers, probes, scrapers |
| page (`app.js`) | the snapshot, the view chosen, the drill-in, the cards | `bootstrap`, `apply`, `render`, clicks | snapshot endpoint, stream |
| process (`main.go`, `client.go`, `mock.go`) | flags, the signal context, the HTTP server | start, shutdown, exit | everything |
| chart (`charts/kshows`) | values | the flags it passes, the rules it grants | the process, the API server |

The poll goroutine is the only one that touches the signals.  It publishes under
a mutex; handlers run concurrently with it, one per client, and the page runs one
callback at a time in another process.

What is hard here: a fetch may fail half way, and failures, refusals and
recoveries come in any order; a denied signal has to be left alone and yet be
noticed again when the permission is granted; nodes answer a fan-out in any
order; the cluster changes between the steps of a poll; snapshots are published
while a handler subscribes; channels are full, clients stall and hang up;
addresses are reused under a cache keyed by pointers; answers and events reach
the page out of order.


## Modules

| module | models | composed of |
|---|---|---|
| `Model` | capabilities, reasons; figures, abstracted to their age | |
| `Capability` | abstract: what an optional signal promises | `Model` |
| `MetricsSignal` | the CPU/RAM signal | implements `Capability` |
| `FanOutVerdict`, `FanOutContract` | abstract: the verdict on a fan-out, delivered once | |
| `DiskRoute` | how one node's read is classified; the TLS client for the kubelets | |
| `FanOut` | goroutines, semaphore, mutex, WaitGroup | implements `FanOutContract` |
| `DiskSignal` | the node disk signal, a fan-out in one step | implements `Capability` |
| `Hub` | latest snapshot and subscriptions | |
| `Collector` | the poll loop | `MetricsSignal`, `DiskSignal`, `Hub` |
| `Server` | the SSE handlers | `Hub` |
| `Endpoints` | the readers of the latest snapshot and the marshal cache, over a heap | |
| `EffectiveResources` | the resource computation and the scheduler's rule | |
| `WebClient` | the page | |
| `Lifecycle` | flags and chart values, start, goroutines, shutdown, exit | |
| `...Proofs` | the theorems about the module named first | that module; `CollectorProofs` also `MetricsSignalProofs`, `DiskSignalProofs` and `EffectiveResources` |

`MC*` modules only give constants their values.  Operators called `Mut...` are
single plausible mistakes in the operator that follows them; no specification
uses them.  Each is there to show that a property would notice.

### How state and actions correspond to the code

*Figures.*  The properties ask of a measurement only how old it is, so a map of
figures maps names to ages: the number of fetches of its signal that have failed
since it was measured.  `Measured` is what a fetch just answered, `Older` what a
survived failure leaves.

*Time.*  One tick is one poll interval.  Instants are kept as distances:
`metricsRetryAt` as `metricsRetryIn`, `lastDisk` as `sinceDisk`.  Both stop at
the limit beyond which the code compares them no further, and so do the failure
counters.  Time passes while a request is under way.

*Signals.*  Each case of the switch in `noteMetrics` and `currentDisk` is an
operator (`NoteSuccess`, `NoteForbidden`, `NoteAbsent`, `NoteTransient`).  The
two list requests of `fetchMetrics` are two steps; so are the two fan-outs of a
probe.  `metricsWorld` and `diskWorld` let the outside world settle on one kind
of answer, for the liveness properties; until then any answer is possible.  The
switches `metricsEnabled` and `diskMode` are chosen in `Init` and never change.

*Fan-out.*  Each synchronisation operation is an action.  The deferred calls run
last to first: unlock, free the slot, `wg.Done`.  `config` is the API server's
TLS configuration with `--kubelet-insecure-tls`; of it and of a kubelet's
certificate only what decides the handshake is kept: whether a CA is given,
whether verification is off, whether a name is pinned, who signed.

*Poll.*  `Collector` steps through `pollOnce`: nodes, pods, metrics, disk,
publish.  The cluster (what the informer caches hold) changes between any two
steps.  `Snapshot` is the join of what was gathered: pods of unlisted nodes are
dropped, figures without a pod or node are not looked up.  A pod that is pending,
terminal or absent is `"nowhere"`.  The ticker is
created after the first poll, and `ticker.C` holds one tick.  A pod may be
replaced by another of the same name at any moment; `inherited` remembers the
pods whose figures in `lastPodUsage` are still their predecessor's.  Until the
cluster is quiet the metrics API may lag too, and a fetch bring such figures back.

*Stream.*  `stage` follows `handleStream`; `uncount` and `cancel` are its
deferred calls.  Snapshots are generations; `MaxGen` stands for the `MaxGen`-th
or any later one, so publishing never has to stop.  A stalled client is one whose
write may block for ever.  A heartbeat that succeeds changes nothing, one that
fails ends the handler like the end of the request.

*Endpoints.*  `heap` maps addresses to the snapshot allocated there last, and an
address nobody points to may be allocated again.  A request reads the latest
snapshot in one step and goes on in later ones, during which snapshots are
published and other requests are served.  A client is somebody who makes one
request at a time.  A stream counts as two: the event its handler writes, and the
one waiting in its channel, hold a pointer each.

*Process.*  `main` is a sequence of steps, `run` the goroutine of the source,
`inShutdown` the flag that `srv.Shutdown` sets first.  `Exit` ends the process
from whichever goroutine calls it, and cuts the connections under way: `Shutdown`
would wait five seconds for them, but `ListenAndServe` returns at once, and `main`
with it.  `NewTicker` panics for an interval that is not positive.  The chart's
values determine the flags (`Args`) and the rules of the ClusterRole (`Granted`),
in two templates that have to agree.

*Page.*  A callback is a step and an `await` ends it.  `apply` and `render` are
modelled with their exceptions: looping over `null` pods throws, which leaves the
new snapshot in `state` and the old grid on the page.


## Runs

Every passing run reaches every action of its module.

| run | checks | states |
|---|---|---|
| `metrics` | `DownMeansNothingServed`, `UsageOfLastGoodFetch`, `DenialsSpaced`; implements `Capability` (`KeepsContract`); `ReportsTheWorld` | 1.6 k |
| `fanout` | `BoundedConcurrency`, `NoRaceOnResults`, `VerdictOnAnswers`, `ReadsTrustedKubelets`; implements `FanOutContract` (`DeliversVerdict`, with liveness) | 52 k |
| `disk` | `DiskOfLastGoodRefresh`, `DenialsSpaced` per route, `KeepsContract`, `ReportsTheWorld` | 27 k |
| `collector` | `SnapshotConsistent`, `ClusterGetsShown`, `RunEnds` | 156 k |
| `server` | `NothingLeaks`, `StepsBackAtMostOnce`, `CatchesUp`, `HandlerReturns` | 155 k |
| `endpoints` | `BytesOfOwnSnapshot`, `ReadsDoNotGoBack`, `EncodesBounded` | 449 k |
| `lifecycle` | `AsksWhatIsGranted`, `EndsOnlyAsTold`, `ExitsWhenTold`, `KeepsPublishing` | 82 k |
| `resources` | `CoversEveryPhase` | 20 k |
| `web` | `NoDataWithoutSignal`, `DrillIsOfShownNode`, `PageCatchesUp` | 165 k |

All but `resources`, which runs a pure function, also check their module's
`TypeOK`.  Three runs state what a comment
or the changelog says and TLC refutes:

| run | claim | what happens |
|---|---|---|
| `disk_route` | auto mode settles on a route that answered | a fan-out over an empty node cache counts as an answer of the kubelet route |
| `scheduler_exact` | resources are computed the way the scheduler does | sidecars declared after an init container are added to it too |
| `web_bare` | every node renders | a node without pods is sent with `"pods": null`, `apply` throws, the page keeps the old grid |

Disagreements that were seen and have no run of their own:

* `unavailable` stands for repeated failures (`model.go:76`), but one timeout
  after a 403 or a missing API is enough to report it (`collector.go:398`);
* a snapshot published after a first, transient disk failure reports `disk: true`
  before anything was delivered: the optimistic start, against `model.go:60`;
* handlers holding different snapshots evict each other from the marshal cache,
  so a snapshot may be encoded more than once (against `server.go:29`;
  `EncodesBounded` says how often);
* `Shutdown`'s five seconds are never used, because `main` does not wait for them;
* in-cluster credentials win over a `--kubeconfig` that was named
  (`restConfig`), although `values.yaml:48` suggests to pass one to the container;
* every node of the mock runs pods, so that a page developed against it
  (`--mock`) never meets what `web_bare` shows.

### What the properties say that is not obvious

* `UsageOfLastGoodFetch` ties the age of every figure served, of pods and of
  nodes, to the failure counter: there is one last good fetch, all figures are
  of it, and fewer than `capFailThreshold` fetches have failed since.
* `DenialsSpaced` of `DiskSignal` is about each route: a probe asks over two
  routes, one error is reported, and still neither route is denied twice within
  `forbiddenRetry`.  A fan-out that some node answered is a success, and a refusal
  by another of its nodes is not counted.
* `ReportsTheWorld` of `DiskSignal` promises nothing for a settled route that
  fails transiently for ever while the other would answer: auto mode documents
  that it sticks with its route.
* `ClusterGetsShown` includes figures: usage is joined to pods by name, so a pod
  that replaced another may be shown with what that one used.  Once pods are no
  longer replaced this passes, also when the metrics API fails from then on: the
  figures are renewed or dropped.
* `EncodesBounded`: with n clients a snapshot is encoded at most 2n - 1 times,
  however many requests there are, and TLC finds that number reached.
* `ReadsDoNotGoBack` is about one client that asks different endpoints one after
  the other.  Events of a stream are not bound by it, for the reason that follows.
* `StepsBackAtMostOnce` does not say that a stream is monotonic, because it is
  not: two snapshots published between `Subscribe` and `Latest` make the second
  event older than the first.  It never happens again on that stream.
* `PageCatchesUp` does not say that the page never goes back either: a fallback
  fetch may be overtaken by an event.  It says that the page ends up right.
* `EndsOnlyAsTold` allows two ends: the one that was asked for, and the panic of a
  poll interval that is not positive, which nobody checks.  The panic comes after
  exactly one snapshot, when the process has become ready, and with no other
  setting.  `KeepsPublishing` leaves such an interval out (`Steady`), and in its
  module a poll always publishes; failing polls are in `Collector`.
* `KeepsContract` is about when a capability goes down and comes back.  The contract
  starts optimistic and lets the reason of one that is down change at any failure,
  so it does not rule out the first two disagreements above; that both pass is
  `ReportsTheWorld`.
* `CoversEveryPhase` is about what containers ask for: for pods with neither
  `overhead` nor pod-level resources, which `effectiveResources` does not read, the
  result is what the scheduler reserves if the sidecars come first.
* `AsksWhatIsGranted` is about roles the chart creates; with roles made elsewhere
  (`rbac.create: false`) the chart passes the defaults.  `extraArgs`, with which a
  user may override any flag, are left out.

### Bounds

| run | bounds | why they are enough |
|---|---|---|
| `metrics` | 2 nodes, 2 pods, threshold 3, park 4 ticks | partial reports; a streak with a middle; a park longer than a fetch |
| `fanout` | 3 nodes, 2 slots, 4 TLS configurations | the loop has to wait for a slot while two goroutines compete for the mutex; a node without an address, one with addresses out of order, one with a certificate of its own making; no configuration, a pinned name with and without the flag, no verification |
| `disk` | 2 nodes (any subset listed), threshold 3, refresh 1, park 3 | partial answers, empty fan-outs, a park that spans refreshes |
| `collector` | 1 node, 1 pod, threshold 2, refresh 1, park 2 | a node and a pod that appear and vanish at every point of a poll; a failure survived and one that is not; the signals do not read each other's state, so each is on while the other is off; disk in kubelet mode, the routes of auto mode are checked in `disk` |
| `server` | a reader, a client that may stall, 4 generations | two publications between `Subscribe` and `Latest` and two after |
| `endpoints` | 2 clients, 5 addresses, 4 snapshots | the roots hold at most 4 addresses, so one is free and reused at once; two handlers on two snapshots, both older than the latest |
| `lifecycle` | 2 clients; all flags and values | `latest` counts to 2, the first snapshot and a later one; a request and a stream under way at exit |
| `resources` | 2 containers, 3 init containers, quantities 0 to 2 | every order of two sidecars and an init container, and of one sidecar and two |
| `web` | 2 nodes, 3 snapshots, 2 fetches at once | capabilities and nodes appearing and vanishing; overlapping fetches |

### Fairness

Weak fairness of a goroutine's steps stands for the Go scheduler and for the
10 s timeouts that end every request.  Strong fairness is assumed of one thing: a
`select` that keeps finding the same case ready takes it sooner or later, because
Go chooses at random (`RunReturns`, `SelectDone`).  A stalled client's write is
not fair.  In `Lifecycle` goroutines and the ticker are fair, and the caches sync
once the API server answers; nothing is assumed of clients, of signals or of the
API server's coming up.  Of the browser, timers and fetches are fair, and once the cluster has
settled the fetches of the page succeed; nothing is assumed of the EventSource.
Nothing obliges the world to settle: `ReportsTheWorld`, `ClusterGetsShown` and
`PageCatchesUp` speak of the behaviours in which it does.


## Proofs

Every component with state has a module `<component>Proofs`, which extends the
component's module and proves, for every value of the constants, the type
invariant, the safety invariants and the action properties its run checks.  Each
has the same outline: an inductive invariant `IInv`, lemmas about the operators,
a lemma per action or group of actions that it keeps `IInv`, `NextPreserves`,
`Invariance` (`Spec => []IInv`), and a theorem per property.

| module | theorems (of the property, where the name differs) |
|---|---|
| `MetricsSignalProofs` | `NothingServedWhileDown` (`DownMeansNothingServed`), `UsageIsOfOneFetch` (`UsageOfLastGoodFetch`), `OneDenialPerRetry` (`DenialsSpaced`), `MetricsKeepsContract` (refines `Capability`), `SaysSoForGood` and `NoFetchWasted` (towards `ReportsTheWorld`) |
| `FanOutProofs` | `RequestsBounded` (`BoundedConcurrency`), `ResultsRaceFree` (`NoRaceOnResults`), `VerdictIsOnAnswers` (`VerdictOnAnswers`), `TrustedKubeletsRead` (`ReadsTrustedKubelets`), `DeliversOneVerdict` (refines `FanOutContract`, without its liveness), `FanOutNeverStuck` and `FanOutBounded` (towards its liveness) |
| `DiskSignalProofs` | `FiguresOfLastGoodRefresh` (`DiskOfLastGoodRefresh`), `OneDenialPerRouteAndRetry` (`DenialsSpaced`), `DiskKeepsContract` (refines `Capability`), `SettlesOnAnswer` (`SettledRouteAnswered`, if every refresh asks some node), `SaysSoForGood` and `NoRefreshWasted` (towards `ReportsTheWorld`) |
| `CollectorProofs` | `SnapshotsConsistent` (`SnapshotConsistent`), `LoopRunsSignals` (refines `MetricsSignal` and `DiskSignal`, without their liveness), `CollectorDenialsSpaced` (`DenialsSpaced` of both, inside the loop), `SignalsKeepContract` (`KeepsContract` of both), `ClusterShownForGood` and `InheritedWearsOff` (towards `ClusterGetsShown`), `PodsCovered` (`CoversEveryPhase` of `EffectiveResources`) |
| `ServerProofs` | `HandlersLeaveNothing` (`NothingLeaks`), `OneStepBack` (`StepsBackAtMostOnce`) |
| `EndpointsProofs` | `PointerIsSafeKey` (`BytesOfOwnSnapshot`), `EndpointsAgree` (`ReadsDoNotGoBack`), `EncodesFewTimes` (`EncodesBounded`) |
| `LifecycleProofs` | `ServesUntilTold` (`EndsOnlyAsTold`), `ChartAsksWhatItGrants` (`AsksWhatIsGranted`), `ExitIsNear` (towards `ExitsWhenTold`) |
| `WebClientProofs` | `OffersOnlySignals` (`NoDataWithoutSignal`), `DrillFollowsPage` (`DrillIsOfShownNode`), `GridFollowsSnapshot` (`GridShowsSnapshot`), `CaughtUpForGood` (towards `PageCatchesUp`), all four without null pods |

All of them also prove `TypeCorrect` (`TypeOK`).  `effectiveResources` is called by
the poll loop, and the proofs about it are the last part of `CollectorProofs`.

### Assumptions

The constants are assumed to be what the code makes them: thresholds and
intervals positive (`MetricsAssumption`, `DiskAssumption`, `CollectorAssumption`;
a disk refresh is not rarer than the retry after a 403, as in the constants of
`collector.go`), sets of nodes, clients and addresses finite where they are
counted (`FanOutAssumption`, `ServerAssumption`, `EndpointsAssumption`), the
values that stand for "none" not among the others (`"nowhere"` is no node), and in `Endpoints` one address
more than can be pointed to, so that allocation never fails.  `Lifecycle` needs
no assumption.

`WebClientProofs` has one hypothesis besides `WebAssumption`: `NoBareNode`, no
snapshot has a node whose pods are `null`.  It cannot be dropped.  The run
`web_bare` shows the grid staying behind when there is one, and then the view may
follow one snapshot and the grid another.  The theorems say that this is the only
way; `TypeCorrect` holds without it.

`SettlesOnAnswer` is of the same kind.  Its hypothesis `[]AsksSomeNode` excludes
the empty node cache that the run `disk_route` ends in, and it says that nothing
else settles auto mode on a route nobody answered over.  `ClusterShownForGood` takes
`NoSnap`, which is nil in the code, not to be a record with the field `nodes`.

### The invariants

*`MetricsSignal`.*  `UpBelowThreshold`: a signal that is up has not completed its
streak, without which a survived failure could leave figures too old.
`ParkedSince403`: the time still parked and the time since the last 403 add up to
`forbiddenRetry`.  `NotParkedWhileAsking`: no fetch is under way while the signal
is parked.  The last two give `DenialsSpaced`: a request that is denied was under
way, so nothing was left of the park.

*`DiskSignal`.*  The code remembers when the last refresh ended and how it ended as
a whole, not which route was denied when.  `QuietBetween`: between refreshes every
route the next one may take was denied long ago, or not since the end of a refresh
that came to a 403.  `QuietDuring`: during one, the routes still to be asked have
waited, and a 403 of the kubelet probe is in `kubeletErr` until the end.

*`FanOut`.*  `CountInv` says what the counters count: the semaphore the goroutines
between their first and their last deferred call, the WaitGroup those started (and
the one about to be) that have not ended.  `SharedInv`: at any moment `results`,
`anyOK` and `lastErr` are the verdict on the goroutines that have had the mutex, so
the order in which they got it does not matter.  `HolderInv`: whoever holds the mutex
is about to write or to unlock, and so can run.

*`Collector`.*  Its invariant contains those of both signals, instantiated
(`MP!IInv`, `DP!IInv`).  Each step of the loop is a step of a signal or leaves it
alone (`MetricsSteps`, `DiskSteps`), so what was proved of a signal on its own is
cited, not proved again.  A snapshot is consistent when it is published because
the signals' results are; afterwards only `publish` replaces it, and the switches
it is compared with never change.  The run has one signal on at a time; here both
may be.

*`EffectiveResources`.*  The scheduler's sums are recursive functions, and the loops
of the code are the induction: after i containers and j init containers the sums up to
there exist (`TotalSolvable`, `SideSolvable`: one more element extends a solution of the
equation), and `sum`, `side` and `init` are what they say (`TotalSoFar`,
`SidecarsSoFar`, `LargestSoFar`).

*`Server`.*  `NothingLeaks` is inductive with the types.  `StepsBackAtMostOnce` is
not: `StreamOrder` follows a snapshot from `publish` through the channel and the
handler to the wire, and says from which event on each holds nothing older than
the next.

*`Endpoints`.*  `HeapInv` and `CacheInv` are pointer identity: no two addresses hold
the same generation, and what the cache points to is not reused, so the cache hits
exactly when it holds the bytes asked for.  `EncodeInv` is a potential: while a
snapshot is the newest, its encodings and the handlers that can still evict it
are at most the clients together; afterwards, every handler that is late with it
may cost one more.

*`Lifecycle`.*  Who has told whom: the server shuts down only when a signal has
come (`ShutdownIsTold`), only the Collector makes a ticker of the flag
(`MockSkips`), and only after the first of its polls (`OnePollFirst`, from
`OffUntilStarted`); a connection is cut by the end of the process only (`CutByTheEnd`).
`AskedInv`: each poll asked for one whole combination that the flags allow.

*`WebClient`.*  `PaintInv`: the grid is of the snapshot held, and before the first
one it is empty and the overlay hidden, although a drill-in from the URL may be
pending.

### Towards liveness

A liveness property has two parts.  That things go on at all rests on fairness, and
TLC checks it.  That going on leads there, and that nothing leads away again, does
not, and for most of these properties it is proved for every instance:

* *It stays so.*  `SaysSoForGood`: a signal that reports a settled world reports
  nothing else.  `ClusterShownForGood`: once the cluster has settled, the poll under
  way has listed it as it is and no figure is left of a pod's predecessor
  (`Converged`, which no step ends), every snapshot published shows the cluster.
  `CaughtUpForGood`: once the server has settled and no older answer or event is on
  its way (`Fresh`, which no step ends), the page that is up to date remains so.
* *It comes nearer.*  `NoFetchWasted`, `NoRefreshWasted`: every fetch or refresh of a
  settled world makes the signal report it, or makes the streak one longer that is
  bounded by `capFailThreshold`.  In auto mode there are two more ways a refresh may
  end: a denied route is given up, which happens once until the next probe, and a
  route that is settled on and unreachable stays in use, which is what
  `ReportsTheWorld` leaves out.  `InheritedWearsOff` says the same of the figures of
  replaced pods.  `FanOutBounded` and `ExitIsNear` are variants: steps left of a
  fan-out, and of the process once it has to end.
* *Somebody can run.*  `FanOutNeverStuck` states the guards, since `ENABLED` is out of
  the prover's reach.

### Left to TLC

Out of the prover's reach is liveness: `ReportsTheWorld`, the fairness part of
`DeliversVerdict`, `ClusterGetsShown`, `RunEnds`, `CatchesUp`, `HandlerReturns`,
`ExitsWhenTold`, `KeepsPublishing`, `PageCatchesUp`.  Of `CatchesUp`, `RunEnds`,
`HandlerReturns` and `KeepsPublishing` no part is proved: the first and the last need
a publisher that goes on, and a `select` may put off the end of a context any number
of times, so there is no variant.  Every other property of a passing run is proved.


## Not modelled

* `treemap.js`: a recursive layout whose areas and aspect ratios are real numbers;
  TLC has none, and a version over integers would be another algorithm.
* `format.js`, the SVG, colour and tooltip code of `app.js`: wording and drawing
  without state.
* The figures `mock.go` makes up: random numbers without a contract.  Its `Run` is
  in `Lifecycle`, its subscriptions are those of `Hub`.
* The counters and the histogram of `metrics.go`: they are only added to, and
  nothing in the program reads them.
* The client sets that `kube.New` makes: client-go.
* The byte figures, URLs and ports of `disk.go`, and the fields of nodes and pods
  that a snapshot copies (readiness, roles, allocatable, owners).
* The chart beyond its optional rules and the flags for them, the `Dockerfile`:
  declarations.


## Plan

In the order of importance; the first four are done.

1. `MetricsSignal` with its proofs, `FanOut`, `DiskSignal`, `Hub`, `Collector`,
   `Server`, `EffectiveResources`, `WebClient`.
2. `Endpoints` (the other readers of the snapshot, the scrape collector, the cost
   of the cache), `Lifecycle` (process and chart), the kubelet client, pods
   replaced under the same name.
3. Proofs of the safety properties of every component with state, the signals'
   invariants carried into the poll loop.
4. What of the liveness properties does not rest on fairness, and
   `effectiveResources` for pods of any size.
5. Collector, stream and page in one composition, refining the statement that the
   page comes to show the cluster; today `ClusterGetsShown`, `CatchesUp` and
   `PageCatchesUp` establish it link by link.
