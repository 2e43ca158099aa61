------------------------------ MODULE Lifecycle ------------------------------
(***************************************************************************)
(* The process: main of cmd/kshows with the goroutine of the source (the   *)
(* Collector's Run or the Mock's), the goroutine that shuts the HTTP       *)
(* server down, and requests under way when the process ends.  It starts   *)
(* with flags given by hand or with those the Helm chart passes, which     *)
(* are to match the permissions the chart grants.                          *)
(*                                                                         *)
(* What a poll does inside is module Collector, what a handler does        *)
(* modules Server and Endpoints: here a poll publishes a snapshot, and a   *)
(* request is answered or cut off.                                         *)
(***************************************************************************)
EXTENDS Naturals

CONSTANTS Clients, NoChart

VARIABLES
    chart,        \* the chart's values, or NoChart
    flags,        \* the command line
    credentials,  \* which are to be found: subset of Sources
    portFree,     \* can the listen address be bound?
    reachable,    \* does the API server answer? (it may start to)
    main,         \* where main is: "flags", "source", "start", "listen", "serve"
    run,          \* where the source's goroutine is
    told,         \* has SIGINT or SIGTERM arrived?
    inShutdown,   \* of the http.Server
    status,       \* "running", or how the process ended
    latest,       \* snapshots published: 0, 1, 2 or more
    asked,        \* history: optional permissions the polls made use of
    conn          \* client -> what it is doing

world   == <<chart, flags, credentials, portFree>>
vars    == <<world, reachable, main, run, told, inShutdown, status, latest, asked, conn>>

Sources == {"in-cluster", "kubeconfig"}
Disk    == {"nodes/stats", "nodes/proxy"}
Modes   == {"auto", "kubelet", "proxy", "off"}

Flags == [nodeDisk : Modes \cup {"misspelt"}, metricsServer : BOOLEAN,
          positiveInterval : BOOLEAN, mock : BOOLEAN, version : BOOLEAN]

Values == [create : BOOLEAN, metrics : BOOLEAN, nodeStats : BOOLEAN,
           nodesProxy : BOOLEAN, positiveInterval : BOOLEAN]

TypeOK == /\ chart \in Values \cup {NoChart}
          /\ flags \in Flags
          /\ credentials \subseteq Sources
          /\ {portFree, reachable, told, inShutdown} \subseteq BOOLEAN
          /\ main \in {"flags", "source", "start", "listen", "serve"}
          /\ run \in {"off", "sync", "poll", "ticker", "loop", "returned"}
          /\ status \in {"running", "exit 0", "exit 1", "exit 2", "killed"}
          /\ latest \in 0..2
          /\ asked \subseteq Disk \cup {"metrics.k8s.io"}
          /\ conn \in [Clients -> {"none", "request", "stream", "answered", "cut"}]

-----------------------------------------------------------------------------
\* The chart.

\* The rules of the ClusterRole beyond nodes and pods.
Granted(v) == {r \in Disk \cup {"metrics.k8s.io"} :
                 \/ r = "metrics.k8s.io" /\ v.metrics
                 \/ r = "nodes/stats" /\ v.nodeStats
                 \/ r = "nodes/proxy" /\ v.nodesProxy}

\* Mutant: the route follows the grants unless there is none.
MutNodeDiskArg(v) == CASE v.nodeStats /\ ~v.nodesProxy -> "kubelet"
                       [] v.nodesProxy /\ ~v.nodeStats -> "proxy"
                       [] OTHER -> "auto"

\* Mutant: the chart passes a word the flag does not know.
MutNodeDiskArgWord(v) == CASE v.nodeStats /\ ~v.nodesProxy -> "kubelet"
                           [] v.nodesProxy /\ ~v.nodeStats -> "proxy"
                           [] v.nodeStats /\ v.nodesProxy -> "auto"
                           [] OTHER -> "none"

\* --node-disk; the flag's default is auto.
NodeDiskArg(v) == CASE v.nodeStats /\ ~v.nodesProxy -> "kubelet"
                    [] v.nodesProxy /\ ~v.nodeStats -> "proxy"
                    [] v.nodeStats /\ v.nodesProxy -> "auto"
                    [] OTHER -> "off"

\* args of the container: grants made elsewhere are not looked at.
Args(v) == [nodeDisk |-> IF v.create THEN NodeDiskArg(v) ELSE "auto",
            metricsServer |-> ~v.create \/ v.metrics,
            positiveInterval |-> v.positiveInterval,
            mock |-> FALSE, version |-> FALSE]

ByChart == /\ chart \in Values
           /\ flags = Args(chart)
           /\ credentials = {"in-cluster"}

ByHand == /\ chart = NoChart
          /\ flags \in Flags
          /\ credentials \in SUBSET Sources

Init == /\ ByChart \/ ByHand
        /\ portFree \in BOOLEAN
        /\ reachable \in BOOLEAN
        /\ main = "flags" /\ run = "off"
        /\ told = FALSE /\ inShutdown = FALSE
        /\ status = "running"
        /\ latest = 0 /\ asked = {}
        /\ conn = [c \in Clients |-> "none"]

-----------------------------------------------------------------------------
Running == status = "running"

\* The process ends: with it every goroutine, and every connection.
Exit(s) == /\ status' = s
           /\ conn' = [c \in Clients |->
                         IF conn[c] \in {"request", "stream"} THEN "cut" ELSE conn[c]]

\* main goes on to the next of its steps.
Goto(from, to) == /\ main = from
                  /\ main' = to
                  /\ UNCHANGED <<status, conn>>

\* flag.Parse, the check of --node-disk, --version, NotifyContext.
ParseFlags ==
    /\ Running
    /\ \/ /\ main = "flags"
          /\ \/ flags.nodeDisk = "misspelt" /\ Exit("exit 2")
             \/ flags.nodeDisk # "misspelt" /\ flags.version /\ Exit("exit 0")
          /\ UNCHANGED main
       \/ /\ flags.nodeDisk # "misspelt" /\ ~flags.version
          /\ Goto("flags", "source")
    /\ UNCHANGED <<world, reachable, run, told, inShutdown, latest, asked>>

\* Before NotifyContext a signal kills; after it, it ends the context.
Signal == /\ Running /\ ~told
          /\ told' = TRUE
          /\ IF main = "flags" THEN Exit("killed") ELSE UNCHANGED <<status, conn>>
          /\ UNCHANGED <<world, reachable, main, run, inShutdown, latest, asked>>

\* kube.New loads configuration and asks nobody: in-cluster credentials come
\* first, even when a kubeconfig was named.
restConfig == CASE "in-cluster" \in credentials -> "in-cluster"
                [] "kubeconfig" \in credentials -> "kubeconfig"
                [] OTHER -> "error"

\* The Mock holds a snapshot from the start, the Collector none.
NewMock == 1

NewSource ==
    /\ Running
    /\ \/ /\ main = "source" /\ ~flags.mock /\ restConfig = "error"
          /\ Exit("exit 1")
          /\ UNCHANGED <<main, latest>>
       \/ /\ flags.mock \/ restConfig # "error"
          /\ Goto("source", "start")
          /\ latest' = IF flags.mock THEN NewMock ELSE 0
    /\ UNCHANGED <<world, reachable, run, told, inShutdown, asked>>

\* Mutant: the mock is served, but its Run is not started.
MutRunOf(mock) == IF mock THEN "off" ELSE "sync"

RunOf(mock) == IF mock THEN "loop" ELSE "sync"

\* The two goroutines, and the server.
StartGoroutines ==
    /\ Running
    /\ Goto("start", "listen")
    /\ run' = RunOf(flags.mock)
    /\ UNCHANGED <<world, reachable, told, inShutdown, latest, asked>>

-----------------------------------------------------------------------------
\* The source's goroutine.  A step of it that leaves main and the server alone.
Runs(from, to) == /\ Running
                  /\ run = from
                  /\ run' = to
                  /\ UNCHANGED <<world, reachable, main, told, inShutdown>>

WaitForCacheSync == /\ reachable
                    /\ Runs("sync", "poll")
                    /\ UNCHANGED <<status, latest, asked, conn>>

\* One more snapshot.
Published == latest' = IF latest = 2 THEN 2 ELSE latest + 1

\* What a poll asks for: auto tries the kubelets, and the proxy if it has to.
Asks == {(IF flags.metricsServer THEN {"metrics.k8s.io"} ELSE {}) \cup d :
            d \in CASE flags.nodeDisk = "off"     -> {{}}
                    [] flags.nodeDisk = "kubelet" -> {{"nodes/stats"}}
                    [] flags.nodeDisk = "proxy"   -> {{"nodes/proxy"}}
                    [] OTHER                      -> {{"nodes/stats"}, Disk}}

poll == /\ Published
        /\ \E a \in Asks : asked' = asked \cup a
        /\ UNCHANGED <<status, conn>>

FirstPoll == Runs("poll", "ticker") /\ poll

\* time.NewTicker panics for an interval that is not positive.
NewTicker == /\ Runs("ticker", "loop")
             /\ IF flags.positiveInterval THEN UNCHANGED <<status, conn>> ELSE Exit("exit 2")
             /\ UNCHANGED <<latest, asked>>

Tick == ~flags.mock /\ Runs("loop", "loop") /\ poll

\* Mock.Run: drift, snapshot, publish.
MockTick == /\ flags.mock
            /\ Runs("loop", "loop")
            /\ Published
            /\ UNCHANGED <<status, asked, conn>>

\* Mutant: a cancelled context is fatal like any other error.
MutFatal(err) == err # "nil"

\* log.Fatalf for what Run returned?
Fatal(err) == err \notin {"nil", "context canceled"}

\* The context ends Run: while it waits for the caches with ctx.Err(), in the
\* loop of either source with nil.
RunReturns ==
    /\ told
    /\ \E at \in {"sync", "loop"} :
          /\ Runs(at, "returned")
          /\ IF Fatal(IF at = "sync" THEN "context canceled" ELSE "nil")
             THEN Exit("exit 1") ELSE UNCHANGED <<status, conn>>
    /\ UNCHANGED <<latest, asked>>

-----------------------------------------------------------------------------
\* The HTTP server, and the goroutine that shuts it down.

\* Listening fails, or finds the server shut down already, or succeeds.
Listen ==
    /\ Running
    /\ \/ /\ main = "listen"
          /\ \/ inShutdown /\ Exit("exit 0")
             \/ ~inShutdown /\ ~portFree /\ Exit("exit 1")
          /\ UNCHANGED main
       \/ /\ ~inShutdown /\ portFree
          /\ Goto("listen", "serve")
    /\ UNCHANGED <<world, reachable, run, told, inShutdown, latest, asked>>

\* srv.Shutdown closes the listener.  It goes on to wait up to 5 s for requests
\* to end, but nobody waits for it.
Shutdown == /\ Running
            /\ main \in {"listen", "serve"}
            /\ told
            /\ ~inShutdown
            /\ inShutdown' = TRUE
            /\ UNCHANGED <<world, reachable, main, run, told, status, latest, asked, conn>>

\* Mutant: main waits until every connection has ended.
MutServeEnds == inShutdown /\ \A c \in Clients : conn[c] \notin {"request", "stream"}

ServeEnds == inShutdown

\* ListenAndServe returns ErrServerClosed as soon as the listener is closed,
\* and main returns.
ServeReturns ==
    /\ Running
    /\ main = "serve"
    /\ ServeEnds
    /\ Exit("exit 0")
    /\ UNCHANGED <<world, reachable, main, run, told, inShutdown, latest, asked>>

-----------------------------------------------------------------------------
\* Clients, and the API server.

Client(c, from, to) ==
    /\ Running /\ main = "serve"
    /\ conn[c] \in from
    /\ conn' = [conn EXCEPT ![c] = to]
    /\ UNCHANGED <<world, reachable, main, run, told, inShutdown, status, latest, asked>>

Accept(c, what) == ~inShutdown /\ Client(c, {"none", "answered"}, what)

\* Any endpoint but the stream, with any status.
Answer(c) == Client(c, {"request"}, "answered")

HangUp(c) == Client(c, {"stream"}, "none")

ComesUp == /\ Running /\ ~reachable
           /\ reachable' = TRUE
           /\ UNCHANGED <<world, main, run, told, inShutdown, status, latest, asked, conn>>

-----------------------------------------------------------------------------
Main   == ParseFlags \/ NewSource \/ StartGoroutines \/ Listen \/ ServeReturns
Polls  == WaitForCacheSync \/ FirstPoll \/ NewTicker
Next == \/ Main \/ Polls \/ Tick \/ MockTick \/ RunReturns
        \/ Signal \/ Shutdown \/ ComesUp
        \/ \E c \in Clients : \/ Accept(c, "request") \/ Accept(c, "stream")
                              \/ Answer(c) \/ HangUp(c)

\* The Go scheduler runs every goroutine that can run; a ticker keeps ticking;
\* WaitForCacheSync succeeds once the API server answers.  A select in which the
\* end of the context is ready picks it sooner or later.  Clients promise nothing,
\* and nobody has to send a signal.
Fairness == /\ WF_vars(Main) /\ WF_vars(Polls) /\ WF_vars(Tick \/ MockTick)
            /\ WF_vars(Shutdown) /\ WF_vars(RunReturns)

Spec == Init /\ [][Next]_vars /\ Fairness

-----------------------------------------------------------------------------
\* deployment.yaml, "A withheld permission is also never asked for": with roles
\* made by the chart, polls ask for no optional permission but those granted, and
\* after the first poll each signal that was granted a permission has used it.
AsksWhatIsGranted ==
    chart # NoChart /\ chart.create =>
        /\ asked \subseteq Granted(chart)
        /\ latest > 0 => /\ "metrics.k8s.io" \in Granted(chart) => "metrics.k8s.io" \in asked
                         /\ Granted(chart) \cap Disk # {} => asked \cap Disk # {}

\* The poll interval is only looked at by the Collector.
Steady == flags.mock \/ flags.positiveInterval

\* main, RunReturns: once it serves, the process ends only when it was told to,
\* and then with status 0, wherever the source's goroutine is.  There is one other
\* end: nothing checks the poll interval, and one that is not positive panics,
\* but only in a Collector that has published already, when the pod is ready, and
\* before a second snapshot.  No client is cut off otherwise.
EndsOnlyAsTold ==
    main = "serve" =>
        /\ ~Running => \/ told /\ status = "exit 0"
                       \/ ~Steady /\ status = "exit 2" /\ latest = 1
        /\ (\E c \in Clients : conn[c] = "cut") => told \/ ~Steady

\* main, the shutdown goroutine: a signal ends the process, however long streams
\* and requests last, and whether or not the caches ever sync.
ExitsWhenTold == told ~> ~Running

\* main, Run, Mock.Run: a process that serves comes to have a snapshot, and then
\* newer ones, once the API server answers.
KeepsPublishing ==
    (main = "serve" /\ Steady /\ (flags.mock \/ reachable)) ~> (latest = 2 \/ ~Running)
=============================================================================
