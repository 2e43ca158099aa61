------------------------------ MODULE WebClient ------------------------------
(***************************************************************************)
(* The browser side, web/static/app.js: how snapshots reach the page (the  *)
(* first fetch, the EventSource, the fallback poll) and what the page      *)
(* makes of them, of clicks and of resizes.                                *)
(*                                                                         *)
(* JavaScript runs one callback at a time, so a callback is one step; an   *)
(* await ends it.  A snapshot is what render looks at: its nodes, those    *)
(* whose pods are null, its capabilities, and whether some node has a disk *)
(* capacity.  The server's handleSnapshot and handleStream appear as the   *)
(* page uses them; a stream has at most one event in transit.              *)
(***************************************************************************)
EXTENDS Naturals

CONSTANTS
    Nodes,
    Snapshots,   \* the snapshots the server may publish
    NoSnap, NoNode,
    Fetches,     \* bound: fetches of /api/v1/snapshot under way at once
    StaleAfter   \* 45 s, in periods of the page's 10 s timer

ASSUME WebAssumption ==
    /\ Snapshots \subseteq [nodes : SUBSET Nodes, bare : SUBSET Nodes, metrics : BOOLEAN,
                            disk : BOOLEAN, capacity : BOOLEAN]
    /\ NoSnap \notin Snapshots /\ NoNode \notin Nodes
    /\ StaleAfter \in Nat

VARIABLES
    server, quiet,          \* the server's latest snapshot; has it settled?
    stream, wire,           \* the EventSource, and the event in transit
    fetch,                  \* each fetch: "none", "asked" or its answer
    booted,                 \* is the first fetch over?
    snapshot, quietFor,     \* state.snapshot; periods since state.lastEventAt
    dimension, metric, drill,
    disabled,               \* the buttons that cannot be clicked
    cards, shown, renderedMode,  \* the grid: its cards, their snapshot, its mode
    overlay                 \* is the drill-in visible?

net  == <<server, quiet, stream, wire, fetch, booted>>
view == <<dimension, metric, drill, disabled, cards, shown, renderedMode, overlay>>
vars == <<server, quiet, stream, wire, fetch, booted, snapshot, quietFor, dimension,
          metric, drill, disabled, cards, shown, renderedMode, overlay>>

Dimensions == {"cpu", "mem", "disk"}
Metrics    == {"requests", "limits", "actual"}
NoMode     == <<"", "">>
Modes      == (Dimensions \X Metrics) \cup {NoMode}

TypeOK == /\ server \in Snapshots \cup {NoSnap}
          /\ stream \in {"unopened", "connecting", "open", "closed"}
          /\ wire \in Snapshots \cup {NoSnap}
          /\ \A f \in Fetches : fetch[f].at \in {"none", "asked", "answered"}
          /\ snapshot \in Snapshots \cup {NoSnap}
          /\ quietFor \in 0..StaleAfter + 1
          /\ dimension \in Dimensions
          /\ metric \in Metrics
          /\ drill \in Nodes \cup {NoNode}
          /\ disabled \subseteq Dimensions \cup Metrics
          /\ cards \subseteq Nodes
          /\ shown \in Snapshots \cup {NoSnap}
          /\ renderedMode \in Modes
          /\ {quiet, booted, overlay} \subseteq BOOLEAN

Idle      == [at |-> "none", answer |-> NoSnap]
Asked     == [at |-> "asked", answer |-> NoSnap]
Answer(s) == [at |-> "answered", answer |-> s]

\* The view comes from the URL or from localStorage: any choice is possible.
Init == /\ server \in Snapshots \cup {NoSnap}
        /\ quiet = FALSE
        /\ stream = "unopened"
        /\ wire = NoSnap
        /\ \E f \in Fetches : fetch = [g \in Fetches |-> IF g = f THEN Asked ELSE Idle]
        /\ booted = FALSE
        /\ snapshot = NoSnap
        /\ quietFor = StaleAfter + 1
        /\ dimension \in Dimensions
        /\ metric \in Metrics
        /\ drill \in Nodes \cup {NoNode}
        /\ disabled = {}
        /\ cards = {}
        /\ shown = NoSnap
        /\ renderedMode = NoMode
        /\ overlay = FALSE

-----------------------------------------------------------------------------
\* render and apply.

\* Looping over null pods throws a TypeError.
Throws(s) == s.bare # {}

\* The buttons renderControls disables.
Disabled(s, dim) ==
    (IF s.disk \/ s.capacity THEN {} ELSE {"disk"})
    \cup (IF s.metrics THEN {} ELSE {"actual"})
    \cup (IF dim = "disk" THEN Metrics ELSE {})

\* Mutant: a drill-in whose node is gone is only hidden.
MutDrillOf(s, name) == name

\* renderDrill closes the drill-in when its node is gone.
DrillOf(s, name) == IF name \in s.nodes THEN name ELSE NoNode

\* renderGrid, then the drill-in if one is open.
renderGridAndDrill(s, mode, name) ==
    /\ cards' = s.nodes
    /\ shown' = s
    /\ renderedMode' = mode
    /\ drill' = DrillOf(s, name)
    /\ overlay' = IF name = NoNode THEN overlay ELSE name \in s.nodes

\* Mutant: the fallback leaves no metric selected.
MutFallback(s, dim, met) ==
    <<IF dim = "disk" /\ ~s.disk /\ ~s.capacity THEN "cpu" ELSE dim,
      IF met = "actual" /\ ~s.metrics THEN "" ELSE met>>

\* Mutant: no fallback; the buttons are disabled all the same.
MutNoFallback(s, dim, met) == <<dim, met>>

\* The dimension and the metric to show when s lacks the signal for those chosen.
Fallback(s, dim, met) ==
    <<IF dim = "disk" /\ ~s.disk /\ ~s.capacity THEN "cpu" ELSE dim,
      IF met = "actual" /\ ~s.metrics THEN "requests" ELSE met>>

\* render with snapshot s, for the view asked for.  It stops in renderSummary if
\* a node has null pods: controls and banners are new then, the grid is not.
render(s, dim, met, name, mode) ==
    IF s = NoSnap
    THEN /\ dimension' = dim /\ metric' = met /\ drill' = name
         /\ renderedMode' = mode
         /\ UNCHANGED <<disabled, cards, shown, overlay>>
    ELSE LET now == Fallback(s, dim, met)
         IN  /\ dimension' = now[1] /\ metric' = now[2]
             /\ disabled' = Disabled(s, now[1])
             /\ IF Throws(s)
                THEN /\ drill' = name /\ renderedMode' = mode
                     /\ UNCHANGED <<cards, shown, overlay>>
                ELSE renderGridAndDrill(s, now, name)

\* apply loops over the pods before it renders.
apply(s) == /\ snapshot' = s
            /\ quietFor' = 0
            /\ IF Throws(s) THEN UNCHANGED view
               ELSE render(s, dimension, metric, drill, renderedMode)

-----------------------------------------------------------------------------
\* Snapshots on their way to the page.

Publish(s) == /\ quiet => s = server
              /\ server' = s
              /\ wire' = IF stream = "open" /\ wire = NoSnap THEN s ELSE wire
              /\ UNCHANGED <<quiet, stream, fetch, booted, snapshot, quietFor, view>>

\* handleSnapshot: Latest is read here and arrives later; before the first poll
\* it answers 503, which the page ignores.
Served(f) == /\ fetch[f] = Asked
             /\ server # NoSnap
             /\ fetch' = [fetch EXCEPT ![f] = Answer(server)]
             /\ UNCHANGED <<server, quiet, stream, wire, booted, snapshot, quietFor, view>>

\* bootstrap goes on after its fetch, whether or not it gave a snapshot: the
\* EventSource is opened and the timer started.
Booted == /\ booted' = TRUE
          /\ stream' = IF booted THEN stream ELSE "connecting"

FetchDone(f) == /\ fetch[f].at = "answered"
                /\ fetch' = [fetch EXCEPT ![f] = Idle]
                /\ Booted
                /\ apply(fetch[f].answer)
                /\ UNCHANGED <<server, quiet, wire>>

FetchFailed(f) == /\ fetch[f] = Asked
                  /\ ~quiet \/ server = NoSnap
                  /\ fetch' = [fetch EXCEPT ![f] = Idle]
                  /\ Booted
                  /\ UNCHANGED <<server, quiet, wire, snapshot, quietFor, view>>

\* handleStream sends the current snapshot to a stream that connects.
StreamOpens == /\ stream = "connecting"
               /\ stream' = "open"
               /\ wire' = server
               /\ UNCHANGED <<server, quiet, fetch, booted, snapshot, quietFor, view>>

\* The EventSource reconnects after a lost connection, and gives up for good on
\* an answer that is no stream.
StreamBreaks(next) == /\ stream \in {"connecting", "open"}
                      /\ stream' = next
                      /\ wire' = NoSnap
                      /\ UNCHANGED <<server, quiet, fetch, booted, snapshot, quietFor, view>>

EventArrives == /\ wire # NoSnap
                /\ wire' = NoSnap
                /\ apply(wire)
                /\ UNCHANGED <<server, quiet, stream, fetch, booted>>

\* Mutant: no poll while the stream looks open.
MutLate == quietFor >= StaleAfter /\ stream # "open"

Late == quietFor >= StaleAfter

\* The timer: poll if nothing was applied for too long.  A fetch still under way
\* does not hold back another one.
Timer ==
    LET idle == {f \in Fetches : fetch[f] = Idle}
    IN  /\ booted
        /\ quietFor' = IF quietFor > StaleAfter THEN quietFor ELSE quietFor + 1
        /\ IF Late /\ idle # {}
           THEN \E f \in idle : fetch' = [fetch EXCEPT ![f] = Asked]
           ELSE UNCHANGED fetch
        /\ UNCHANGED <<server, quiet, stream, wire, booted, snapshot, view>>

Quieten == /\ ~quiet /\ server # NoSnap
           /\ quiet' = TRUE
           /\ UNCHANGED <<server, stream, wire, fetch, booted, snapshot, quietFor, view>>

-----------------------------------------------------------------------------
\* The user.

ClickDimension(d) == /\ d \notin disabled
                     /\ render(snapshot, d, metric, drill, renderedMode)
                     /\ UNCHANGED <<net, snapshot, quietFor>>

ClickMetric(m) == /\ m \notin disabled
                  /\ render(snapshot, dimension, m, drill, renderedMode)
                  /\ UNCHANGED <<net, snapshot, quietFor>>

openDrill(n) == /\ n \in cards
                /\ drill' = DrillOf(snapshot, n)
                /\ overlay' = (n \in snapshot.nodes)
                /\ UNCHANGED <<net, snapshot, quietFor, dimension, metric, disabled,
                               cards, shown, renderedMode>>

closeDrill == /\ drill # NoNode
              /\ drill' = NoNode
              /\ overlay' = FALSE
              /\ UNCHANGED <<net, snapshot, quietFor, dimension, metric, disabled,
                             cards, shown, renderedMode>>

Resize == /\ render(snapshot, dimension, metric, drill, NoMode)
          /\ UNCHANGED <<net, snapshot, quietFor>>

User == \/ \E d \in Dimensions : ClickDimension(d)
        \/ \E m \in Metrics : ClickMetric(m)
        \/ \E n \in Nodes : openDrill(n)
        \/ closeDrill
        \/ Resize

Next == \/ \E s \in Snapshots : Publish(s)
        \/ \E f \in Fetches : Served(f) \/ FetchDone(f) \/ FetchFailed(f)
        \/ StreamOpens
        \/ \E next \in {"connecting", "closed"} : StreamBreaks(next)
        \/ EventArrives
        \/ Timer
        \/ Quieten
        \/ User

\* Fetches end and the timer runs.  Nothing is assumed of the stream.
Fairness == /\ WF_vars(Timer)
            /\ \A f \in Fetches : WF_vars(Served(f)) /\ WF_vars(FetchDone(f))

Spec == Init /\ [][Next]_vars /\ Fairness

-----------------------------------------------------------------------------
\* render, renderControls: however clicks, resizes and snapshots with other
\* capabilities interleave, the page never offers live usage or disk as data
\* when the snapshot it holds has none.
NoDataWithoutSignal ==
    shown # NoSnap => /\ metric = "actual" => shown.metrics
                      /\ dimension = "disk" => shown.disk \/ shown.capacity

\* renderDrill, closeDrill: once the page has painted, the drill-in is visible
\* exactly while a node is drilled into, and that node is one of the page's.
DrillIsOfShownNode ==
    shown # NoSnap => /\ overlay <=> drill # NoNode
                      /\ drill \in shown.nodes \cup {NoNode}

\* bootstrap, the fallback poll: when the cluster has settled the page comes to
\* show it for good, even if the stream never works, breaks for ever or
\* delivers an old event late.
PageCatchesUp == quiet ~> [](shown = server)

\* CHANGELOG.md: "Every node renders as a rectangle with its pods packed inside".
\* The grid shows the nodes of the snapshot the page has applied.
GridShowsSnapshot == /\ shown = snapshot
                     /\ snapshot # NoSnap => cards = snapshot.nodes
=============================================================================
