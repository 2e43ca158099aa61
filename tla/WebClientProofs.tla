--------------------------- MODULE WebClientProofs ---------------------------
(***************************************************************************)
(* What the page shows, for every set of nodes, of snapshots and of        *)
(* fetches under way, and for any period of its timer.  Types hold for     *)
(* every snapshot; what ties the painted grid to the view holds when no    *)
(* snapshot makes the page throw, the condition NoBareNode.                *)
(***************************************************************************)
EXTENDS WebClient, TLAPS

Answers == [at : {"none", "asked", "answered"}, answer : Snapshots \cup {NoSnap}]

\* A fetch that was answered carries a snapshot.
FetchInv == /\ fetch \in [Fetches -> Answers]
            /\ \A f \in Fetches : fetch[f].at = "answered" => fetch[f].answer \in Snapshots

TInv == TypeOK /\ FetchInv

\* No snapshot has a node whose pods are null, so neither apply nor render throws.
NoBareNode == \A s \in Snapshots : ~Throws(s)

\* The grid is that of the snapshot the page holds, and before the first one it
\* is empty and the drill-in hidden.
PaintInv == /\ GridShowsSnapshot
            /\ snapshot = NoSnap => cards = {} /\ ~overlay

IInv == TInv /\ PaintInv /\ NoDataWithoutSignal /\ DrillIsOfShownNode

-----------------------------------------------------------------------------
\* Types.

\* What an action reads or writes of the view is well-typed.
ViewOK == /\ dimension \in Dimensions
          /\ metric \in Metrics
          /\ drill \in Nodes \cup {NoNode}
          /\ disabled \subseteq Dimensions \cup Metrics
          /\ cards \subseteq Nodes
          /\ shown \in Snapshots \cup {NoSnap}
          /\ renderedMode \in Modes
          /\ overlay \in BOOLEAN

NetOK == /\ server \in Snapshots \cup {NoSnap}
         /\ stream \in {"unopened", "connecting", "open", "closed"}
         /\ wire \in Snapshots \cup {NoSnap}
         /\ quiet \in BOOLEAN /\ booted \in BOOLEAN

HeldOK == /\ snapshot \in Snapshots \cup {NoSnap}
          /\ quietFor \in 0..StaleAfter + 1

\* TInv, in the parts the actions change together.
LEMMA Parts == TInv <=> NetOK /\ HeldOK /\ ViewOK /\ FetchInv
<1>1. TInv => NetOK /\ HeldOK /\ ViewOK /\ FetchInv
  BY DEF TInv, TypeOK, NetOK, HeldOK, ViewOK
<1>2. ASSUME NetOK, HeldOK, ViewOK, FetchInv PROVE TypeOK
  <2>1. {quiet, booted, overlay} \subseteq BOOLEAN
    BY <1>2 DEF NetOK, ViewOK
  <2>2. \A f \in Fetches : fetch[f].at \in {"none", "asked", "answered"}
    BY <1>2 DEF FetchInv, Answers
  <2> QED BY <1>2, <2>1, <2>2 DEF TypeOK, NetOK, HeldOK, ViewOK
<1> QED BY <1>1, <1>2 DEF TInv

LEMMA PartsPrimed == TInv' <=> NetOK' /\ HeldOK' /\ ViewOK' /\ FetchInv'
  BY Parts, PTL

\* The fallback of a well-typed view is well-typed.
LEMMA FallbackType ==
    ASSUME NEW s \in Snapshots, NEW dim \in Dimensions, NEW met \in Metrics
    PROVE  /\ Fallback(s, dim, met) \in Dimensions \X Metrics
           /\ Fallback(s, dim, met)[1] \in Dimensions
           /\ Fallback(s, dim, met)[2] \in Metrics
  BY DEF Fallback, Dimensions, Metrics

\* render keeps the view well-typed.
LEMMA RenderTypes ==
    ASSUME ViewOK, NEW s \in Snapshots \cup {NoSnap}, NEW dim \in Dimensions,
           NEW met \in Metrics, NEW name \in Nodes \cup {NoNode}, NEW mode \in Modes,
           render(s, dim, met, name, mode)
    PROVE  ViewOK'
<1>1. CASE s = NoSnap
  BY <1>1 DEF render, ViewOK
<1>2. CASE s # NoSnap
  <2> DEFINE now == Fallback(s, dim, met)
  <2>s. s \in Snapshots /\ s.nodes \subseteq Nodes
    BY <1>2, WebAssumption
  <2>0. now \in Dimensions \X Metrics /\ now[1] \in Dimensions /\ now[2] \in Metrics
    BY <2>s, FallbackType
  <2>1. /\ dimension' = now[1] /\ metric' = now[2]
        /\ disabled' = Disabled(s, now[1])
        /\ \/ /\ drill' = name /\ renderedMode' = mode
              /\ UNCHANGED <<cards, shown, overlay>>
           \/ renderGridAndDrill(s, now, name)
    BY <1>2 DEF render
  <2>2. disabled' \subseteq Dimensions \cup Metrics
    BY <2>1 DEF Disabled, Dimensions, Metrics
  <2> HIDE DEF now
  <2>3. CASE drill' = name /\ renderedMode' = mode /\ UNCHANGED <<cards, shown, overlay>>
    BY <2>0, <2>1, <2>2, <2>3 DEF ViewOK
  <2>4. CASE renderGridAndDrill(s, now, name)
    <3>1. cards' \subseteq Nodes /\ shown' \in Snapshots \cup {NoSnap}
      BY <2>s, <2>4 DEF renderGridAndDrill
    <3>2. renderedMode' \in Modes
      BY <2>0, <2>4 DEF renderGridAndDrill, Modes
    <3>3. drill' \in Nodes \cup {NoNode}
      BY <2>s, <2>4 DEF renderGridAndDrill, DrillOf
    <3>4. overlay' \in BOOLEAN
      <4>1. overlay' = IF name = NoNode THEN overlay ELSE name \in s.nodes
        BY <2>4 DEF renderGridAndDrill
      <4>2. CASE name = NoNode
        BY <4>1, <4>2 DEF ViewOK
      <4>3. CASE name # NoNode
        <5>1. overlay' = (name \in s.nodes)
          BY <4>1, <4>3
        <5> QED BY <5>1
      <4> QED BY <4>2, <4>3
    <3> QED BY <2>0, <2>1, <2>2, <3>1, <3>2, <3>3, <3>4 DEF ViewOK
  <2> QED BY <2>1, <2>3, <2>4
<1> QED BY <1>1, <1>2

\* So does apply.
LEMMA ApplyTypes ==
    ASSUME HeldOK, ViewOK, NEW s \in Snapshots, apply(s)
    PROVE  HeldOK' /\ ViewOK'
<1>1. snapshot' = s /\ quietFor' = 0
  BY DEF apply
<1>2. HeldOK'
  BY <1>1, WebAssumption DEF HeldOK
<1>3. CASE UNCHANGED view
  BY <1>2, <1>3 DEF view, ViewOK
<1>4. CASE render(s, dimension, metric, drill, renderedMode)
  BY <1>2, <1>4, RenderTypes DEF ViewOK
<1> QED BY <1>3, <1>4 DEF apply

\* The types hold initially.
LEMMA InitTypes == Init => TInv
<1> SUFFICES ASSUME Init PROVE NetOK /\ HeldOK /\ ViewOK /\ FetchInv
  BY Parts
<1>1. NetOK /\ ViewOK
  BY DEF Init, NetOK, ViewOK, Modes
<1>2. HeldOK
  BY WebAssumption DEF Init, HeldOK
<1>3. FetchInv
  <2>1. PICK f \in Fetches : fetch = [g \in Fetches |-> IF g = f THEN Asked ELSE Idle]
    BY DEF Init
  <2>2. Asked \in Answers /\ Idle \in Answers /\ Asked.at # "answered" /\ Idle.at # "answered"
    BY DEF Asked, Idle, Answers
  <2> HIDE DEF Asked, Idle
  <2> QED BY <2>1, <2>2 DEF FetchInv
<1> QED BY <1>1, <1>2, <1>3

\* A fetch may go to any of its stages, answered only with a snapshot.
LEMMA FetchSet ==
    ASSUME FetchInv, NEW f \in Fetches, NEW a \in Answers,
           a.at = "answered" => a.answer \in Snapshots,
           fetch' = [fetch EXCEPT ![f] = a]
    PROVE  FetchInv'
  BY DEF FetchInv

\* The values fetches are set to.
LEMMA FetchValues ==
    /\ Idle \in Answers /\ Idle.at # "answered"
    /\ Asked \in Answers /\ Asked.at # "answered"
    /\ \A s \in Snapshots : Answer(s) \in Answers /\ Answer(s).answer = s
  BY DEF Idle, Asked, Answer, Answers

\* Every step keeps the types.
LEMMA NextTypes == TInv /\ [Next]_vars => TInv'
<1> SUFFICES ASSUME NetOK, HeldOK, ViewOK, FetchInv, [Next]_vars
             PROVE  NetOK' /\ HeldOK' /\ ViewOK' /\ FetchInv'
  BY Parts, PartsPrimed
<1>1. CASE UNCHANGED vars
  BY <1>1 DEF vars, NetOK, HeldOK, ViewOK, FetchInv
<1>2. ASSUME NEW s \in Snapshots, Publish(s) PROVE NetOK' /\ HeldOK' /\ ViewOK' /\ FetchInv'
  BY <1>2 DEF Publish, view, NetOK, HeldOK, ViewOK, FetchInv
<1>3. ASSUME NEW f \in Fetches, Served(f) PROVE NetOK' /\ HeldOK' /\ ViewOK' /\ FetchInv'
  <2>1. NetOK' /\ HeldOK' /\ ViewOK'
    BY <1>3 DEF Served, view, NetOK, HeldOK, ViewOK
  <2>2. server \in Snapshots /\ fetch' = [fetch EXCEPT ![f] = Answer(server)]
    BY <1>3 DEF Served, NetOK
  <2> QED BY <2>1, <2>2, FetchSet, FetchValues
<1>4. ASSUME NEW f \in Fetches, FetchDone(f) PROVE NetOK' /\ HeldOK' /\ ViewOK' /\ FetchInv'
  <2>1. NetOK'
    BY <1>4 DEF FetchDone, Booted, NetOK
  <2>2. fetch[f].answer \in Snapshots /\ apply(fetch[f].answer)
    BY <1>4 DEF FetchDone, FetchInv
  <2>3. HeldOK' /\ ViewOK'
    BY <2>2, ApplyTypes
  <2>4. FetchInv'
    BY <1>4, FetchSet, FetchValues DEF FetchDone
  <2> QED BY <2>1, <2>3, <2>4
<1>5. ASSUME NEW f \in Fetches, FetchFailed(f) PROVE NetOK' /\ HeldOK' /\ ViewOK' /\ FetchInv'
  <2>1. NetOK' /\ HeldOK' /\ ViewOK'
    BY <1>5 DEF FetchFailed, Booted, view, NetOK, HeldOK, ViewOK
  <2> QED BY <1>5, <2>1, FetchSet, FetchValues DEF FetchFailed
<1>6. CASE StreamOpens
  BY <1>6 DEF StreamOpens, view, NetOK, HeldOK, ViewOK, FetchInv
<1>7. ASSUME NEW next \in {"connecting", "closed"}, StreamBreaks(next)
      PROVE  NetOK' /\ HeldOK' /\ ViewOK' /\ FetchInv'
  BY <1>7 DEF StreamBreaks, view, NetOK, HeldOK, ViewOK, FetchInv
<1>8. CASE EventArrives
  <2>1. NetOK' /\ FetchInv'
    BY <1>8 DEF EventArrives, NetOK, FetchInv
  <2>2. wire \in Snapshots /\ apply(wire)
    BY <1>8 DEF EventArrives, NetOK
  <2> QED BY <2>1, <2>2, ApplyTypes
<1>9. CASE Timer
  <2>1. NetOK' /\ ViewOK' /\ UNCHANGED snapshot
    BY <1>9 DEF Timer, view, NetOK, ViewOK
  <2>2. quietFor' = IF quietFor > StaleAfter THEN quietFor ELSE quietFor + 1
    BY <1>9 DEF Timer
  <2>3. HeldOK'
    BY <2>1, <2>2, WebAssumption DEF HeldOK
  <2>4. CASE UNCHANGED fetch
    BY <2>1, <2>3, <2>4 DEF FetchInv
  <2>5. CASE \E f \in Fetches : fetch' = [fetch EXCEPT ![f] = Asked]
    BY <2>1, <2>3, <2>5, FetchSet, FetchValues
  <2> QED BY <1>9, <2>4, <2>5 DEF Timer
<1>10. CASE Quieten
  BY <1>10 DEF Quieten, view, NetOK, HeldOK, ViewOK, FetchInv
<1>11. CASE User
  <2>1. NetOK' /\ HeldOK' /\ FetchInv'
    BY <1>11 DEF User, ClickDimension, ClickMetric, openDrill, closeDrill, Resize, net,
                 NetOK, HeldOK, FetchInv
  <2>2. ASSUME NEW d \in Dimensions, ClickDimension(d) PROVE ViewOK'
    BY <2>2, RenderTypes DEF ClickDimension, HeldOK, ViewOK
  <2>3. ASSUME NEW m \in Metrics, ClickMetric(m) PROVE ViewOK'
    BY <2>3, RenderTypes DEF ClickMetric, HeldOK, ViewOK
  <2>4. ASSUME NEW n \in Nodes, openDrill(n) PROVE ViewOK'
    <3>1. overlay' \in BOOLEAN
      <4>1. overlay' = (n \in snapshot.nodes)
        BY <2>4 DEF openDrill
      <4> QED BY <4>1
    <3>2. drill' \in Nodes \cup {NoNode}
      BY <2>4 DEF openDrill, DrillOf
    <3> QED BY <2>4, <3>1, <3>2 DEF openDrill, ViewOK
  <2>5. CASE closeDrill
    BY <2>1, <2>5 DEF closeDrill, ViewOK
  <2>6. CASE Resize
    <3>1. NoMode \in Modes
      BY DEF Modes
    <3> QED BY <2>1, <2>6, <3>1, RenderTypes DEF Resize, HeldOK, ViewOK
  <2> QED BY <1>11, <2>1, <2>2, <2>3, <2>4, <2>5, <2>6 DEF User
<1> QED
  BY <1>1, <1>2, <1>3, <1>4, <1>5, <1>6, <1>7, <1>8, <1>9, <1>10, <1>11 DEF Next

\* The state of app.js stays within its types, whatever snapshots arrive, in which
\* order, and whatever is clicked in between.
THEOREM TypeCorrect == Spec => []TypeOK
<1>1. TInv => TypeOK
  BY DEF TInv
<1> QED BY InitTypes, NextTypes, <1>1, PTL DEF Spec
-----------------------------------------------------------------------------
\* What is painted, when no snapshot makes the page throw.

\* What a full render leaves of the view.
LEMMA RenderPaints ==
    ASSUME ViewOK, NEW s \in Snapshots, ~Throws(s), NEW dim, NEW met, NEW name, NEW mode,
           render(s, dim, met, name, mode), name = NoNode => ~overlay
    PROVE  /\ shown' = s /\ cards' = s.nodes
           /\ NoDataWithoutSignal' /\ DrillIsOfShownNode'
<1>1. s # NoSnap /\ NoNode \notin s.nodes
  BY WebAssumption
<1> DEFINE now == Fallback(s, dim, met)
<1>2. /\ dimension' = now[1] /\ metric' = now[2]
      /\ renderGridAndDrill(s, now, name)
  BY <1>1 DEF render
<1>3. shown' = s /\ cards' = s.nodes
  BY <1>2 DEF renderGridAndDrill
<1>4. metric' = "actual" => s.metrics
  BY <1>2 DEF Fallback
<1>5. dimension' = "disk" => s.disk \/ s.capacity
  BY <1>2 DEF Fallback
<1> HIDE DEF now
<1>6. NoDataWithoutSignal'
  BY <1>3, <1>4, <1>5 DEF NoDataWithoutSignal
<1>7. /\ drill' = IF name \in s.nodes THEN name ELSE NoNode
      /\ overlay' = IF name = NoNode THEN overlay ELSE name \in s.nodes
  BY <1>2 DEF renderGridAndDrill, DrillOf
<1>8. drill' \in s.nodes \cup {NoNode}
  BY <1>7
<1>9. overlay' <=> drill' # NoNode
  <2>1. CASE name = NoNode
    BY <1>1, <1>7, <2>1
  <2>2. CASE name # NoNode
    <3>1. overlay' = (name \in s.nodes)
      BY <1>7, <2>2
    <3> QED BY <1>7, <2>2, <3>1
  <2> QED BY <2>1, <2>2
<1> QED BY <1>3, <1>6, <1>8, <1>9 DEF DrillIsOfShownNode

\* Before a snapshot, or with no drill-in, the overlay is hidden.
LEMMA HiddenOverlay == IInv /\ drill = NoNode => ~overlay
  BY DEF IInv, PaintInv, GridShowsSnapshot, DrillIsOfShownNode

\* apply paints the snapshot it is given.
LEMMA ApplyPaints ==
    ASSUME NoBareNode, IInv, NEW s \in Snapshots, apply(s)
    PROVE  PaintInv' /\ NoDataWithoutSignal' /\ DrillIsOfShownNode'
<1>1. ~Throws(s) /\ ViewOK /\ s # NoSnap
  BY Parts, WebAssumption DEF IInv, NoBareNode
<1>2. render(s, dimension, metric, drill, renderedMode) /\ snapshot' = s
  BY <1>1 DEF apply
<1>3. /\ shown' = s /\ cards' = s.nodes
      /\ NoDataWithoutSignal' /\ DrillIsOfShownNode'
  BY <1>1, <1>2, HiddenOverlay, RenderPaints
<1> QED BY <1>1, <1>2, <1>3 DEF PaintInv, GridShowsSnapshot

\* A click or a resize paints the snapshot the page holds, if it holds one.
LEMMA RenderKeepsPaint ==
    ASSUME NoBareNode, IInv, NEW dim, NEW met, NEW mode,
           render(snapshot, dim, met, drill, mode), UNCHANGED snapshot
    PROVE  PaintInv' /\ NoDataWithoutSignal' /\ DrillIsOfShownNode'
<1>1. CASE snapshot = NoSnap
  <2>1. UNCHANGED <<cards, shown, overlay>>
    BY <1>1 DEF render
  <2>2. shown = NoSnap
    BY <1>1 DEF IInv, PaintInv, GridShowsSnapshot
  <2> QED BY <1>1, <2>1, <2>2
          DEF IInv, PaintInv, GridShowsSnapshot, NoDataWithoutSignal, DrillIsOfShownNode
<1>2. CASE snapshot # NoSnap
  <2>1. snapshot \in Snapshots /\ ~Throws(snapshot) /\ ViewOK
    BY <1>2, Parts DEF IInv, HeldOK, NoBareNode
  <2>2. /\ shown' = snapshot /\ cards' = snapshot.nodes
        /\ NoDataWithoutSignal' /\ DrillIsOfShownNode'
    BY <2>1, HiddenOverlay, RenderPaints
  <2> QED BY <1>2, <2>2 DEF PaintInv, GridShowsSnapshot
<1> QED BY <1>1, <1>2

\* Every step keeps the painted page and the view together.
LEMMA NextPaints == NoBareNode /\ IInv /\ [Next]_vars => IInv'
<1> SUFFICES ASSUME NoBareNode, IInv, [Next]_vars
             PROVE  PaintInv' /\ NoDataWithoutSignal' /\ DrillIsOfShownNode'
  BY NextTypes DEF IInv
<1> DEFINE Same == UNCHANGED <<snapshot, view>>
<1>1. CASE Same
  BY <1>1 DEF view, IInv, PaintInv, GridShowsSnapshot, NoDataWithoutSignal,
              DrillIsOfShownNode
<1>2. \/ Same
      \/ \E s \in Snapshots : apply(s)
      \/ User
  <2>1. UNCHANGED vars => Same
    BY DEF vars, view
  <2>2. \A s \in Snapshots : Publish(s) => Same
    BY DEF Publish
  <2>3. \A f \in Fetches : Served(f) \/ FetchFailed(f) => Same
    BY DEF Served, FetchFailed
  <2>4. ASSUME NEW f \in Fetches, FetchDone(f) PROVE \E s \in Snapshots : apply(s)
    <3>1. fetch[f].answer \in Snapshots
      BY <2>4 DEF FetchDone, IInv, TInv, FetchInv
    <3> QED BY <2>4, <3>1 DEF FetchDone
  <2>5. ASSUME EventArrives PROVE \E s \in Snapshots : apply(s)
    <3>1. wire \in Snapshots
      BY <2>5 DEF EventArrives, IInv, TInv, TypeOK
    <3> QED BY <2>5, <3>1 DEF EventArrives
  <2>6. StreamOpens \/ (\E next \in {"connecting", "closed"} : StreamBreaks(next)) => Same
    BY DEF StreamOpens, StreamBreaks
  <2>7. Timer \/ Quieten => Same
    BY DEF Timer, Quieten
  <2> QED BY <2>1, <2>2, <2>3, <2>4, <2>5, <2>6, <2>7 DEF Next
<1>3. ASSUME NEW s \in Snapshots, apply(s)
      PROVE  PaintInv' /\ NoDataWithoutSignal' /\ DrillIsOfShownNode'
  BY <1>3, ApplyPaints
<1>4. CASE User
  <2>1. ASSUME NEW d \in Dimensions, ClickDimension(d)
        PROVE  PaintInv' /\ NoDataWithoutSignal' /\ DrillIsOfShownNode'
    BY <2>1, RenderKeepsPaint DEF ClickDimension
  <2>2. ASSUME NEW m \in Metrics, ClickMetric(m)
        PROVE  PaintInv' /\ NoDataWithoutSignal' /\ DrillIsOfShownNode'
    BY <2>2, RenderKeepsPaint DEF ClickMetric
  <2>3. ASSUME NEW n \in Nodes, openDrill(n)
        PROVE  PaintInv' /\ NoDataWithoutSignal' /\ DrillIsOfShownNode'
    <3>1. snapshot # NoSnap /\ shown = snapshot /\ n \in snapshot.nodes
      BY <2>3 DEF openDrill, IInv, PaintInv, GridShowsSnapshot
    <3>2. drill' = n /\ UNCHANGED <<snapshot, dimension, metric, cards, shown>>
      BY <2>3, <3>1 DEF openDrill, DrillOf
    <3>3. overlay'
      BY <2>3, <3>1 DEF openDrill
    <3>4. n # NoNode
      BY WebAssumption
    <3> QED BY <3>1, <3>2, <3>3, <3>4
            DEF IInv, PaintInv, GridShowsSnapshot, NoDataWithoutSignal, DrillIsOfShownNode
  <2>4. CASE closeDrill
    BY <2>4 DEF closeDrill, IInv, PaintInv, GridShowsSnapshot, NoDataWithoutSignal,
                DrillIsOfShownNode
  <2>5. CASE Resize
    BY <2>5, RenderKeepsPaint DEF Resize
  <2> QED BY <1>4, <2>1, <2>2, <2>3, <2>4, <2>5 DEF User
<1> HIDE DEF Same
<1> QED BY <1>1, <1>2, <1>3, <1>4

\* The page starts blank.
LEMMA InitPaints == Init => IInv
<1>1. Init => PaintInv /\ NoDataWithoutSignal /\ DrillIsOfShownNode
  BY DEF Init, PaintInv, GridShowsSnapshot, NoDataWithoutSignal, DrillIsOfShownNode
<1> QED BY <1>1, InitTypes DEF IInv

LEMMA PageInvariance == ASSUME NoBareNode PROVE Spec => []IInv
<1>1. IInv /\ [Next]_vars => IInv'
  BY NextPaints
<1> QED BY InitPaints, <1>1, PTL DEF Spec

\* render, renderControls: as long as every node runs a pod, the page never offers
\* live usage or disk as data when the snapshot it paints has none, for every mix
\* of capabilities the server may send and every order of fetches, events, clicks
\* and resizes.
THEOREM OffersOnlySignals == ASSUME NoBareNode PROVE Spec => []NoDataWithoutSignal
<1>1. IInv => NoDataWithoutSignal
  BY DEF IInv
<1> QED BY PageInvariance, <1>1, PTL

\* renderDrill, closeDrill: as long as every node runs a pod, the drill-in is
\* visible exactly while a node is drilled into, and that node is on the page.
THEOREM DrillFollowsPage == ASSUME NoBareNode PROVE Spec => []DrillIsOfShownNode
<1>1. IInv => DrillIsOfShownNode
  BY DEF IInv
<1> QED BY PageInvariance, <1>1, PTL

\* apply, renderGrid: null pods are the only thing that keeps the grid from showing
\* the snapshot the page has applied.  The run that violates GridShowsSnapshot has
\* such a snapshot; without one the property holds.
THEOREM GridFollowsSnapshot == ASSUME NoBareNode PROVE Spec => []GridShowsSnapshot
<1>1. IInv => GridShowsSnapshot
  BY DEF IInv, PaintInv
<1> QED BY PageInvariance, <1>1, PTL
-----------------------------------------------------------------------------
\* The settled server: the half of PageCatchesUp that needs no fairness.

\* The server's snapshot changes no more, and nothing older is on its way.
Fresh == /\ quiet
         /\ wire \in {NoSnap, server}
         /\ \A f \in Fetches : fetch[f].at = "answered" => fetch[f].answer = server

\* What is on its way is what the page is given, and nothing else comes to be.
LEMMA FreshStays ==
    TInv /\ Fresh /\ [Next]_vars =>
        Fresh' /\ UNCHANGED server /\ (snapshot' # snapshot => apply(server))
<1> SUFFICES ASSUME FetchInv, Fresh, [Next]_vars
             PROVE  Fresh' /\ UNCHANGED server /\ (snapshot' # snapshot => apply(server))
  BY DEF TInv
<1> USE DEF Fresh
<1>1. CASE UNCHANGED vars
  BY <1>1 DEF vars
<1>2. ASSUME NEW s \in Snapshots, Publish(s)
      PROVE  Fresh' /\ UNCHANGED <<server, snapshot>>
  BY <1>2 DEF Publish
<1>3. ASSUME NEW f \in Fetches, Served(f)
      PROVE  Fresh' /\ UNCHANGED <<server, snapshot>>
  BY <1>3 DEF Served, Answer, FetchInv
<1>4. ASSUME NEW f \in Fetches, FetchDone(f)
      PROVE  Fresh' /\ UNCHANGED server /\ apply(server)
  BY <1>4 DEF FetchDone, FetchInv, Idle
<1>5. ASSUME NEW f \in Fetches, FetchFailed(f)
      PROVE  Fresh' /\ UNCHANGED <<server, snapshot>>
  BY <1>5 DEF FetchFailed, FetchInv, Idle
<1>6. CASE StreamOpens
  BY <1>6 DEF StreamOpens
<1>7. ASSUME NEW next \in {"connecting", "closed"}, StreamBreaks(next)
      PROVE  Fresh' /\ UNCHANGED <<server, snapshot>>
  BY <1>7 DEF StreamBreaks
<1>8. CASE EventArrives
  BY <1>8 DEF EventArrives
<1>9. CASE Timer
  <2>1. UNCHANGED <<server, quiet, wire, snapshot>>
    BY <1>9 DEF Timer
  <2>2. CASE UNCHANGED fetch
    BY <2>1, <2>2
  <2>3. CASE \E f \in Fetches : fetch' = [fetch EXCEPT ![f] = Asked]
    BY <2>1, <2>3 DEF Asked, FetchInv
  <2> QED BY <1>9, <2>2, <2>3 DEF Timer
<1>10. CASE Quieten
  BY <1>10 DEF Quieten
<1>11. CASE User
  BY <1>11 DEF User, ClickDimension, ClickMetric, openDrill, closeDrill, Resize, net
<1> QED
  BY <1>1, <1>2, <1>3, <1>4, <1>5, <1>6, <1>7, <1>8, <1>9, <1>10, <1>11 DEF Next

\* bootstrap, the EventSource, the fallback poll, once the server has settled and
\* no older answer or event is on its way: whatever is applied next brings the page
\* up to date, and from then on it stays so, however the stream breaks, polls
\* overlap and the user clicks, as long as every node runs a pod.
THEOREM CaughtUpForGood ==
    ASSUME NoBareNode
    PROVE  Spec => /\ [](Fresh /\ shown = server => [](shown = server))
                   /\ [][Fresh /\ snapshot' # snapshot => shown' = server']_vars
<1>1. IInv /\ Fresh /\ [Next]_vars => Fresh' /\ UNCHANGED server
  BY FreshStays DEF IInv
<1>2. IInv /\ Fresh /\ [Next]_vars /\ snapshot' # snapshot => shown' = server'
  <2> SUFFICES ASSUME IInv, Fresh, [Next]_vars, snapshot' # snapshot PROVE shown' = server'
    OBVIOUS
  <2>1. UNCHANGED server /\ snapshot' = server
    BY FreshStays DEF IInv, apply
  <2>2. shown' = snapshot'
    BY NextPaints DEF IInv, PaintInv, GridShowsSnapshot
  <2> QED BY <2>1, <2>2
<1>3. IInv /\ Fresh /\ shown = server /\ [Next]_vars => (shown = server)'
  <2> SUFFICES ASSUME IInv, Fresh, shown = server, [Next]_vars, snapshot' = snapshot
               PROVE  shown' = server'
    BY <1>2
  <2>1. shown = snapshot /\ shown' = snapshot'
    BY NextPaints DEF IInv, PaintInv, GridShowsSnapshot
  <2> QED BY <1>1, <2>1
<1>4. IInv /\ [Next]_vars => [Fresh /\ snapshot' # snapshot => shown' = server']_vars
  BY <1>2
<1> QED BY <1>1, <1>3, <1>4, PageInvariance, PTL DEF Spec
=============================================================================
