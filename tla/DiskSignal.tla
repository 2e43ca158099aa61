------------------------------ MODULE DiskSignal ------------------------------
(***************************************************************************)
(* The live node disk signal of the collector: currentDisk of collector.go *)
(* and fetchDisk of disk.go.                                               *)
(*                                                                         *)
(* A refresh fans out over the nodes by one route, or, while auto mode has *)
(* not settled on a route, by the kubelet route and then by the proxy.     *)
(* Each fan-out is one step here, with the verdict module FanOut is shown  *)
(* to deliver; time passes before it.                                      *)
(*                                                                         *)
(* One tick of the clock is one poll interval.  The instant lastDisk is    *)
(* kept as the ticks since, up to forbiddenRetry, beyond which nothing     *)
(* tells them apart; diskFailures stops counting at capFailThreshold.      *)
(***************************************************************************)
EXTENDS FanOutVerdict

CONSTANTS
    Nodes,             \* node names the informer cache may list
    capFailThreshold,  \* consecutive transient failures that drop the signal
    diskInterval,      \* ticks between refreshes
    forbiddenRetry     \* ticks between refreshes after a 403

Routes == {"kubelet", "proxy"}

\* diskRoute while auto mode has not settled on a route.
NoRoute == ""

ASSUME DiskAssumption == /\ capFailThreshold \in Nat \ {0}
                         /\ diskInterval \in Nat \ {0}
                         /\ forbiddenRetry \in Nat
                         /\ diskInterval <= forbiddenRetry

VARIABLES
    diskMode,      \* Options.NodeDisk, fixed at start
    diskByNode, diskLive, diskReason, diskFailures,
    sinceDisk,     \* ticks since lastDisk
    diskRoute,
    diskAt,        \* the route of the fan-out under way, or "idle"
    asked,         \* the nodes it asks
    kubeletErr,    \* fetchDisk's local: how the kubelet probe ended
    since403,      \* history: ticks since each route's fan-out was denied
    answered,      \* history: the routes over which some node ever answered
    diskWorld      \* what each route has settled on, or "any"

signal == <<diskByNode, diskLive, diskReason, diskFailures, sinceDisk>>
vars   == <<diskMode, diskByNode, diskLive, diskReason, diskFailures, sinceDisk, diskRoute,
            diskAt, asked, kubeletErr, since403, answered, diskWorld>>

Modes  == Routes \cup {"auto", "off"}
Errors == {"nil", "forbidden", "transient"}
Worlds == [Routes -> Outcomes]

\* Nothing is settled yet.
Unsettled == [r \in Routes |-> "any"]

TypeOK == /\ diskMode \in Modes
          /\ IsFigures(diskByNode, Nodes, capFailThreshold)
          /\ diskLive \in BOOLEAN
          /\ diskReason \in {NoReason} \cup Reasons
          /\ diskFailures \in 0..capFailThreshold
          /\ sinceDisk \in 0..forbiddenRetry
          /\ diskRoute \in Routes \cup {NoRoute}
          /\ diskAt \in Routes \cup {"idle"}
          /\ asked \subseteq Nodes
          /\ kubeletErr \in Errors
          /\ since403 \in [Routes -> 0..forbiddenRetry]
          /\ answered \subseteq Routes
          /\ diskWorld \in Worlds \cup {Unsettled}

\* New starts optimistic, and lastDisk is the zero time: long ago.
Init == /\ diskMode \in Modes
        /\ diskByNode = NoFigures
        /\ diskLive = TRUE
        /\ diskReason = NoReason
        /\ diskFailures = 0
        /\ sinceDisk = forbiddenRetry
        /\ diskRoute = NoRoute
        /\ diskAt = "idle"
        /\ asked = {}
        /\ kubeletErr = "nil"
        /\ since403 = [r \in Routes |-> forbiddenRetry]
        /\ answered = {}
        /\ diskWorld = Unsettled

-----------------------------------------------------------------------------
\* The second half of currentDisk, one operator per case of its switch.

\* Mutant: a success does not end the failure streak.
MutFailuresAfter(err) ==
    IF err = "forbidden" THEN 0
    ELSE IF err = "transient" /\ diskFailures < capFailThreshold THEN diskFailures + 1
    ELSE diskFailures

\* Mutant: a 403 does not end the failure streak.
MutFailuresAfterForbidden(err) ==
    IF err = "nil" THEN 0
    ELSE IF err = "transient" /\ diskFailures < capFailThreshold THEN diskFailures + 1
    ELSE diskFailures

\* Consecutive transient failures, counted up to the threshold.
FailuresAfter(err) ==
    IF err # "transient" THEN 0
    ELSE IF diskFailures < capFailThreshold THEN diskFailures + 1
    ELSE diskFailures

NoteSuccess(disk) == /\ diskByNode' = disk
                     /\ diskLive' = TRUE
                     /\ diskReason' = NoReason

NoteForbidden(disk) == /\ diskByNode' = disk
                       /\ diskLive' = FALSE
                       /\ diskReason' = ReasonForbidden

\* Mutant: the stale figures stay when the capability is lost.
MutKept(lost) == Older(diskByNode)

Kept(lost) == IF lost THEN NoFigures ELSE Older(diskByNode)

NoteTransient ==
    LET lost == diskLive /\ diskFailures' >= capFailThreshold
    IN  /\ diskLive' = (diskLive /\ ~lost)
        /\ diskByNode' = Kept(lost)
        /\ diskReason' = IF diskLive' THEN diskReason ELSE ReasonUnavailable

Note(disk, err) == /\ sinceDisk' = 0
                   /\ diskFailures' = FailuresAfter(err)
                   /\ \/ err = "nil"       /\ NoteSuccess(disk)
                      \/ err = "forbidden" /\ NoteForbidden(disk)
                      \/ err = "transient" /\ NoteTransient

-----------------------------------------------------------------------------
\* The first half of currentDisk: refresh only what is not fresh any more.
DiskDue == /\ diskMode # "off"
           /\ sinceDisk >= IF diskReason = ReasonForbidden
                           THEN forbiddenRetry ELSE diskInterval

\* fetchDisk probes while auto mode has no route.
Probing == diskMode = "auto" /\ diskRoute = NoRoute

FirstRoute == IF diskMode # "auto" THEN diskMode
              ELSE IF diskRoute = NoRoute THEN "kubelet" ELSE diskRoute

AskDisk(nodes) ==
    /\ diskAt = "idle"
    /\ DiskDue
    /\ diskAt' = FirstRoute
    /\ asked' = nodes
    /\ kubeletErr' = "nil"
    /\ UNCHANGED <<diskMode, signal, diskRoute, since403, answered, diskWorld>>

\* What the nodes may say over the route under way.
MaySay(outcome) == \A n \in asked : diskWorld[diskAt] \in {"any", outcome[n]}

\* History: who was denied, who answered.
Hear(verdict) ==
    /\ since403' = [since403 EXCEPT ![diskAt] = IF verdict.err = "forbidden" THEN 0 ELSE @]
    /\ answered' = answered \cup IF DOMAIN verdict.disk = {} THEN {} ELSE {diskAt}

\* The kubelet probe failed: fetchDisk goes on to the proxy.
FallThrough(outcome) ==
    LET verdict == Verdict(outcome)
    IN  /\ diskAt = "kubelet"
        /\ Probing
        /\ MaySay(outcome)
        /\ verdict.err # "nil"
        /\ Hear(verdict)
        /\ kubeletErr' = verdict.err
        /\ diskAt' = "proxy"
        /\ UNCHANGED <<diskMode, signal, diskRoute, asked, diskWorld>>

\* Mutant: only the proxy's error counts.
MutFetchErr(err) == err

\* The error fetchDisk reports for its last fan-out: when both probes failed, a
\* 403 of either one is the one that counts.
FetchErr(err) == IF err = "transient" /\ kubeletErr = "forbidden" THEN "forbidden" ELSE err

\* Mutant: a route whose permission was revoked is kept.
MutRouteAfter(err) == IF Probing /\ err = "nil" THEN diskAt ELSE diskRoute

\* Mutant: the mode is stored for the route.
MutRouteAfterMode(err) == IF Probing /\ err = "nil" THEN diskMode ELSE diskRoute

\* The route auto mode has settled on afterwards.
RouteAfter(err) ==
    IF Probing THEN IF err = "nil" THEN diskAt ELSE NoRoute
    ELSE IF diskMode = "auto" /\ err = "forbidden" THEN NoRoute ELSE diskRoute

\* The last fan-out of the refresh: fetchDisk returns, currentDisk takes note.
Refreshed(outcome) ==
    LET verdict == Verdict(outcome)
    IN  /\ diskAt # "idle"
        /\ MaySay(outcome)
        /\ ~ (Probing /\ diskAt = "kubelet" /\ verdict.err # "nil")
        /\ Hear(verdict)
        /\ diskRoute' = RouteAfter(verdict.err)
        /\ Note(verdict.disk, FetchErr(verdict.err))
        /\ diskAt' = "idle"
        /\ asked' = {}
        /\ kubeletErr' = "nil"
        /\ UNCHANGED <<diskMode, diskWorld>>

FanOutReturned == \E outcome \in [asked -> Outcomes] :
                     FallThrough(outcome) \/ Refreshed(outcome)

Later(ticks) == IF ticks = forbiddenRetry THEN ticks ELSE ticks + 1

Tick == /\ sinceDisk' = Later(sinceDisk)
        /\ since403' = [r \in Routes |-> Later(since403[r])]
        /\ UNCHANGED <<diskMode, diskByNode, diskLive, diskReason, diskFailures,
                       diskRoute, diskAt, asked, kubeletErr, answered, diskWorld>>

\* From here on every node says the same over a given route, for good.
Settle(world) == /\ diskWorld = Unsettled
                 /\ diskWorld' = world
                 /\ UNCHANGED <<diskMode, signal, diskRoute, diskAt, asked,
                                kubeletErr, since403, answered>>

\* A settled cluster has nodes.
Ask == \E nodes \in SUBSET Nodes : /\ diskWorld # Unsettled => nodes # {}
                                   /\ AskDisk(nodes)

Next == \/ Ask
        \/ FanOutReturned
        \/ Tick
        \/ \E world \in Worlds : Settle(world)

\* The poll goroutine keeps polling, every fan-out ends (module FanOut) and the
\* clock advances.  Nothing obliges the cluster to settle.
Fairness == WF_vars(Ask) /\ WF_vars(FanOutReturned) /\ WF_vars(Tick)

Spec == Init /\ [][Next]_vars /\ Fairness

-----------------------------------------------------------------------------
\* What currentDisk returns to pollOnce between refreshes.
DiskResult ==
    IF diskMode = "off"
    THEN [disk |-> NoFigures, live |-> FALSE, reason |-> ReasonDisabled]
    ELSE [disk |-> diskByNode, live |-> diskLive, reason |-> diskReason]

-----------------------------------------------------------------------------
\* currentDisk, fetchDisk: the figures served are those of the last refresh that
\* some node answered, whichever route it took, and survive fewer than
\* capFailThreshold failures.  On whichever path the signal goes down, none is
\* served next to a banner that says there is no disk signal.
DiskOfLastGoodRefresh ==
    /\ \A age \in Ages(diskByNode) : age = diskFailures /\ age < capFailThreshold
    /\ IF diskLive THEN diskReason = NoReason
       ELSE /\ diskReason \in {ReasonForbidden, ReasonUnavailable}
            /\ diskByNode = NoFigures

\* fetchDisk, currentDisk: a route whose fan-out was denied is not denied again
\* within forbiddenRetry, although a probe tries two routes and only the error
\* of the refresh as a whole decides how long to wait.
DenialsSpaced ==
    [][\A outcome \in [asked -> Outcomes] :
          /\ FallThrough(outcome) \/ Refreshed(outcome)
          /\ Verdict(outcome).err = "forbidden"
          => since403[diskAt] = forbiddenRetry]_vars

\* currentDisk implements the contract shared by both optional signals.
Contract == INSTANCE Capability WITH
                up     <- diskLive,
                reason <- diskReason,
                streak <- diskFailures,
                ages   <- Ages(diskByNode)
KeepsContract == Contract!Spec

\* What the signal says of a route whose nodes all say o.
Reports(o) == CASE o = "ok"        -> diskLive
                [] o = "forbidden" -> diskReason = ReasonForbidden
                [] o = "transient" -> diskReason = ReasonUnavailable

\* What the signal says once it has understood the world.  Auto mode promises
\* the other route when one is denied, not when the one in use is unreachable:
\* it sticks with that.
Understood(world) ==
    LET said == {world[r] : r \in Routes}
    IN  IF diskMode \in Routes THEN Reports(world[diskMode])
        ELSE /\ "ok" \notin said => ~diskLive
             /\ "ok" \in said /\ "transient" \notin said => diskLive
             /\ \A o \in Outcomes : said = {o} => Reports(o)

\* currentDisk, fetchDisk: whatever the two routes settle on, after any history,
\* a signal that is on comes to say so for good.  A route denied or granted later is
\* noticed without a restart.
ReportsTheWorld == \A world \in Worlds :
                       (diskMode # "off" /\ diskWorld = world) ~> []Understood(world)

\* disk.go on NodeDiskAuto, collector.go on diskRoute: auto mode settles on a
\* route that has answered.
SettledRouteAnswered == diskRoute # NoRoute => diskRoute \in answered
=============================================================================
