--------------------------- MODULE DiskSignalProofs ---------------------------
(***************************************************************************)
(* Proofs about DiskSignal, for every set of nodes, every threshold and    *)
(* every pair of intervals.                                                *)
(*                                                                         *)
(* That a denied route is left alone for forbiddenRetry is not inductive:  *)
(* currentDisk only remembers when the refresh as a whole ended and how.   *)
(* The invariant says why that is enough.  Between refreshes every route   *)
(* the next one may take was denied long ago, or not since the end of a    *)
(* refresh that came to a 403 as a whole (QuietBetween).  During one, the  *)
(* routes still to be asked have waited, and a 403 of the kubelet probe is *)
(* remembered in kubeletErr until the refresh ends (QuietDuring).          *)
(***************************************************************************)
EXTENDS DiskSignal, TLAPS

\* While the signal is up its streak has not been completed.
UpBelowThreshold == diskLive => diskFailures < capFailThreshold

\* The routes the next refresh may take.
Candidates == IF diskMode = "off" THEN {}
              ELSE IF diskMode # "auto" THEN {diskMode}
              ELSE IF diskRoute = NoRoute THEN Routes
              ELSE {diskRoute}

\* The last denial of route r is at least forbiddenRetry ago.
Waited(r) == since403[r] = forbiddenRetry

QuietBetween ==
    diskAt = "idle" =>
        \A r \in Candidates :
            Waited(r) \/ (diskReason = ReasonForbidden /\ sinceDisk <= since403[r])

QuietDuring ==
    diskAt # "idle" =>
        /\ diskMode # "off"
        /\ Waited(diskAt)
        /\ Probing /\ diskAt = "kubelet" => Waited("proxy") /\ kubeletErr = "nil"
        /\ Probing /\ diskAt = "proxy" => /\ kubeletErr # "nil"
                                          /\ kubeletErr = "transient" => Waited("kubelet")
        /\ ~Probing => diskAt = FirstRoute /\ kubeletErr = "nil"

IInv == /\ TypeOK
        /\ DiskOfLastGoodRefresh
        /\ UpBelowThreshold
        /\ QuietBetween
        /\ QuietDuring

-----------------------------------------------------------------------------
\* No figures: an empty map has no name and no age, does not age, and is one
\* of figures.
LEMMA NoFiguresEmpty ==
    ASSUME NEW N, NEW k \in Nat
    PROVE  /\ IsFigures(NoFigures, N, k)
           /\ Ages(NoFigures) = {}
           /\ Older(NoFigures) = NoFigures
  BY DEF IsFigures, NoFigures, Ages, Older

\* Figures that are all of one age a are figures of any limit above a.
LEMMA OlderFigures ==
    ASSUME NEW N, NEW k \in Nat, NEW m, IsFigures(m, N, k),
           NEW a \in Nat, a < k, \A b \in Ages(m) : b = a
    PROVE  /\ IsFigures(Older(m), N, k)
           /\ \A b \in Ages(Older(m)) : b = a + 1
           /\ Ages(Older(m)) = {b + 1 : b \in Ages(m)}
  BY DEF IsFigures, Older, Ages

\* fanOut's verdict: fresh figures of some of the nodes asked, and none when
\* there is an error.
LEMMA VerdictFigures ==
    ASSUME NEW S \in SUBSET Nodes, NEW outcome \in [S -> Outcomes], NEW k \in Nat
    PROVE  /\ Verdict(outcome).err \in Errors
           /\ IsFigures(Verdict(outcome).disk, Nodes, k)
           /\ Ages(Verdict(outcome).disk) \subseteq {0}
           /\ Verdict(outcome).err # "nil" => Verdict(outcome).disk = NoFigures
  <1> DEFINE ok == {n \in DOMAIN outcome : outcome[n] = "ok"}
  <1>1. ok \in SUBSET Nodes
    OBVIOUS
  <1>2. Verdict(outcome).disk = Measured(ok)
    BY DEF Verdict
  <1>3. IsFigures(Measured(ok), Nodes, k) /\ Ages(Measured(ok)) \subseteq {0}
    <2> HIDE DEF ok
    <2> QED
      BY <1>1 DEF IsFigures, Measured, Ages
  <1>4. Verdict(outcome).err \in Errors
    BY DEF Verdict, Errors
  <1>5. ASSUME Verdict(outcome).err # "nil" PROVE Verdict(outcome).disk = NoFigures
    <2>1. ok = {}
      BY <1>5 DEF Verdict
    <2> HIDE DEF ok
    <2> QED
      BY <1>2, <2>1 DEF Measured, NoFigures
  <1> QED
    BY <1>2, <1>3, <1>4, <1>5

-----------------------------------------------------------------------------
\* What New sets up satisfies the inductive invariant.
LEMMA InitEstablishes == Init => IInv
  <1> USE DiskAssumption
  <1> SUFFICES ASSUME Init PROVE IInv
    OBVIOUS
  <1>1. IsFigures(NoFigures, Nodes, capFailThreshold) /\ Ages(NoFigures) = {}
    BY NoFiguresEmpty
  <1>2. TypeOK
    BY <1>1 DEF Init, TypeOK, Modes, Errors, Routes
  <1>3. DiskOfLastGoodRefresh
    BY <1>1 DEF Init, DiskOfLastGoodRefresh
  <1>4. QuietBetween
    <2>1. Candidates \subseteq Routes
      BY DEF Init, Candidates, Modes, Routes
    <2> QED
      BY <2>1 DEF Init, QuietBetween, Waited
  <1> QED
    BY <1>2, <1>3, <1>4 DEF Init, IInv, UpBelowThreshold, QuietDuring

\* What the invariant says of the capability and its figures.
SignalOK == /\ IsFigures(diskByNode, Nodes, capFailThreshold)
            /\ diskLive \in BOOLEAN
            /\ diskReason \in {NoReason} \cup Reasons
            /\ diskFailures \in 0..capFailThreshold
            /\ sinceDisk \in 0..forbiddenRetry
            /\ DiskOfLastGoodRefresh
            /\ UpBelowThreshold

\* currentDisk's switch keeps it, whatever fetchDisk returned, and a 403 is
\* the reason afterwards exactly if fetchDisk returned one.
LEMMA NotePreserves ==
    ASSUME IInv, NEW disk, NEW err \in Errors, Note(disk, err),
           IsFigures(disk, Nodes, capFailThreshold), Ages(disk) \subseteq {0},
           err # "nil" => disk = NoFigures
    PROVE  /\ SignalOK'
           /\ err = "forbidden" => diskReason' = ReasonForbidden
           /\ sinceDisk' = 0
  <1> USE DiskAssumption
  <1>0. /\ diskLive \in BOOLEAN
        /\ diskFailures \in 0..capFailThreshold
        /\ IsFigures(diskByNode, Nodes, capFailThreshold)
        /\ DiskOfLastGoodRefresh
        /\ UpBelowThreshold
    BY DEF IInv, TypeOK
  <1>a. /\ IsFigures(NoFigures, Nodes, capFailThreshold)
        /\ Ages(NoFigures) = {}
        /\ Older(NoFigures) = NoFigures
    BY NoFiguresEmpty
  <1>s. sinceDisk' = 0 /\ sinceDisk' \in 0..forbiddenRetry
    BY DEF Note
  <1>1. CASE err = "nil"
    <2>1. /\ diskFailures' = 0 /\ diskByNode' = disk
          /\ diskLive' = TRUE /\ diskReason' = NoReason
      BY <1>1 DEF Note, FailuresAfter, NoteSuccess
    <2>2. DiskOfLastGoodRefresh'
      BY <2>1 DEF DiskOfLastGoodRefresh
    <2> QED
      BY <1>1, <1>s, <2>1, <2>2 DEF SignalOK, UpBelowThreshold
  <1>2. CASE err = "forbidden"
    <2>1. /\ diskFailures' = 0 /\ diskByNode' = NoFigures
          /\ diskLive' = FALSE /\ diskReason' = ReasonForbidden
      BY <1>2 DEF Note, FailuresAfter, NoteForbidden
    <2>2. DiskOfLastGoodRefresh'
      BY <2>1, <1>a DEF DiskOfLastGoodRefresh
    <2>3. diskReason' \in {NoReason} \cup Reasons
      BY <2>1 DEF Reasons
    <2>4. diskFailures' \in 0..capFailThreshold
      BY <2>1
    <2>5. diskLive' \in BOOLEAN /\ UpBelowThreshold'
      BY <2>1 DEF UpBelowThreshold
    <2> QED
      BY <1>s, <1>a, <2>1, <2>2, <2>3, <2>4, <2>5 DEF SignalOK
  <1>3. CASE err = "transient"
    <2>0. NoteTransient /\ diskFailures' = FailuresAfter("transient")
      BY <1>3 DEF Note
    <2>1. CASE diskLive /\ diskFailures + 1 < capFailThreshold
      <3>a. diskFailures' = diskFailures + 1 /\ ~ (diskFailures' >= capFailThreshold)
        BY <2>0, <2>1, <1>0 DEF FailuresAfter
      <3>b. diskLive' = TRUE
        BY <2>0, <2>1, <3>a, Zenon DEF NoteTransient
      <3>1. /\ diskFailures' = diskFailures + 1
            /\ diskByNode' = Older(diskByNode)
            /\ diskLive' = TRUE /\ diskReason' = NoReason
        BY <2>0, <2>1, <1>0, <3>a, <3>b, Zenon
        DEF NoteTransient, Kept, DiskOfLastGoodRefresh
      <3>2. /\ IsFigures(Older(diskByNode), Nodes, capFailThreshold)
            /\ \A b \in Ages(Older(diskByNode)) : b = diskFailures + 1
        <4>1. \A b \in Ages(diskByNode) : b = diskFailures
          BY <1>0 DEF DiskOfLastGoodRefresh
        <4>2. diskFailures \in Nat /\ diskFailures < capFailThreshold
          BY <2>1, <1>0
        <4> QED
          BY <1>0, <4>1, <4>2, OlderFigures
      <3>3. DiskOfLastGoodRefresh'
        BY <2>1, <3>1, <3>2 DEF DiskOfLastGoodRefresh
      <3> QED
        BY <1>3, <1>0, <1>s, <2>1, <3>1, <3>2, <3>3 DEF SignalOK, UpBelowThreshold
    <2>2. CASE ~ (diskLive /\ diskFailures + 1 < capFailThreshold)
      <3>1. diskFailures' \in 0..capFailThreshold
        BY <2>0, <1>0 DEF FailuresAfter
      <3>a. diskLive => diskFailures' >= capFailThreshold
        BY <2>0, <2>2, <1>0 DEF FailuresAfter
      <3>b. diskLive' = FALSE
        BY <2>0, <3>a, Zenon DEF NoteTransient
      <3>2. diskLive' = FALSE /\ diskReason' = ReasonUnavailable
        BY <2>0, <3>b, Zenon DEF NoteTransient
      <3>3. diskByNode' = NoFigures
        <4>1. CASE diskLive
          BY <2>0, <2>2, <1>0, <4>1 DEF FailuresAfter, NoteTransient, Kept, UpBelowThreshold
        <4>2. CASE ~diskLive
          BY <2>0, <1>0, <1>a, <4>2 DEF NoteTransient, Kept, DiskOfLastGoodRefresh
        <4> QED
          BY <4>1, <4>2
      <3>4. DiskOfLastGoodRefresh'
        BY <3>2, <3>3, <1>a DEF DiskOfLastGoodRefresh
      <3> QED
        BY <1>3, <1>s, <1>a, <3>1, <3>2, <3>3, <3>4 DEF SignalOK, UpBelowThreshold, Reasons
    <2> QED
      BY <2>1, <2>2
  <1> QED
    BY <1>1, <1>2, <1>3 DEF Errors

\* A step that leaves the capability and its figures alone keeps what is said
\* about them.
LEMMA SignalUnchanged ==
    ASSUME IInv, UNCHANGED <<diskByNode, diskLive, diskReason, diskFailures>>,
           sinceDisk' \in 0..forbiddenRetry
    PROVE  SignalOK'
  BY DEF IInv, TypeOK, SignalOK, DiskOfLastGoodRefresh, UpBelowThreshold

\* The rest of the invariant: where the refresh is, and who was denied when.
RefreshOK == /\ diskMode \in Modes
             /\ diskRoute \in Routes \cup {NoRoute}
             /\ diskAt \in Routes \cup {"idle"}
             /\ asked \subseteq Nodes
             /\ kubeletErr \in Errors
             /\ since403 \in [Routes -> 0..forbiddenRetry]
             /\ answered \subseteq Routes
             /\ diskWorld \in Worlds \cup {Unsettled}
             /\ QuietBetween
             /\ QuietDuring

LEMMA TwoParts == /\ IInv <=> SignalOK /\ RefreshOK
                  /\ SignalOK' /\ RefreshOK' => IInv'
  BY DEF IInv, TypeOK, SignalOK, RefreshOK

\* currentDisk starts a refresh: what it may ask has waited long enough.
LEMMA AskPreserves ==
    ASSUME IInv, NEW nodes \in SUBSET Nodes, AskDisk(nodes)
    PROVE  IInv'
  <1> USE DiskAssumption
  <1>0. SignalOK /\ RefreshOK
    BY TwoParts
  <1>1. SignalOK'
    BY <1>0, SignalUnchanged DEF AskDisk, signal, SignalOK
  <1>2. \A r \in Candidates : Waited(r)
    <2> SUFFICES ASSUME NEW r \in Candidates PROVE Waited(r)
      OBVIOUS
    <2>1. r \in Routes
      BY <1>0 DEF RefreshOK, Candidates, Modes
    <2>2. since403[r] \in 0..forbiddenRetry /\ sinceDisk \in 0..forbiddenRetry
      BY <1>0, <2>1 DEF RefreshOK, SignalOK
    <2>3. Waited(r) \/ (sinceDisk >= forbiddenRetry /\ sinceDisk <= since403[r])
      BY <1>0 DEF AskDisk, DiskDue, RefreshOK, QuietBetween
    <2> QED
      BY <2>2, <2>3 DEF Waited
  <1>3. /\ diskAt' = FirstRoute /\ FirstRoute \in Routes /\ diskMode # "off"
        /\ FirstRoute \in Candidates
        /\ Probing => FirstRoute = "kubelet" /\ Candidates = Routes
    BY <1>0 DEF AskDisk, DiskDue, FirstRoute, Candidates, RefreshOK, Modes, Routes, Probing, NoRoute
  <1>4. /\ UNCHANGED <<diskMode, diskRoute, since403, answered, diskWorld>>
        /\ kubeletErr' = "nil" /\ asked' = nodes
        /\ Probing' = Probing /\ FirstRoute' = FirstRoute
    BY DEF AskDisk, Probing, FirstRoute
  <1>5. QuietDuring'
    <2>1. Waited(diskAt)' /\ (Probing => Waited("proxy")')
      BY <1>2, <1>3, <1>4 DEF Waited, Routes
    <2> QED
      BY <2>1, <1>3, <1>4 DEF QuietDuring
  <1>6. QuietBetween'
    BY <1>3 DEF QuietBetween, Routes
  <1>7. RefreshOK'
    BY <1>0, <1>3, <1>4, <1>5, <1>6 DEF RefreshOK, Errors
  <1> QED
    BY <1>1, <1>7, TwoParts

\* The kubelet probe failed: a 403 is remembered in kubeletErr.
LEMMA FallThroughPreserves ==
    ASSUME IInv, NEW outcome \in [asked -> Outcomes], FallThrough(outcome)
    PROVE  IInv'
  <1> USE DiskAssumption
  <1>0. SignalOK /\ RefreshOK
    BY TwoParts
  <1>1. SignalOK'
    BY <1>0, SignalUnchanged DEF FallThrough, signal, SignalOK
  <1>2. PICK err \in Errors : err = Verdict(outcome).err
    BY <1>0, VerdictFigures DEF RefreshOK
  <1>3. /\ diskAt = "kubelet" /\ diskAt' = "proxy" /\ Probing /\ Probing'
        /\ err # "nil" /\ kubeletErr' = err
        /\ UNCHANGED <<diskMode, diskRoute, asked, diskWorld>>
        /\ since403' = [since403 EXCEPT !["kubelet"] = IF err = "forbidden" THEN 0 ELSE @]
        /\ answered' \subseteq answered \cup {"kubelet"}
    BY <1>2 DEF FallThrough, Hear, Probing
  <1>4. /\ since403 \in [Routes -> 0..forbiddenRetry]
        /\ Waited("kubelet") /\ Waited("proxy") /\ diskMode # "off"
    BY <1>0, <1>3 DEF RefreshOK, QuietDuring
  <1>5. /\ since403' \in [Routes -> 0..forbiddenRetry]
        /\ Waited("proxy")' /\ (err = "transient" => Waited("kubelet")')
    BY <1>3, <1>4 DEF Waited, Routes
  <1>6. QuietDuring' /\ QuietBetween'
    BY <1>3, <1>4, <1>5 DEF QuietDuring, QuietBetween
  <1>7. RefreshOK'
    BY <1>0, <1>3, <1>5, <1>6 DEF RefreshOK, Routes
  <1> QED
    BY <1>1, <1>7, TwoParts

\* The refresh ends: a route denied in it is a candidate of the next one only
\* if the refresh as a whole counts as denied.
LEMMA RefreshedPreserves ==
    ASSUME IInv, NEW outcome \in [asked -> Outcomes], Refreshed(outcome)
    PROVE  IInv'
  <1> USE DiskAssumption
  <1>0. SignalOK /\ RefreshOK
    BY TwoParts
  <1>v. /\ Verdict(outcome).err \in Errors
        /\ IsFigures(Verdict(outcome).disk, Nodes, capFailThreshold)
        /\ Ages(Verdict(outcome).disk) \subseteq {0}
        /\ Verdict(outcome).err # "nil" => Verdict(outcome).disk = NoFigures
    BY <1>0, VerdictFigures DEF RefreshOK
  <1>1. PICK err, disk : /\ err = Verdict(outcome).err /\ disk = Verdict(outcome).disk
                         /\ err \in Errors
    BY <1>v
  <1>2. /\ diskAt # "idle" /\ diskAt' = "idle"
        /\ ~ (Probing /\ diskAt = "kubelet" /\ err # "nil")
        /\ diskRoute' = RouteAfter(err)
        /\ Note(disk, FetchErr(err))
        /\ asked' = {} /\ kubeletErr' = "nil"
        /\ UNCHANGED <<diskMode, diskWorld>>
        /\ since403' = [since403 EXCEPT ![diskAt] = IF err = "forbidden" THEN 0 ELSE @]
        /\ answered' \subseteq answered \cup {diskAt}
    BY <1>1 DEF Refreshed, Hear
  <1>3. FetchErr(err) \in Errors /\ (FetchErr(err) # "nil" => disk = NoFigures)
    BY <1>v, <1>1 DEF FetchErr, Errors
  <1>4. /\ SignalOK' /\ sinceDisk' = 0
        /\ FetchErr(err) = "forbidden" => diskReason' = ReasonForbidden
    BY <1>v, <1>1, <1>2, <1>3, NotePreserves
  <1>5. /\ diskAt \in Routes /\ diskMode # "off" /\ Waited(diskAt)
        /\ since403 \in [Routes -> 0..forbiddenRetry]
        /\ Probing /\ diskAt = "proxy" => (kubeletErr = "transient" => Waited("kubelet"))
        /\ Probing /\ diskAt = "proxy" => kubeletErr \in {"forbidden", "transient"}
        /\ ~Probing => diskAt = FirstRoute
    BY <1>0, <1>2 DEF RefreshOK, QuietDuring, Errors
  <1>6. since403' \in [Routes -> 0..forbiddenRetry]
    BY <1>2, <1>5
  <1>7. diskRoute' \in Routes \cup {NoRoute}
    BY <1>0, <1>2, <1>5 DEF RouteAfter, RefreshOK
  <1>8. QuietBetween'
    <2>1. CASE FetchErr(err) = "forbidden"
      <3>1. Candidates' \subseteq Routes
        BY <1>0, <1>2, <1>7 DEF Candidates, RefreshOK, Modes
      <3>2. \A r \in Routes : sinceDisk' <= since403'[r]
        BY <1>4, <1>6
      <3> QED
        BY <2>1, <1>4, <3>1, <3>2 DEF QuietBetween
    <2>2. CASE FetchErr(err) # "forbidden"
      <3>1. err # "forbidden" /\ since403' = since403
        BY <2>2, <1>2, <1>5 DEF FetchErr
      <3>2. \A r \in Candidates' : Waited(r)
        <4>1. CASE Probing /\ err = "nil"
          BY <4>1, <1>2, <1>5 DEF Candidates, RouteAfter, Probing, Routes, NoRoute
        <4>2. CASE Probing /\ err # "nil"
          <5>1. err = "transient"
            BY <1>1, <3>1, <4>2 DEF Errors
          <5>2. diskAt = "proxy" /\ kubeletErr = "transient"
            BY <2>2, <5>1, <4>2, <1>2, <1>5 DEF FetchErr, Routes
          <5>3. Candidates' = Routes
            BY <4>2, <1>2 DEF Candidates, RouteAfter, Probing, NoRoute
          <5> QED
            BY <4>2, <5>2, <5>3, <1>5 DEF Routes
        <4>3. CASE ~Probing
          <5>1. diskRoute' = diskRoute
            BY <4>3, <3>1, <1>2 DEF RouteAfter
          <5>2. Candidates' = {FirstRoute}
            BY <4>3, <5>1, <1>2, <1>5 DEF Candidates, Probing, FirstRoute
          <5> QED
            BY <4>3, <5>2, <1>5
        <4> QED
          BY <4>1, <4>2, <4>3
      <3> QED
        BY <3>1, <3>2 DEF QuietBetween, Waited
    <2> QED
      BY <2>1, <2>2
  <1>9. QuietDuring'
    BY <1>2 DEF QuietDuring
  <1>10. RefreshOK'
    BY <1>0, <1>2, <1>5, <1>6, <1>7, <1>8, <1>9 DEF RefreshOK, Errors
  <1> QED
    BY <1>4, <1>10, TwoParts

\* Time passes for the refresh and for every denial alike.
LEMMA TickPreserves ==
    ASSUME IInv, Tick
    PROVE  IInv'
  <1> USE DiskAssumption
  <1>0. SignalOK /\ RefreshOK
    BY TwoParts
  <1>1. sinceDisk \in 0..forbiddenRetry /\ since403 \in [Routes -> 0..forbiddenRetry]
    BY <1>0 DEF SignalOK, RefreshOK
  <1>2. sinceDisk' \in 0..forbiddenRetry
    BY <1>1 DEF Tick, Later
  <1>3. SignalOK'
    BY <1>2, SignalUnchanged DEF Tick
  <1>4. since403' \in [Routes -> 0..forbiddenRetry]
    BY <1>1 DEF Tick, Later
  <1>5. \A r \in Routes : /\ Waited(r) => Waited(r)'
                          /\ sinceDisk <= since403[r] => sinceDisk' <= since403'[r]
    BY <1>1 DEF Tick, Later, Waited
  <1>6. UNCHANGED <<diskMode, diskReason, diskRoute, diskAt, asked, kubeletErr,
                    answered, diskWorld>>
    BY DEF Tick
  <1>7. Candidates' = Candidates /\ Candidates \subseteq Routes
    BY <1>0, <1>6 DEF Candidates, RefreshOK, Modes
  <1>8. QuietBetween'
    BY <1>0, <1>5, <1>6, <1>7 DEF QuietBetween, RefreshOK
  <1>9. QuietDuring'
    <2>1. Probing' = Probing /\ FirstRoute' = FirstRoute
      BY <1>6 DEF Probing, FirstRoute
    <2>2. "kubelet" \in Routes /\ "proxy" \in Routes /\ (diskAt # "idle" => diskAt \in Routes)
      BY <1>0 DEF RefreshOK, Routes
    <2>3. Waited(diskAt)' <=> since403'[diskAt] = forbiddenRetry
      BY <1>6 DEF Waited
    <2> QED
      BY <1>0, <1>5, <1>6, <2>1, <2>2, <2>3 DEF QuietDuring, RefreshOK, Waited
  <1>10. RefreshOK'
    BY <1>0, <1>4, <1>6, <1>8, <1>9 DEF RefreshOK
  <1> QED
    BY <1>3, <1>10, TwoParts

\* A step that changes nothing but the world outside.
LEMMA OutsidePreserves ==
    ASSUME IInv, diskWorld' \in Worlds \cup {Unsettled},
           UNCHANGED <<diskMode, signal, diskRoute, diskAt, asked,
                       kubeletErr, since403, answered>>
    PROVE  IInv'
  <1>0. SignalOK /\ RefreshOK
    BY TwoParts
  <1>1. SignalOK'
    BY <1>0, SignalUnchanged DEF signal, SignalOK
  <1>2. QuietBetween'
    BY <1>0 DEF RefreshOK, signal, QuietBetween, Candidates, Waited
  <1>3. QuietDuring'
    BY <1>0 DEF RefreshOK, QuietDuring, Probing, FirstRoute, Waited
  <1>4. RefreshOK'
    BY <1>0, <1>2, <1>3 DEF RefreshOK
  <1> QED
    BY <1>1, <1>4, TwoParts

\* Every step keeps the inductive invariant: one case per action.
LEMMA NextPreserves == IInv /\ [Next]_vars => IInv'
  <1> SUFFICES ASSUME IInv, [Next]_vars PROVE IInv'
    OBVIOUS
  <1>1. CASE Ask
    BY <1>1, AskPreserves DEF Ask
  <1>2. CASE FanOutReturned
    BY <1>2, FallThroughPreserves, RefreshedPreserves DEF FanOutReturned
  <1>3. CASE Tick
    BY <1>3, TickPreserves
  <1>4. ASSUME NEW world \in Worlds, Settle(world) PROVE IInv'
    BY <1>4, OutsidePreserves DEF Settle
  <1>5. CASE UNCHANGED vars
    <2>1. diskWorld' \in Worlds \cup {Unsettled}
      BY <1>5 DEF vars, IInv, TypeOK
    <2> QED
      BY <1>5, <2>1, OutsidePreserves DEF vars, signal
  <1> QED
    BY <1>1, <1>2, <1>3, <1>4, <1>5 DEF Next

-----------------------------------------------------------------------------
\* The inductive invariant holds in every reachable state.
THEOREM Invariance == Spec => []IInv
  BY InitEstablishes, NextPreserves, PTL DEF Spec

\* Every variable of the disk signal keeps its type.
THEOREM TypeCorrect == Spec => []TypeOK
  <1>1. IInv => TypeOK
    BY DEF IInv
  <1> QED
    BY <1>1, Invariance, PTL

\* currentDisk: the figures served are of the last good refresh, and none is
\* served while the signal is down.
THEOREM FiguresOfLastGoodRefresh == Spec => []DiskOfLastGoodRefresh
  <1>1. IInv => DiskOfLastGoodRefresh
    BY DEF IInv
  <1> QED
    BY <1>1, Invariance, PTL

\* fetchDisk, currentDisk: on either route, at most one denial per
\* forbiddenRetry, in whichever mode.
THEOREM OneDenialPerRouteAndRetry == Spec => DenialsSpaced
  <1>1. IInv /\ [Next]_vars =>
          [\A outcome \in [asked -> Outcomes] :
              /\ FallThrough(outcome) \/ Refreshed(outcome)
              /\ Verdict(outcome).err = "forbidden"
              => since403[diskAt] = forbiddenRetry]_vars
    BY DEF IInv, QuietDuring, Waited, FallThrough, Refreshed
  <1> QED
    BY <1>1, Invariance, PTL DEF DenialsSpaced, Spec

-----------------------------------------------------------------------------
\* A signal that has just been set up is as the contract begins.
LEMMA ContractInit == Init => Contract!Init
  <1> USE DEF NoReason, ReasonForbidden, ReasonAbsent, ReasonUnavailable,
              Contract!NoReason, Contract!ReasonForbidden,
              Contract!ReasonAbsent, Contract!ReasonUnavailable
  <1>e. Ages(NoFigures) = {} /\ Older(NoFigures) = NoFigures
    BY NoFiguresEmpty
  <1> QED
    BY <1>e DEF Init, Contract!Init

\* Every fetch outcome is a step of the contract, every other step leaves the
\* contract's variables alone.
LEMMA ContractStep == IInv /\ [Next]_vars => [Contract!Next]_(Contract!vars)
  <1> USE DiskAssumption
  <1> USE DEF NoReason, ReasonForbidden, ReasonAbsent, ReasonUnavailable,
              Contract!NoReason, Contract!ReasonForbidden,
              Contract!ReasonAbsent, Contract!ReasonUnavailable
  <1>e. Ages(NoFigures) = {} /\ Older(NoFigures) = NoFigures
    BY NoFiguresEmpty
  <1> SUFFICES ASSUME IInv, [Next]_vars
               PROVE  Contract!Next \/ UNCHANGED Contract!vars
    OBVIOUS
  <1>t. /\ diskLive \in BOOLEAN
        /\ diskFailures \in 0..capFailThreshold
        /\ DiskOfLastGoodRefresh
        /\ UpBelowThreshold
        /\ asked \in SUBSET Nodes
        /\ IsFigures(diskByNode, Nodes, capFailThreshold)
    BY DEF IInv, TypeOK
  <1>1. ASSUME UNCHANGED signal
        PROVE  UNCHANGED Contract!vars
    BY <1>1 DEF Contract!vars, signal
  <1>2. ASSUME NEW outcome \in [asked -> Outcomes], Refreshed(outcome)
        PROVE  Contract!Next
    <2>v. /\ Verdict(outcome).err \in Errors
          /\ Ages(Verdict(outcome).disk) \subseteq {0}
          /\ Verdict(outcome).err # "nil" => Verdict(outcome).disk = NoFigures
      BY <1>t, VerdictFigures
    <2>1. PICK disk, err :
            /\ Note(disk, err)
            /\ err \in Errors
            /\ Ages(disk) \subseteq {0}
            /\ err # "nil" => disk = NoFigures
      <3> DEFINE d == Verdict(outcome).disk
                 e == FetchErr(Verdict(outcome).err)
      <3>1. e \in Errors /\ (e # "nil" => d = NoFigures)
        BY <2>v DEF FetchErr, Errors
      <3>2. Note(d, e) /\ Ages(d) \subseteq {0}
        BY <1>2, <2>v DEF Refreshed
      <3> HIDE DEF d, e
      <3> QED
        BY <3>1, <3>2, Zenon
    <2>2. CASE err = "nil"
      <3>1. /\ diskFailures' = 0 /\ diskByNode' = disk
            /\ diskLive' = TRUE /\ diskReason' = NoReason
        BY <2>1, <2>2 DEF Note, FailuresAfter, NoteSuccess
      <3> QED
        BY <2>1, <3>1 DEF Contract!Next, Contract!Succeed
    <2>3. CASE err = "forbidden"
      <3>1. /\ diskFailures' = 0 /\ diskByNode' = NoFigures
            /\ diskLive' = FALSE /\ diskReason' = ReasonForbidden
        BY <2>1, <2>3 DEF Note, FailuresAfter, NoteForbidden
      <3> QED
        BY <3>1, <1>e DEF Contract!Next, Contract!Refuse
    <2>4. CASE err = "transient"
      <3>0. NoteTransient /\ diskFailures' = FailuresAfter("transient")
        BY <2>1, <2>4 DEF Note
      <3>1. CASE diskLive /\ diskFailures + 1 < capFailThreshold
        <4>1. diskFailures' = diskFailures + 1 /\ ~ (diskFailures' >= capFailThreshold)
          BY <3>0, <3>1, <1>t DEF FailuresAfter
        <4>2. diskLive' = TRUE /\ diskLive = TRUE
          BY <3>0, <3>1, <4>1, <1>t, Zenon DEF NoteTransient
        <4>3. diskReason' = diskReason /\ diskByNode' = Older(diskByNode)
          BY <3>0, <3>1, <4>1, <4>2, Zenon DEF NoteTransient, Kept
        <4>4. Ages(Older(diskByNode)) = {a + 1 : a \in Ages(diskByNode)}
          BY DEF Older, Ages
        <4> QED
          BY <3>1, <4>1, <4>2, <4>3, <4>4 DEF Contract!Next, Contract!Survive
      <3>2. CASE diskLive /\ diskFailures + 1 >= capFailThreshold
        <4>1. diskFailures' = capFailThreshold
          BY <3>0, <3>2, <1>t DEF FailuresAfter, UpBelowThreshold
        <4>2. diskFailures' >= capFailThreshold
          BY <4>1
        <4>3. diskLive' = FALSE
          BY <3>0, <3>2, <4>2, Zenon DEF NoteTransient
        <4>4. diskReason' = ReasonUnavailable /\ diskByNode' = NoFigures
          BY <3>0, <3>2, <4>2, <4>3, Zenon DEF NoteTransient, Kept
        <4> QED
          BY <3>2, <4>1, <4>3, <4>4, <1>e DEF Contract!Next, Contract!Lose
      <3>3. CASE ~diskLive
        <4>1. diskFailures' \in diskFailures..capFailThreshold
          BY <3>0, <1>t DEF FailuresAfter
        <4>2. diskLive' = FALSE
          BY <3>0, <3>3, Zenon DEF NoteTransient
        <4>3. diskReason' = ReasonUnavailable /\ diskByNode' = NoFigures
          BY <3>0, <3>3, <4>2, <1>e, <1>t, Zenon
          DEF NoteTransient, Kept, DiskOfLastGoodRefresh
        <4> QED
          BY <3>3, <4>1, <4>2, <4>3, <1>e DEF Contract!Next, Contract!StayDown
      <3> QED
        BY <3>1, <3>2, <3>3, <1>t
    <2> QED
      BY <2>1, <2>2, <2>3, <2>4 DEF Errors
  <1>3. ASSUME NEW outcome \in [asked -> Outcomes], FallThrough(outcome)
        PROVE  UNCHANGED Contract!vars
    BY <1>3, <1>1 DEF FallThrough
  <1>4. CASE Ask
    BY <1>4, <1>1 DEF Ask, AskDisk
  <1>5. CASE Tick
    BY <1>5 DEF Tick, Contract!vars
  <1>6. ASSUME NEW world \in Worlds, Settle(world)
        PROVE  UNCHANGED Contract!vars
    BY <1>6, <1>1 DEF Settle
  <1>7. CASE UNCHANGED vars
    BY <1>7 DEF vars, Contract!vars
  <1> QED
    BY <1>2, <1>3, <1>4, <1>5, <1>6, <1>7 DEF Next, FanOutReturned

\* currentDisk implements Capability: every refresh is a step of the contract,
\* every other step leaves the contract's variables alone.
THEOREM DiskKeepsContract == Spec => KeepsContract
  BY ContractInit, ContractStep, Invariance, PTL DEF Spec, KeepsContract, Contract!Spec

-----------------------------------------------------------------------------
\* Which refreshes settle auto mode on a route that has not answered.

\* A refresh under way asks some node: the node cache was not empty.
AsksSomeNode == diskAt # "idle" => asked # {}

\* A verdict without an error, on at least one node, has figures.
LEMMA NoErrorMeansFigures ==
    ASSUME NEW S, S # {}, NEW outcome \in [S -> Outcomes], Verdict(outcome).err = "nil"
    PROVE  DOMAIN Verdict(outcome).disk # {}
  BY DEF Verdict, Measured

\* fetchDisk, fanOut: an empty node cache is the only thing that settles auto mode
\* on a route nobody has answered over.  If every refresh asks at least one node,
\* SettledRouteAnswered, which the comments on NodeDiskAuto and diskRoute promise,
\* holds.
THEOREM SettlesOnAnswer ==
    Init /\ [][Next]_vars /\ []AsksSomeNode => []SettledRouteAnswered
  <1>1. Init => SettledRouteAnswered
    BY DEF Init, SettledRouteAnswered
  <1>2. SettledRouteAnswered /\ AsksSomeNode /\ [Next]_vars => SettledRouteAnswered'
    <2> SUFFICES ASSUME SettledRouteAnswered, AsksSomeNode, [Next]_vars
                 PROVE  SettledRouteAnswered'
      OBVIOUS
    <2>1. CASE UNCHANGED <<diskRoute, answered>>
      BY <2>1 DEF SettledRouteAnswered
    <2>2. ASSUME NEW outcome \in [asked -> Outcomes], Refreshed(outcome)
          PROVE  SettledRouteAnswered'
      <3> DEFINE err == Verdict(outcome).err
      <3>1. /\ asked # {}
            /\ diskRoute' = RouteAfter(err)
            /\ answered' = answered \cup
                  IF DOMAIN Verdict(outcome).disk = {} THEN {} ELSE {diskAt}
        BY <2>2 DEF Refreshed, Hear, AsksSomeNode
      <3>2. err = "nil" => diskAt \in answered'
        BY <3>1, NoErrorMeansFigures
      <3> HIDE DEF err
      <3> QED
        BY <3>1, <3>2 DEF RouteAfter, SettledRouteAnswered
    <2>3. ASSUME NEW outcome \in [asked -> Outcomes], FallThrough(outcome)
          PROVE  SettledRouteAnswered'
      BY <2>3 DEF FallThrough, Hear, SettledRouteAnswered
    <2>4. Ask \/ Tick \/ UNCHANGED vars => UNCHANGED <<diskRoute, answered>>
      BY DEF Ask, AskDisk, Tick, vars
    <2>5. \A world : Settle(world) => UNCHANGED <<diskRoute, answered>>
      BY DEF Settle
    <2> QED
      BY <2>1, <2>2, <2>3, <2>4, <2>5 DEF Next, FanOutReturned
  <1> QED
    BY <1>1, <1>2, PTL

-----------------------------------------------------------------------------
\* The two halves of ReportsTheWorld that are not about fairness: what the signal
\* has understood it keeps saying, and every refresh that ends brings it nearer.

\* What the routes say, once they have settled.
Said(world) == {world[r] : r \in Routes}

\* The refresh under way, if any, was begun after the routes had settled.
BegunSettled(world) ==
    diskAt # "idle" => asked # {} /\ kubeletErr \in {"nil", world["kubelet"]}

\* The signal says what the route of its mode says, auto mode uses a route that
\* answers, or there is none.
Grasped(world) ==
    IF diskMode # "auto" THEN diskMode \in Routes /\ Reports(world[diskMode])
    ELSE \/ diskRoute # NoRoute /\ world[diskRoute] = "ok" /\ diskLive
         \/ /\ "ok" \notin Said(world) /\ ~diskLive
            /\ \A o \in Outcomes : Said(world) = {o} => Reports(o)

Convinced(world) == diskWorld = world /\ BegunSettled(world) /\ Grasped(world)

\* How a refresh over settled routes ends: with the signal convinced, with one more
\* failure counted and still fewer than the threshold, or in auto mode with a denied
\* route given up or an unreachable one in use.
ComesNearer(world) ==
    diskWorld = world /\ BegunSettled(world) /\ diskAt # "idle" /\ diskAt' = "idle"
        => \/ Convinced(world)'
           \/ diskFailures' = diskFailures + 1 /\ diskFailures' < capFailThreshold
           \/ /\ diskMode = "auto" /\ diskRoute # NoRoute
              /\ world[diskRoute] = "forbidden" /\ diskRoute' = NoRoute
           \/ /\ diskMode = "auto" /\ diskRoute' # NoRoute
              /\ world[diskRoute'] = "transient"

\* Nodes that all say o are a verdict of o.
LEMMA UnanimousVerdict ==
    ASSUME NEW S, S # {}, NEW o \in Outcomes, NEW outcome \in [S -> Outcomes],
           \A n \in S : outcome[n] = o
    PROVE  Verdict(outcome).err = IF o = "ok" THEN "nil" ELSE o
  <1>1. DOMAIN outcome = S
    OBVIOUS
  <1>2. \A p \in Outcomes : {n \in DOMAIN outcome : outcome[n] = p} # {} <=> p = o
    BY <1>1
  <1> QED
    BY <1>1, <1>2 DEF Verdict, Outcomes

LEMMA SaidByCase ==
    ASSUME NEW o \in Outcomes
    PROVE  /\ Reports(o) <=> \/ o = "ok"        /\ diskLive
                             \/ o = "forbidden" /\ diskReason = ReasonForbidden
                             \/ o = "transient" /\ diskReason = ReasonUnavailable
           /\ Reports(o)' <=> \/ o = "ok"        /\ diskLive'
                              \/ o = "forbidden" /\ diskReason' = ReasonForbidden
                              \/ o = "transient" /\ diskReason' = ReasonUnavailable
  BY DEF Reports, Outcomes

\* What currentDisk's switch makes of the error of a refresh.
LEMMA NoteTells ==
    ASSUME IInv, NEW disk, NEW err, Note(disk, err)
    PROVE  /\ err = "nil" => diskLive' = TRUE
           /\ err = "forbidden" => diskLive' = FALSE /\ diskReason' = ReasonForbidden
           /\ err = "transient" =>
                 \/ diskLive' = FALSE /\ diskReason' = ReasonUnavailable
                 \/ /\ diskLive
                    /\ diskFailures' = diskFailures + 1
                    /\ diskFailures' < capFailThreshold
  <1>1. ASSUME err = "nil" PROVE diskLive' = TRUE
    BY <1>1 DEF Note, NoteSuccess
  <1>2. ASSUME err = "forbidden" PROVE diskLive' = FALSE /\ diskReason' = ReasonForbidden
    BY <1>2 DEF Note, NoteForbidden
  <1>3. ASSUME err = "transient"
        PROVE  \/ diskLive' = FALSE /\ diskReason' = ReasonUnavailable
               \/ /\ diskLive
                  /\ diskFailures' = diskFailures + 1
                  /\ diskFailures' < capFailThreshold
    <2>1. NoteTransient /\ diskFailures' = FailuresAfter("transient")
      BY <1>3 DEF Note
    <2>2. diskFailures \in 0..capFailThreshold /\ capFailThreshold \in Nat
      BY DiskAssumption DEF IInv, TypeOK
    <2>3. CASE diskLive /\ ~ (diskFailures' >= capFailThreshold)
      <3>1. ~ (diskFailures' >= capFailThreshold)
        BY <2>3
      <3>2. diskFailures' = IF diskFailures < capFailThreshold
                            THEN diskFailures + 1 ELSE diskFailures
        BY <2>1 DEF FailuresAfter
      <3>3. diskFailures' = diskFailures + 1 /\ diskFailures' < capFailThreshold
        BY ONLY <2>2, <3>1, <3>2
      <3> QED
        BY <2>3, <3>3
    <2>4. CASE ~ (diskLive /\ ~ (diskFailures' >= capFailThreshold))
      <3>1. diskLive' = FALSE
        BY <2>1, <2>4, Zenon DEF NoteTransient
      <3> QED
        BY <2>1, <3>1, Zenon DEF NoteTransient
    <2> QED
      BY <2>3, <2>4
  <1> QED
    BY <1>1, <1>2, <1>3

\* The end of a refresh that was begun after the routes had settled.
LEMMA SettledRefresh ==
    ASSUME IInv, NEW world \in Worlds, diskWorld = world, BegunSettled(world),
           NEW outcome \in [asked -> Outcomes], Refreshed(outcome)
    PROVE  /\ Grasped(world) => Convinced(world)'
           /\ ComesNearer(world)
  <1> DEFINE err == Verdict(outcome).err
             fe  == FetchErr(err)
  <1>t. /\ diskAt \in Routes /\ diskAt # "idle" /\ asked # {}
        /\ diskMode \in Modes /\ diskMode # "off" /\ diskRoute \in Routes \cup {NoRoute}
        /\ kubeletErr \in {"nil", world["kubelet"]} /\ kubeletErr \in Errors
        /\ \A r \in Routes : world[r] \in Outcomes
        /\ diskLive => diskReason = NoReason
    BY DEF IInv, TypeOK, Refreshed, BegunSettled, QuietDuring, Worlds, DiskOfLastGoodRefresh
  <1>o. PICK o \in Outcomes : o = world[diskAt]
    BY <1>t
  <1>1. o \in Outcomes /\ err = IF o = "ok" THEN "nil" ELSE o
    <2>1. o \in Outcomes /\ o # "any"
      BY <1>o DEF Outcomes
    <2>2. \A n \in asked : outcome[n] = o
      BY <2>1, <1>o DEF Refreshed, MaySay
    <2> QED
      BY <1>t, <2>1, <2>2, UnanimousVerdict
  <1>2. /\ Note(Verdict(outcome).disk, fe) /\ diskRoute' = RouteAfter(err)
        /\ diskAt' = "idle" /\ diskMode' = diskMode /\ diskWorld' = world
        /\ ~ (Probing /\ diskAt = "kubelet" /\ err # "nil")
    BY DEF Refreshed
  <1>3. Convinced(world)' <=> Grasped(world)'
    BY <1>2 DEF Convinced, BegunSettled
  <1>4. /\ fe = "nil" => diskLive' = TRUE
        /\ fe = "forbidden" => diskLive' = FALSE /\ diskReason' = ReasonForbidden
        /\ fe = "transient" =>
              \/ diskLive' = FALSE /\ diskReason' = ReasonUnavailable
              \/ /\ diskLive
                 /\ diskFailures' = diskFailures + 1
                 /\ diskFailures' < capFailThreshold
    BY <1>2, NoteTells
  <1>5. /\ ~Probing => kubeletErr = "nil" /\ fe = err /\ diskAt = FirstRoute
        /\ Probing /\ diskAt = "proxy" => kubeletErr # "nil"
    BY <1>t DEF IInv, QuietDuring, FetchErr
  <1> HIDE DEF err, fe
  <1>6. ASSUME "ok" \notin Said(world), diskMode = "auto", diskLive' = FALSE,
               \A p \in Outcomes : Said(world) = {p} => Reports(p)'
        PROVE  Grasped(world)'
    BY <1>6, <1>2 DEF Grasped, Said
  <1>7. CASE diskMode # "auto"
    <2>1. ~Probing /\ FirstRoute = diskMode /\ diskMode \in Routes
      BY <1>7, <1>t DEF Probing, FirstRoute, Modes
    <2>2. diskAt = diskMode /\ fe = err /\ o = world[diskMode]
      BY <2>1, <1>5, <1>o
    <2>3. Reports(o)' => Grasped(world)'
      BY <1>2, <2>1, <2>2, <1>7 DEF Grasped, Reports
    <2>4. Grasped(world) => Reports(o)
      BY <2>2, <1>7 DEF Grasped
    <2>5. CASE o = "ok"
      BY <2>5, <2>2, <2>3, <1>1, <1>3, <1>4, SaidByCase DEF ComesNearer
    <2>6. CASE o = "forbidden"
      BY <2>6, <2>2, <2>3, <1>1, <1>3, <1>4, SaidByCase DEF ComesNearer
    <2>7. CASE o = "transient"
      <3>1. Reports(o) => ~diskLive
        BY <2>7, <1>1, <1>t, SaidByCase DEF ReasonUnavailable, NoReason
      <3>2. \/ Reports(o)'
            \/ /\ diskLive
               /\ diskFailures' = diskFailures + 1 /\ diskFailures' < capFailThreshold
        BY <2>7, <2>2, <1>1, <1>4, SaidByCase
      <3> QED
        BY <3>1, <3>2, <2>3, <2>4, <1>3 DEF ComesNearer
    <2> QED
      BY <2>5, <2>6, <2>7, <1>1 DEF Outcomes
  <1>8. CASE diskMode = "auto" /\ diskRoute # NoRoute
    <2>1. ~Probing /\ diskAt = diskRoute /\ fe = err /\ o = world[diskRoute]
          /\ diskRoute \in Routes
      BY <1>8, <1>5, <1>t, <1>o DEF Probing, FirstRoute
    <2>2. o \in Said(world)
      BY <2>1 DEF Said
    <2>3. Grasped(world) /\ o # "ok" =>
             "ok" \notin Said(world) /\ ~diskLive
      BY <2>1, <1>8 DEF Grasped
    <2>4. CASE o = "ok"
      <3>1. diskRoute' = diskRoute
        BY <2>4, <1>1, <1>2, <1>8, <2>1 DEF RouteAfter
      <3>2. Grasped(world)'
        BY <3>1, <2>1, <2>4, <1>1, <1>2, <1>4, <1>8 DEF Grasped
      <3> QED
        BY <3>2, <1>3 DEF ComesNearer
    <2>5. CASE o = "forbidden"
      <3>1. diskRoute' = NoRoute /\ diskLive' = FALSE /\ diskReason' = ReasonForbidden
        BY <2>5, <1>1, <1>2, <1>4, <1>8, <2>1 DEF RouteAfter
      <3>2. ASSUME NEW p \in Outcomes, Said(world) = {p} PROVE Reports(p)'
        BY <3>1, <3>2, <2>2, <2>5, SaidByCase
      <3>3. Grasped(world) => Grasped(world)'
        BY <3>1, <3>2, <2>3, <2>5, <1>6, <1>8
      <3> QED
        BY <3>1, <3>3, <2>1, <2>5, <1>3, <1>8 DEF ComesNearer
    <2>6. CASE o = "transient"
      <3>1. diskRoute' = diskRoute
        BY <2>6, <1>1, <1>2, <1>8, <2>1 DEF RouteAfter
      <3>2. ~diskLive => diskLive' = FALSE /\ diskReason' = ReasonUnavailable
        BY <2>6, <2>1, <1>1, <1>4
      <3>3. ASSUME NEW p \in Outcomes, Said(world) = {p}, ~diskLive PROVE Reports(p)'
        BY <3>2, <3>3, <2>2, <2>6, SaidByCase
      <3>4. Grasped(world) => Grasped(world)'
        BY <3>2, <3>3, <2>3, <2>6, <1>6, <1>8
      <3> QED
        BY <3>1, <3>4, <2>1, <2>6, <1>3, <1>8 DEF ComesNearer
    <2> QED
      BY <2>4, <2>5, <2>6, <1>1 DEF Outcomes
  <1>9. CASE diskMode = "auto" /\ diskRoute = NoRoute
    <2>1. Probing
      BY <1>9 DEF Probing
    <2>2. CASE o = "ok"
      <3>1. diskRoute' = diskAt /\ diskLive' = TRUE
        <4>1. err = "nil" /\ fe = "nil"
          BY <2>2, <1>1 DEF fe, FetchErr
        <4> QED
          BY <4>1, <2>1, <1>2, <1>4 DEF RouteAfter
      <3>2. diskAt # NoRoute
        BY <1>t DEF Routes, NoRoute
      <3>3. Grasped(world)'
        BY <3>1, <3>2, <2>2, <1>2, <1>9, <1>o DEF Grasped
      <3> QED
        BY <3>3, <1>3 DEF ComesNearer
    <2>3. CASE o # "ok"
      <3>1. diskAt = "proxy" /\ err = o /\ err # "nil"
        BY <2>1, <2>3, <1>1, <1>2, <1>t DEF Routes, Outcomes
      <3>2. kubeletErr = world["kubelet"] /\ kubeletErr \in {"forbidden", "transient"}
        BY <3>1, <2>1, <1>5, <1>t DEF Errors
      <3>3. Said(world) = {kubeletErr, o}
        BY <3>1, <3>2, <1>o DEF Said, Routes
      <3>4. o \in {"forbidden", "transient"}
        BY <2>3, <1>1 DEF Outcomes
      <3>5. "ok" \notin Said(world)
        BY <3>2, <3>3, <3>4
      <3>6. /\ fe \in {"forbidden", "transient"}
            /\ \A p : Said(world) = {p} => fe = p
        BY <3>1, <3>2, <3>3, <3>4 DEF fe, FetchErr
      <3>7. ASSUME diskLive' = FALSE,
                   diskReason' = IF fe = "forbidden" THEN ReasonForbidden ELSE ReasonUnavailable
            PROVE  Grasped(world)'
        <4>1. ASSUME NEW p \in Outcomes, Said(world) = {p} PROVE Reports(p)'
          BY <4>1, <3>6, <3>7, SaidByCase
        <4> QED
          BY <4>1, <3>5, <3>7, <1>6, <1>9
      <3>8. CASE fe = "forbidden"
        BY <3>7, <3>8, <1>3, <1>4 DEF ComesNearer
      <3>9. CASE fe = "transient"
        <4>1. Grasped(world) => ~diskLive
          BY <1>9 DEF Grasped
        <4> QED
          BY <4>1, <3>7, <3>9, <1>3, <1>4 DEF ComesNearer
      <3> QED
        BY <3>6, <3>8, <3>9
    <2> QED
      BY <2>2, <2>3
  <1> QED
    BY <1>7, <1>8, <1>9

\* Every other step leaves a settled signal as it is.
LEMMA SettledStep ==
    ASSUME NEW world \in Worlds
    PROVE  IInv /\ [Next]_vars => /\ Convinced(world) => Convinced(world)'
                                  /\ ComesNearer(world)
  <1> SUFFICES ASSUME IInv, [Next]_vars, diskWorld = world, BegunSettled(world)
               PROVE  /\ Grasped(world) => Convinced(world)'
                      /\ ComesNearer(world)
    BY DEF Convinced, ComesNearer
  <1>w. world # Unsettled
    <2>1. world["kubelet"] \in Outcomes /\ Unsettled["kubelet"] = "any"
      BY DEF Worlds, Unsettled, Routes
    <2> QED
      BY <2>1 DEF Outcomes
  <1>k. ASSUME UNCHANGED <<diskMode, diskLive, diskReason, diskRoute>>, diskWorld' = world,
               BegunSettled(world)', diskAt # "idle" => diskAt' # "idle"
        PROVE  /\ Grasped(world) => Convinced(world)'
               /\ ComesNearer(world)
    BY <1>k DEF Convinced, Grasped, Said, Reports, ComesNearer
  <1>1. ASSUME NEW nodes \in SUBSET Nodes, nodes # {}, AskDisk(nodes)
        PROVE  /\ Grasped(world) => Convinced(world)'
               /\ ComesNearer(world)
    BY <1>1, <1>k DEF AskDisk, signal, BegunSettled
  <1>2. ASSUME NEW outcome \in [asked -> Outcomes], FallThrough(outcome)
        PROVE  /\ Grasped(world) => Convinced(world)'
               /\ ComesNearer(world)
    <2>1. /\ diskAt = "kubelet" /\ asked # {} /\ diskAt' # "idle"
          /\ Verdict(outcome).err # "nil" /\ kubeletErr' = Verdict(outcome).err
          /\ UNCHANGED <<diskMode, signal, diskRoute, asked, diskWorld>>
          /\ \A n \in asked : world["kubelet"] \in {"any", outcome[n]}
      BY <1>2 DEF FallThrough, BegunSettled, MaySay
    <2>2. world["kubelet"] \in Outcomes /\ world["kubelet"] # "any"
      BY DEF Worlds, Routes, Outcomes
    <2>3. Verdict(outcome).err = world["kubelet"]
      BY <2>1, <2>2, UnanimousVerdict
    <2> QED
      BY <2>1, <2>3, <1>k DEF BegunSettled, signal
  <1>3. ASSUME NEW outcome \in [asked -> Outcomes], Refreshed(outcome)
        PROVE  /\ Grasped(world) => Convinced(world)'
               /\ ComesNearer(world)
    BY <1>3, SettledRefresh
  <1>4. CASE Tick
    BY <1>4, <1>k DEF Tick, BegunSettled
  <1>5. CASE UNCHANGED vars
    BY <1>5, <1>k DEF vars, BegunSettled
  <1>6. ASSUME NEW other \in Worlds, Settle(other) PROVE FALSE
    BY <1>6, <1>w DEF Settle
  <1> QED
    BY <1>w, <1>1, <1>2, <1>3, <1>4, <1>5, <1>6 DEF Next, Ask, FanOutReturned

LEMMA ConvincedUnderstands ==
    ASSUME IInv, NEW world \in Worlds, Convinced(world)
    PROVE  Understood(world)
  <1>1. CASE diskMode # "auto"
    BY <1>1 DEF Convinced, Grasped, Understood
  <1>2. CASE diskMode = "auto"
    <2>1. diskMode \notin Routes
      BY <1>2 DEF Routes
    <2>2. CASE diskRoute # NoRoute /\ world[diskRoute] = "ok" /\ diskLive
      <3>1. "ok" \in Said(world)
        <4>1. diskRoute \in Routes
          BY <2>2 DEF IInv, TypeOK
        <4> QED
          BY <4>1, <2>2 DEF Said
      <3>2. ASSUME NEW o \in Outcomes, Said(world) = {o} PROVE Reports(o)
        BY <3>1, <3>2, <2>2, SaidByCase
      <3> QED
        BY <2>1, <2>2, <3>1, <3>2 DEF Understood, Said
    <2>3. CASE /\ "ok" \notin Said(world) /\ ~diskLive
               /\ \A o \in Outcomes : Said(world) = {o} => Reports(o)
      BY <2>1, <2>3 DEF Understood, Said
    <2> QED
      BY <1>2, <2>2, <2>3 DEF Convinced, Grasped
  <1> QED
    BY <1>1, <1>2

\* currentDisk, fetchDisk: once the routes say the same for good and the signal has
\* grasped it, it never says anything else again: auto mode never leaves a route
\* that answers, and no mode reports a change that did not happen.
THEOREM SaysSoForGood ==
    ASSUME NEW world \in Worlds
    PROVE  Spec => [](Convinced(world) => []Understood(world))
  <1>1. IInv /\ [Next]_vars /\ Convinced(world) => Convinced(world)'
    BY SettledStep
  <1>2. IInv /\ Convinced(world) => Understood(world)
    BY ConvincedUnderstands
  <1> QED
    BY <1>1, <1>2, Invariance, PTL DEF Spec

\* currentDisk, fetchDisk: no refresh over settled routes is wasted.  It convinces the
\* signal, or counts one of the failures it takes, or in auto mode gives up a denied
\* route, so that the next one probes; only a route that is settled on and unreachable
\* keeps auto mode from the other.
THEOREM NoRefreshWasted ==
    ASSUME NEW world \in Worlds
    PROVE  Spec => [][ComesNearer(world)]_vars
  <1>1. IInv /\ [Next]_vars => ComesNearer(world)
    BY SettledStep
  <1> QED
    BY <1>1, Invariance, PTL DEF Spec
=============================================================================
