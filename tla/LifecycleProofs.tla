---------------------------- MODULE LifecycleProofs ----------------------------
(***************************************************************************)
(* Proofs about Lifecycle, for any number of clients.                      *)
(*                                                                         *)
(* How the process ends depends on who has told whom: the invariant adds   *)
(* that a server shuts down only when a signal has come, that only the     *)
(* Collector creates a ticker from the flag, with one snapshot published,  *)
(* and that a connection is cut only by the end of the process.  What is asked for depends on the       *)
(* flags, which stay those of the chart, and on every poll's having asked  *)
(* for one of the combinations the flags allow.                            *)
(***************************************************************************)
EXTENDS Lifecycle, TLAPS

\* The flags of a process the chart starts are the chart's.
FlagsOfChart == chart # NoChart => flags = Args(chart)

\* The Mock waits for no cache and makes no ticker of the flag's interval.
MockSkips == run \in {"sync", "poll", "ticker"} => ~flags.mock

\* The goroutine starts with the server, its ticker after the first of its polls.
OffUntilStarted == main \in {"flags", "source", "start"} => run = "off"
OnePollFirst == /\ ~flags.mock /\ run \in {"off", "sync", "poll"} => latest = 0
                /\ run = "ticker" => latest = 1

ShutdownIsTold == inShutdown => told

CutByTheEnd == (\E c \in Clients : conn[c] = "cut") => ~Running

\* The polls made use of what the flags allow, and each of a whole combination.
AskedInv == /\ \A r \in asked : \E a \in Asks : r \in a
            /\ ~flags.mock /\ latest > 0 => \E a \in Asks : a \subseteq asked

IInv == /\ TypeOK
        /\ FlagsOfChart
        /\ MockSkips
        /\ OffUntilStarted
        /\ OnePollFirst
        /\ ShutdownIsTold
        /\ CutByTheEnd
        /\ AskedInv
        /\ EndsOnlyAsTold

-----------------------------------------------------------------------------
\* The chart's arguments are flags, and never the mock's.
LEMMA ArgsAreFlags ==
    ASSUME NEW v \in Values
    PROVE  Args(v) \in Flags /\ Args(v).mock = FALSE
  <1>1. NodeDiskArg(v) \in Modes
    BY DEF NodeDiskArg, Modes
  <1>2. /\ v.create \in BOOLEAN /\ v.metrics \in BOOLEAN /\ v.positiveInterval \in BOOLEAN
    BY DEF Values
  <1>3. (IF v.create THEN NodeDiskArg(v) ELSE "auto") \in Modes
    BY <1>1 DEF Modes
  <1>4. (~v.create \/ v.metrics) \in BOOLEAN
    BY <1>2
  <1> QED
    BY <1>2, <1>3, <1>4 DEF Args, Flags

LEMMA InitEstablishes == Init => IInv
  <1> SUFFICES ASSUME Init PROVE IInv
    OBVIOUS
  <1>1. /\ chart \in Values \cup {NoChart} /\ flags \in Flags /\ credentials \subseteq Sources
        /\ FlagsOfChart
    <2>1. CASE ByChart
      BY <2>1, ArgsAreFlags DEF ByChart, Sources, FlagsOfChart
    <2>2. CASE ByHand
      BY <2>2 DEF ByHand, FlagsOfChart
    <2> QED
      BY <2>1, <2>2 DEF Init
  <1>2. TypeOK
    <2>1. {portFree, reachable, told, inShutdown} \subseteq BOOLEAN
      BY DEF Init
    <2>2. conn \in [Clients -> {"none", "request", "stream", "answered", "cut"}]
      BY DEF Init
    <2> QED
      BY <1>1, <2>1, <2>2 DEF Init, TypeOK
  <1>3. MockSkips /\ ShutdownIsTold /\ OffUntilStarted /\ OnePollFirst
    BY DEF Init, MockSkips, ShutdownIsTold, OffUntilStarted, OnePollFirst
  <1>4. CutByTheEnd /\ EndsOnlyAsTold
    BY DEF Init, CutByTheEnd, EndsOnlyAsTold
  <1>5. AskedInv
    BY DEF Init, AskedInv
  <1> QED
    BY <1>1, <1>2, <1>3, <1>4, <1>5 DEF IInv

-----------------------------------------------------------------------------
\* What was parsed and found at the start stays.
LEMMA WorldStays ==
    ASSUME [Next]_vars
    PROVE  UNCHANGED <<chart, flags, credentials, portFree>>
  BY DEF Next, vars, world, Main, Polls, ParseFlags, NewSource, StartGoroutines, Listen,
         ServeReturns, WaitForCacheSync, FirstPoll, NewTicker, Tick, MockTick, RunReturns,
         Runs, Signal, Shutdown, ComesUp, Accept, Answer, HangUp, Client

\* Nothing happens in a process that has ended.
LEMMA OnlyWhileRunning ==
    ASSUME Next
    PROVE  Running
  BY DEF Next, Main, Polls, ParseFlags, NewSource, StartGoroutines, Listen,
         ServeReturns, WaitForCacheSync, FirstPoll, NewTicker, Tick, MockTick, RunReturns,
         Runs, Signal, Shutdown, ComesUp, Accept, Answer, HangUp, Client

\* An exit cuts connections, and leaves the others as they are.
LEMMA ExitTypes ==
    ASSUME TypeOK, NEW s \in {"exit 0", "exit 1", "exit 2", "killed"}, Exit(s)
    PROVE  /\ status' = s /\ ~Running'
           /\ conn' \in [Clients -> {"none", "request", "stream", "answered", "cut"}]
  <1>1. conn' \in [Clients -> {"none", "request", "stream", "answered", "cut"}]
    BY DEF Exit, TypeOK
  <1> QED
    BY <1>1 DEF Exit, Running

\* How a step of a process that runs can change its status and connections.
Ends == /\ status' \in {"exit 0", "exit 1", "exit 2", "killed"}
        /\ conn' \in [Clients -> {"none", "request", "stream", "answered", "cut"}]
EndAsTold == main' = "serve" => \/ told' /\ status' = "exit 0"
                                \/ ~Steady /\ status' = "exit 2" /\ latest' = 1
GoesOn == /\ status' = status
          /\ conn' \in [Clients -> {"none", "request", "stream", "answered", "cut"}]
          /\ \A c \in Clients : conn'[c] = "cut" => conn[c] = "cut"

\* Run never fails: whatever it returns when its context ends is not fatal.
LEMMA RunReturnsQuietly ==
    ASSUME RunReturns
    PROVE  UNCHANGED <<status, conn>> /\ run' = "returned" /\ main' = main
  BY DEF RunReturns, Fatal, Runs

\* main, step by step.
LEMMA MainSteps ==
    ASSUME IInv, Main
    PROVE  /\ main' \in {"flags", "source", "start", "listen", "serve"}
           /\ run' = run \/ (run' = RunOf(flags.mock))
           /\ UNCHANGED <<reachable, told, inShutdown, asked>>
           /\ latest' \in 0..2
           /\ latest' = latest \/ flags.mock \/ latest' = 0
           /\ Ends \/ GoesOn
           /\ Ends => main' # "serve" \/ (inShutdown /\ status' = "exit 0")
           /\ OffUntilStarted' /\ OnePollFirst'
  <1>0. TypeOK /\ latest \in 0..2 /\ OffUntilStarted /\ OnePollFirst
    BY DEF IInv, TypeOK
  <1>f. flags' = flags
    BY DEF Main, ParseFlags, NewSource, StartGoroutines, Listen, ServeReturns, world
  <1>i. ASSUME UNCHANGED <<run, latest>>, main' = main \/ Goto("flags", "source")
                                         \/ Goto("listen", "serve")
        PROVE  OffUntilStarted' /\ OnePollFirst'
    BY <1>0, <1>f, <1>i DEF OffUntilStarted, OnePollFirst, Goto
  <1>g. UNCHANGED <<status, conn>> => GoesOn /\ ~Ends
    <2>1. Main => Running
      BY DEF Main, ParseFlags, NewSource, StartGoroutines, Listen, ServeReturns
    <2> QED
      BY <1>0, <2>1 DEF GoesOn, Ends, Running, TypeOK
  <1>x. ASSUME NEW s \in {"exit 0", "exit 1", "exit 2", "killed"}, Exit(s)
        PROVE  Ends /\ status' = s
    BY <1>0, <1>x, ExitTypes DEF Ends
  <1>1. CASE ParseFlags
    <2>1. CASE UNCHANGED main
      BY <1>0, <1>1, <2>1, <1>x, <1>i DEF ParseFlags, Goto
    <2>2. CASE Goto("flags", "source")
      BY <1>0, <1>1, <2>2, <1>g, <1>i DEF ParseFlags, Goto
    <2> QED
      BY <1>1, <2>1, <2>2 DEF ParseFlags
  <1>2. CASE NewSource
    <2>1. CASE UNCHANGED <<main, latest>> /\ main = "source" /\ Exit("exit 1")
      BY <1>0, <1>2, <2>1, <1>x, <1>i DEF NewSource
    <2>2. CASE Goto("source", "start") /\ latest' = IF flags.mock THEN NewMock ELSE 0
      <3>1. run = "off" /\ run' = run /\ (~flags.mock => latest' = 0)
        BY <1>0, <1>2, <2>2 DEF NewSource, Goto, OffUntilStarted
      <3>2. OffUntilStarted' /\ OnePollFirst'
        BY <1>f, <3>1 DEF OffUntilStarted, OnePollFirst
      <3> QED
        BY <1>0, <1>2, <2>2, <1>g, <3>2 DEF NewSource, Goto, NewMock
    <2> QED
      BY <1>2, <2>1, <2>2 DEF NewSource
  <1>3. CASE StartGoroutines
    <2>1. /\ run = "off" /\ main' = "listen" /\ latest' = latest
          /\ run' = IF flags.mock THEN "loop" ELSE "sync"
      BY <1>0, <1>3 DEF StartGoroutines, Goto, OffUntilStarted, RunOf
    <2>2. OffUntilStarted' /\ OnePollFirst'
      BY <1>0, <1>f, <2>1 DEF OffUntilStarted, OnePollFirst
    <2> QED
      BY <1>0, <1>3, <1>g, <2>2 DEF StartGoroutines, Goto
  <1>4. CASE Listen
    <2>1. CASE UNCHANGED main /\ main = "listen" /\ (Exit("exit 0") \/ Exit("exit 1"))
      BY <1>0, <1>4, <2>1, <1>x, <1>i DEF Listen
    <2>2. CASE Goto("listen", "serve")
      BY <1>0, <1>4, <2>2, <1>g, <1>i DEF Listen, Goto
    <2> QED
      BY <1>4, <2>1, <2>2 DEF Listen
  <1>5. CASE ServeReturns
    BY <1>0, <1>5, <1>x, <1>i DEF ServeReturns, ServeEnds
  <1> QED
    BY <1>1, <1>2, <1>3, <1>4, <1>5 DEF Main

\* The goroutine of the source, step by step.
LEMMA SourceSteps ==
    ASSUME IInv, Polls \/ Tick \/ MockTick \/ RunReturns
    PROVE  /\ UNCHANGED <<reachable, main, told, inShutdown>>
           /\ run' \in {"poll", "ticker", "loop", "returned"}
           /\ run' \in {"poll", "ticker"} => run \in {"sync", "poll", "ticker"}
           /\ latest' \in 0..2
           /\ \/ UNCHANGED <<latest, asked>>
              \/ flags.mock /\ UNCHANGED asked
              \/ \E a \in Asks : asked' = asked \cup a
           /\ \/ GoesOn
              \/ Ends /\ ~flags.mock /\ ~flags.positiveInterval /\ status' = "exit 2" /\ latest' = 1
           /\ OffUntilStarted' /\ OnePollFirst'
  <1>0. /\ TypeOK /\ latest \in 0..2 /\ MockSkips /\ OffUntilStarted /\ OnePollFirst
        /\ run \in {"off", "sync", "poll", "ticker", "loop", "returned"}
    BY DEF IInv, TypeOK
  <1>s. main' = main /\ run # "off" /\ OffUntilStarted'
    BY <1>0, RunReturnsQuietly
       DEF Polls, WaitForCacheSync, FirstPoll, NewTicker, Tick, MockTick, RunReturns, Runs,
           OffUntilStarted
  <1>l. ASSUME run' \in {"loop", "returned"} PROVE OnePollFirst'
    BY <1>l DEF OnePollFirst
  <1>g. UNCHANGED <<status, conn>> => GoesOn
    BY <1>0 DEF GoesOn, TypeOK
  <1>p. ASSUME Published PROVE latest' \in 0..2
    BY <1>0, <1>p DEF Published
  <1>1. CASE WaitForCacheSync
    <2>1. ~flags'.mock /\ run' = "poll" /\ latest' = 0
      BY <1>0, <1>1 DEF WaitForCacheSync, Runs, world, MockSkips, OnePollFirst
    <2>2. OnePollFirst'
      BY <2>1 DEF OnePollFirst
    <2> QED
      BY <1>0, <1>1, <1>g, <1>s, <2>2 DEF WaitForCacheSync, Runs
  <1>2. CASE FirstPoll
    <2>1. run' = "ticker" /\ latest = 0
      BY <1>0, <1>2 DEF FirstPoll, Runs, MockSkips, OnePollFirst
    <2>2. latest' = 1
      BY <1>2, <2>1 DEF FirstPoll, poll, Published
    <2>3. OnePollFirst'
      BY <2>1, <2>2 DEF OnePollFirst
    <2> QED
      BY <1>2, <1>p, <1>g, <1>s, <2>3 DEF FirstPoll, Runs, poll
  <1>3. CASE NewTicker
    <2>1. CASE flags.positiveInterval
      BY <1>0, <1>3, <2>1, <1>g, <1>s, <1>l DEF NewTicker, Runs
    <2>2. CASE ~flags.positiveInterval
      <3>1. Ends /\ status' = "exit 2"
        BY <1>0, <1>3, <2>2, ExitTypes DEF NewTicker, Ends
      <3>2. latest' = 1
        BY <1>0, <1>3 DEF NewTicker, Runs, OnePollFirst
      <3> QED
        BY <1>0, <1>3, <2>2, <1>s, <1>l, <3>1, <3>2 DEF NewTicker, Runs, MockSkips
    <2> QED
      BY <2>1, <2>2
  <1>4. CASE Tick
    BY <1>4, <1>p, <1>g, <1>s, <1>l DEF Tick, Runs, poll
  <1>5. CASE MockTick
    BY <1>5, <1>p, <1>g, <1>s, <1>l DEF MockTick, Runs
  <1>6. CASE RunReturns
    <2>1. UNCHANGED <<status, conn, latest, asked, reachable, main, told, inShutdown>>
          /\ run' = "returned"
      BY <1>6, RunReturnsQuietly DEF RunReturns, Runs
    <2> QED
      BY <1>0, <2>1, <1>g, <1>s, <1>l
  <1> QED
    BY <1>1, <1>2, <1>3, <1>4, <1>5, <1>6 DEF Polls

\* The signal, the shutdown, the clients and the API server.
LEMMA OtherSteps ==
    ASSUME IInv, \/ Signal \/ Shutdown \/ ComesUp
                 \/ \E c \in Clients : \/ Accept(c, "request") \/ Accept(c, "stream")
                                       \/ Answer(c) \/ HangUp(c)
    PROVE  /\ UNCHANGED <<main, run, latest, asked>>
           /\ reachable' \in BOOLEAN /\ told' \in BOOLEAN /\ inShutdown' \in BOOLEAN
           /\ told => told'
           /\ inShutdown' => told'
           /\ GoesOn \/ (Ends /\ main = "flags")
  <1>0. /\ TypeOK /\ ShutdownIsTold
        /\ reachable \in BOOLEAN /\ told \in BOOLEAN /\ inShutdown \in BOOLEAN
        /\ conn \in [Clients -> {"none", "request", "stream", "answered", "cut"}]
    BY DEF IInv, TypeOK
  <1>g. UNCHANGED <<status, conn>> => GoesOn
    BY <1>0 DEF GoesOn
  <1>1. CASE Signal
    <2>1. CASE main = "flags"
      <3>1. Ends
        BY <1>0, <1>1, <2>1, ExitTypes DEF Signal, Ends
      <3> QED
        BY <1>0, <1>1, <2>1, <3>1 DEF Signal
    <2>2. CASE main # "flags"
      BY <1>0, <1>1, <2>2, <1>g DEF Signal
    <2> QED
      BY <2>1, <2>2
  <1>2. CASE Shutdown
    BY <1>0, <1>2, <1>g DEF Shutdown
  <1>3. CASE ComesUp
    BY <1>0, <1>3, <1>g DEF ComesUp, ShutdownIsTold
  <1>4. ASSUME NEW c \in Clients, NEW from, NEW to \in {"none", "request", "stream", "answered"},
               Client(c, from, to)
        PROVE  /\ UNCHANGED <<main, run, latest, asked, reachable, told, inShutdown>>
               /\ GoesOn
    BY <1>0, <1>4 DEF Client, GoesOn
  <1>5. ASSUME NEW c \in Clients,
               \/ Accept(c, "request") \/ Accept(c, "stream") \/ Answer(c) \/ HangUp(c)
        PROVE  /\ UNCHANGED <<main, run, latest, asked, reachable, told, inShutdown>>
               /\ GoesOn
    BY <1>4, <1>5 DEF Accept, Answer, HangUp
  <1> QED
    BY <1>0, <1>1, <1>2, <1>3, <1>5 DEF ShutdownIsTold

-----------------------------------------------------------------------------
\* A step of a process that runs keeps the invariant if it does to main, the
\* source and the server what the steps above do.
LEMMA StepPreserves ==
    ASSUME IInv, Running, UNCHANGED <<chart, flags, credentials, portFree>>,
           main' \in {"flags", "source", "start", "listen", "serve"},
           run' \in {"off", "sync", "poll", "ticker", "loop", "returned"},
           MockSkips', OffUntilStarted', OnePollFirst',
           reachable' \in BOOLEAN, told' \in BOOLEAN, inShutdown' \in BOOLEAN,
           latest' \in 0..2, told => told', ShutdownIsTold',
           asked' \subseteq Disk \cup {"metrics.k8s.io"}, AskedInv',
           \/ GoesOn
           \/ Ends /\ EndAsTold
    PROVE  IInv'
  <1>0. TypeOK /\ CutByTheEnd /\ EndsOnlyAsTold /\ FlagsOfChart
    BY DEF IInv
  <1>1. status' \in {"running", "exit 0", "exit 1", "exit 2", "killed"}
        /\ conn' \in [Clients -> {"none", "request", "stream", "answered", "cut"}]
    BY <1>0 DEF GoesOn, Ends, TypeOK
  <1>2. {portFree', reachable', told', inShutdown'} \subseteq BOOLEAN
    BY <1>0 DEF TypeOK
  <1>3. chart' \in Values \cup {NoChart} /\ flags' \in Flags /\ credentials' \subseteq Sources
    BY <1>0 DEF TypeOK
  <1>4. TypeOK'
    BY <1>1, <1>2, <1>3 DEF TypeOK
  <1>5. FlagsOfChart'
    BY <1>0 DEF FlagsOfChart
  <1>6. Steady' <=> Steady
    BY DEF Steady
  <1>7. CASE GoesOn
    <2>1. Running' /\ \A c \in Clients : conn'[c] # "cut"
      BY <1>0, <1>7 DEF GoesOn, Running, CutByTheEnd
    <2>2. CutByTheEnd' /\ EndsOnlyAsTold'
      BY <2>1 DEF CutByTheEnd, EndsOnlyAsTold
    <2> QED
      BY <1>4, <1>5, <2>2 DEF IInv
  <1>8. CASE Ends /\ EndAsTold
    <2>1. ~Running'
      BY <1>8 DEF Ends, Running
    <2>2. CutByTheEnd' /\ EndsOnlyAsTold'
      BY <1>6, <1>8, <2>1 DEF CutByTheEnd, EndsOnlyAsTold, EndAsTold
    <2> QED
      BY <1>4, <1>5, <2>2 DEF IInv
  <1> QED
    BY <1>7, <1>8

\* What the flags let a poll ask for are optional permissions.
LEMMA AsksArePermissions ==
    ASSUME NEW a \in Asks
    PROVE  a \subseteq Disk \cup {"metrics.k8s.io"}
  BY DEF Asks, Disk

\* Every step keeps the inductive invariant.
LEMMA NextPreserves == IInv /\ [Next]_vars => IInv'
  <1> SUFFICES ASSUME IInv, [Next]_vars PROVE IInv'
    OBVIOUS
  <1>w. UNCHANGED <<chart, flags, credentials, portFree>>
    BY WorldStays
  <1>a. Asks' = Asks
    BY <1>w DEF Asks
  <1>t. /\ TypeOK /\ AskedInv /\ MockSkips /\ ShutdownIsTold /\ OffUntilStarted /\ OnePollFirst
        /\ asked \subseteq Disk \cup {"metrics.k8s.io"} /\ latest \in 0..2
        /\ reachable \in BOOLEAN /\ told \in BOOLEAN /\ inShutdown \in BOOLEAN
        /\ run \in {"off", "sync", "poll", "ticker", "loop", "returned"}
        /\ main \in {"flags", "source", "start", "listen", "serve"}
    BY DEF IInv, TypeOK
  <1>b. flags.mock \in BOOLEAN
    BY <1>t DEF TypeOK, Flags
  <1>r. Next => Running
    BY OnlyWhileRunning
  <1>1. CASE Main
    <2>1. /\ main' \in {"flags", "source", "start", "listen", "serve"}
          /\ run' = run \/ (run' = RunOf(flags.mock))
          /\ UNCHANGED <<reachable, told, inShutdown, asked>>
          /\ latest' \in 0..2
          /\ latest' = latest \/ flags.mock \/ latest' = 0
          /\ Ends \/ GoesOn
          /\ Ends => main' # "serve" \/ (inShutdown /\ status' = "exit 0")
          /\ OffUntilStarted' /\ OnePollFirst'
      BY <1>1, MainSteps
    <2>2. MockSkips' /\ run' \in {"off", "sync", "poll", "ticker", "loop", "returned"}
      BY <1>t, <1>b, <1>w, <2>1 DEF MockSkips, RunOf
    <2>3. AskedInv'
      <3>1. \A r \in asked' : \E a \in Asks' : r \in a
        BY <1>t, <1>a, <2>1 DEF AskedInv
      <3>2. ASSUME ~flags'.mock, latest' > 0 PROVE \E a \in Asks' : a \subseteq asked'
        <4>a. ~flags.mock /\ latest' # 0
          BY <1>w, <3>2
        <4>b. latest' = latest
          BY <2>1, <4>a, Zenon
        <4>1. latest > 0 /\ ~flags.mock
          BY <3>2, <4>a, <4>b
        <4> QED
          BY <1>t, <1>a, <2>1, <4>1 DEF AskedInv
      <3> QED
        BY <3>1, <3>2 DEF AskedInv
    <2>4. ShutdownIsTold' /\ (Ends => EndAsTold)
      BY <1>t, <2>1 DEF ShutdownIsTold, EndAsTold
    <2> QED
      BY <1>1, <1>r, <1>w, <1>t, <2>1, <2>2, <2>3, <2>4, StepPreserves DEF Next
  <1>2. CASE Polls \/ Tick \/ MockTick \/ RunReturns
    <2>1. /\ UNCHANGED <<reachable, main, told, inShutdown>>
          /\ run' \in {"poll", "ticker", "loop", "returned"}
          /\ run' \in {"poll", "ticker"} => run \in {"sync", "poll", "ticker"}
          /\ latest' \in 0..2
          /\ \/ UNCHANGED <<latest, asked>>
             \/ flags.mock /\ UNCHANGED asked
             \/ \E a \in Asks : asked' = asked \cup a
          /\ \/ GoesOn
             \/ Ends /\ ~flags.mock /\ ~flags.positiveInterval /\ status' = "exit 2" /\ latest' = 1
          /\ OffUntilStarted' /\ OnePollFirst'
      BY <1>2, SourceSteps
    <2>2. MockSkips' /\ ShutdownIsTold'
      BY <1>t, <1>w, <2>1 DEF MockSkips, ShutdownIsTold
    <2>3. AskedInv' /\ asked' \subseteq Disk \cup {"metrics.k8s.io"}
      <3>1. CASE UNCHANGED <<latest, asked>>
        BY <1>t, <1>a, <1>w, <3>1 DEF AskedInv
      <3>2. CASE flags.mock /\ UNCHANGED asked
        BY <1>t, <1>a, <1>w, <3>2 DEF AskedInv
      <3>3. ASSUME NEW a \in Asks, asked' = asked \cup a
            PROVE  AskedInv' /\ asked' \subseteq Disk \cup {"metrics.k8s.io"}
        <4>1. asked' \subseteq Disk \cup {"metrics.k8s.io"}
          BY <1>t, <3>3, AsksArePermissions
        <4>2. \A r \in asked' : \E b \in Asks : r \in b
          BY <1>t, <3>3 DEF AskedInv
        <4>3. \E b \in Asks : b \subseteq asked'
          BY <3>3
        <4>4. AskedInv'
          BY <1>a, <4>2, <4>3, Zenon DEF AskedInv
        <4> QED
          BY <4>1, <4>4
      <3> QED
        BY <2>1, <3>1, <3>2, <3>3
    <2>4. GoesOn \/ (Ends /\ EndAsTold)
      BY <2>1 DEF Steady, EndAsTold
    <2> QED
      BY <1>2, <1>r, <1>w, <1>t, <2>1, <2>2, <2>3, <2>4, StepPreserves DEF Next
  <1>3. CASE \/ Signal \/ Shutdown \/ ComesUp
             \/ \E c \in Clients : \/ Accept(c, "request") \/ Accept(c, "stream")
                                   \/ Answer(c) \/ HangUp(c)
    <2>1. /\ UNCHANGED <<main, run, latest, asked>>
          /\ reachable' \in BOOLEAN /\ told' \in BOOLEAN /\ inShutdown' \in BOOLEAN
          /\ told => told'
          /\ inShutdown' => told'
          /\ GoesOn \/ (Ends /\ main = "flags")
      BY <1>3, OtherSteps
    <2>2. /\ MockSkips' /\ ShutdownIsTold' /\ AskedInv' /\ OffUntilStarted' /\ OnePollFirst'
      BY <1>t, <1>a, <1>w, <2>1
         DEF MockSkips, ShutdownIsTold, AskedInv, OffUntilStarted, OnePollFirst
    <2>3. GoesOn \/ (Ends /\ EndAsTold)
      BY <2>1 DEF EndAsTold
    <2> QED
      BY <1>3, <1>r, <1>w, <1>t, <2>1, <2>2, <2>3, StepPreserves DEF Next
  <1>4. CASE UNCHANGED vars
    <2>1. UNCHANGED <<chart, flags, credentials, portFree, reachable, main, run, told,
                      inShutdown, status, latest, asked, conn>>
      BY <1>4 DEF vars, world
    <2>2. TypeOK'
      BY <1>t, <2>1 DEF TypeOK
    <2>3. /\ FlagsOfChart' /\ MockSkips' /\ ShutdownIsTold' /\ AskedInv'
          /\ OffUntilStarted' /\ OnePollFirst'
      BY <2>1, <1>a DEF IInv, FlagsOfChart, MockSkips, ShutdownIsTold, AskedInv,
                        OffUntilStarted, OnePollFirst
    <2>4. CutByTheEnd' /\ EndsOnlyAsTold'
      BY <2>1 DEF IInv, CutByTheEnd, EndsOnlyAsTold, Running, Steady
    <2> QED
      BY <2>2, <2>3, <2>4 DEF IInv
  <1> QED
    BY <1>1, <1>2, <1>3, <1>4 DEF Next

-----------------------------------------------------------------------------
\* The inductive invariant holds in every reachable state.
THEOREM Invariance == Spec => []IInv
  BY InitEstablishes, NextPreserves, PTL DEF Spec

\* Every variable of the process keeps its type.
THEOREM TypeCorrect == Spec => []TypeOK
  <1>1. IInv => TypeOK
    BY DEF IInv
  <1> QED
    BY <1>1, Invariance, PTL

\* main: once it serves, the process ends only as it was told to, or by the panic
\* of an interval nobody checked; nobody is cut off otherwise.
THEOREM ServesUntilTold == Spec => []EndsOnlyAsTold
  <1>1. IInv => EndsOnlyAsTold
    BY DEF IInv
  <1> QED
    BY <1>1, Invariance, PTL

\* What the arguments the chart passes let a poll ask for, against the roles the
\* chart makes: nothing else, and each signal's permission if it has one.
LEMMA ChartArgsMatchRoles ==
    ASSUME NEW v \in Values, v.create, flags = Args(v), NEW a \in Asks
    PROVE  /\ a \subseteq Granted(v)
           /\ "metrics.k8s.io" \in Granted(v) => "metrics.k8s.io" \in a
           /\ Granted(v) \cap Disk # {} => a \cap Disk # {}
  <1>1. /\ v.metrics \in BOOLEAN /\ v.nodeStats \in BOOLEAN /\ v.nodesProxy \in BOOLEAN
    BY DEF Values
  <1>2. flags.nodeDisk = NodeDiskArg(v) /\ (flags.metricsServer <=> v.metrics)
    BY DEF Args
  <1>3. /\ "metrics.k8s.io" \in Granted(v) <=> v.metrics
        /\ "nodes/stats" \in Granted(v) <=> v.nodeStats
        /\ "nodes/proxy" \in Granted(v) <=> v.nodesProxy
    BY DEF Granted, Disk
  <1>4. PICK d \in CASE flags.nodeDisk = "off"     -> {{}}
                     [] flags.nodeDisk = "kubelet" -> {{"nodes/stats"}}
                     [] flags.nodeDisk = "proxy"   -> {{"nodes/proxy"}}
                     [] OTHER                      -> {{"nodes/stats"}, Disk} :
          a = (IF flags.metricsServer THEN {"metrics.k8s.io"} ELSE {}) \cup d
    BY DEF Asks
  <1>5. /\ d \subseteq Disk /\ d \subseteq Granted(v)
        /\ Granted(v) \cap Disk # {} => d # {}
    <2>1. CASE v.nodeStats /\ v.nodesProxy
      <3>1. flags.nodeDisk = "auto"
        BY <1>1, <1>2, <2>1 DEF NodeDiskArg
      <3>2. d \in {{"nodes/stats"}, Disk}
        BY <1>4, <3>1
      <3> QED
        BY <1>3, <2>1, <3>2 DEF Disk
    <2>2. CASE v.nodeStats /\ ~v.nodesProxy
      <3>1. flags.nodeDisk = "kubelet"
        BY <1>1, <1>2, <2>2 DEF NodeDiskArg
      <3>2. d = {"nodes/stats"}
        BY <1>4, <3>1
      <3> QED
        BY <1>3, <2>2, <3>2 DEF Disk
    <2>3. CASE ~v.nodeStats /\ v.nodesProxy
      <3>1. flags.nodeDisk = "proxy"
        BY <1>1, <1>2, <2>3 DEF NodeDiskArg
      <3>2. d = {"nodes/proxy"}
        BY <1>4, <3>1
      <3> QED
        BY <1>3, <2>3, <3>2 DEF Disk
    <2>4. CASE ~v.nodeStats /\ ~v.nodesProxy
      <3>1. flags.nodeDisk = "off"
        BY <1>1, <1>2, <2>4 DEF NodeDiskArg
      <3>2. d = {}
        BY <1>4, <3>1
      <3>3. Granted(v) \cap Disk = {}
        BY <1>3, <2>4 DEF Disk
      <3> QED
        BY <3>2, <3>3
    <2> QED
      BY <1>1, <2>1, <2>2, <2>3, <2>4
  <1> QED
    BY <1>2, <1>3, <1>4, <1>5

\* deployment.yaml, main: with roles made by the chart, the polls ask for what is
\* granted, and for nothing else.
THEOREM ChartAsksWhatItGrants == Spec => []AsksWhatIsGranted
  <1>1. IInv => AsksWhatIsGranted
    <2> SUFFICES ASSUME IInv, chart # NoChart, chart.create
                 PROVE  /\ asked \subseteq Granted(chart)
                        /\ latest > 0 =>
                             /\ "metrics.k8s.io" \in Granted(chart) => "metrics.k8s.io" \in asked
                             /\ Granted(chart) \cap Disk # {} => asked \cap Disk # {}
      BY DEF AsksWhatIsGranted
    <2>1. chart \in Values /\ flags = Args(chart) /\ AskedInv
      BY DEF IInv, TypeOK, FlagsOfChart
    <2>2. \A a \in Asks : /\ a \subseteq Granted(chart)
                          /\ "metrics.k8s.io" \in Granted(chart) => "metrics.k8s.io" \in a
                          /\ Granted(chart) \cap Disk # {} => a \cap Disk # {}
      BY <2>1, ChartArgsMatchRoles
    <2>3. asked \subseteq Granted(chart)
      BY <2>1, <2>2 DEF AskedInv
    <2>4. ASSUME latest > 0 PROVE \E a \in Asks : a \subseteq asked
      <3>1. ~flags.mock
        BY <2>1, ArgsAreFlags
      <3> QED
        BY <2>1, <2>4, <3>1 DEF AskedInv
    <2> QED
      BY <2>2, <2>3, <2>4
  <1> QED
    BY <1>1, Invariance, PTL

-----------------------------------------------------------------------------
\* How far the end is, in steps of main and of the goroutine that shuts down: the
\* half of ExitsWhenTold that needs no fairness.

StagesAhead == CASE main = "flags"  -> 4
                 [] main = "source" -> 3
                 [] main = "start"  -> 2
                 [] main = "listen" -> 1
                 [] OTHER           -> 0

StepsToExit == IF Running THEN StagesAhead + (IF inShutdown THEN 1 ELSE 2) ELSE 0

\* A process that has ended has no step to go, one that runs has some.
LEMMA StepsLeft == /\ StepsToExit \in 0..6
                   /\ StepsToExit = 0 <=> ~Running
  BY DEF StepsToExit, StagesAhead

\* A step that changes neither where main is nor the server's flag brings the end
\* no further away.
LEMMA NoDetour ==
    ASSUME UNCHANGED <<main, inShutdown>>, Running \/ UNCHANGED status
    PROVE  StepsToExit' <= StepsToExit
  <1>1. StagesAhead' = StagesAhead /\ StagesAhead \in 0..4
    BY DEF StagesAhead
  <1> QED
    BY <1>1 DEF StepsToExit, Running

\* A step of main ends the process or takes it to the next stage.
LEMMA MainComesNearer == Main => StepsToExit' < StepsToExit
  <1>0. ASSUME Running, ~Running' PROVE StepsToExit' < StepsToExit
    BY <1>0 DEF StepsToExit, StagesAhead
  <1>1. ASSUME Running, NEW s \in {"exit 0", "exit 1", "exit 2"}, Exit(s)
        PROVE  StepsToExit' < StepsToExit
    BY <1>0, <1>1 DEF Exit, Running
  <1>2. ASSUME Running, UNCHANGED inShutdown,
               \/ Goto("flags", "source") \/ Goto("source", "start")
               \/ Goto("start", "listen") \/ Goto("listen", "serve")
        PROVE  StepsToExit' < StepsToExit
    <2>1. Running'
      BY <1>2 DEF Goto, Running
    <2>2. StagesAhead' + 1 = StagesAhead /\ StagesAhead' \in 0..4 /\ StagesAhead \in 0..4
      BY <1>2 DEF Goto, StagesAhead
    <2> DEFINE toShutdown == IF inShutdown THEN 1 ELSE 2
    <2>3. toShutdown' = toShutdown /\ toShutdown \in 1..2
      BY <1>2
    <2>4. StepsToExit' = StagesAhead' + toShutdown' /\ StepsToExit = StagesAhead + toShutdown
      BY <1>2, <2>1 DEF StepsToExit
    <2> HIDE DEF toShutdown
    <2>5. StagesAhead' \in Nat /\ toShutdown \in Nat
      BY <2>2, <2>3
    <2>6. /\ StepsToExit' = StagesAhead' + toShutdown
          /\ StepsToExit = (StagesAhead' + 1) + toShutdown
      BY <2>2, <2>3, <2>4
    <2>7. \A x, y \in Nat : x + y < (x + 1) + y
      OBVIOUS
    <2>8. StagesAhead' + toShutdown < (StagesAhead' + 1) + toShutdown
      BY <2>5, <2>7
    <2> QED
      BY <2>6, <2>8
  <1> QED
    BY <1>1, <1>2 DEF Main, ParseFlags, NewSource, StartGoroutines, Listen, ServeReturns

\* Shutdown lets ListenAndServe return.
LEMMA ShutdownComesNearer == Shutdown => StepsToExit' < StepsToExit
  <1> SUFFICES ASSUME Shutdown PROVE StepsToExit' < StepsToExit
    OBVIOUS
  <1>1. /\ Running /\ Running' /\ UNCHANGED main /\ ~inShutdown /\ inShutdown'
    BY DEF Shutdown, Running
  <1>2. StagesAhead' = StagesAhead /\ StagesAhead \in 0..4
    BY <1>1 DEF StagesAhead
  <1> QED
    BY <1>1, <1>2 DEF StepsToExit

\* main, the shutdown goroutine: the process is never more than six steps of these
\* two from its end, each of their steps brings it nearer, and nothing that polls,
\* requests, streams or the API server do takes it further away, for any number of
\* clients: nobody waits for a connection to end.
THEOREM ExitIsNear ==
    Spec => /\ [](StepsToExit \in 0..6 /\ (StepsToExit = 0 <=> ~Running))
            /\ [][StepsToExit' <= StepsToExit]_vars
            /\ [][Main \/ Shutdown => StepsToExit' < StepsToExit]_vars
  <1>1. [Next]_vars => [StepsToExit' <= StepsToExit]_vars
    <2> SUFFICES ASSUME Next PROVE StepsToExit' <= StepsToExit
      OBVIOUS
    <2>0. StepsToExit \in Nat /\ StepsToExit' \in Nat
      <3>1. StepsToExit' \in 0..6
        BY DEF StepsToExit, StagesAhead
      <3> QED
        BY <3>1, StepsLeft
    <2>1. CASE Main \/ Shutdown
      BY <2>0, <2>1, MainComesNearer, ShutdownComesNearer
    <2>2. CASE ~(Main \/ Shutdown)
      <3>1. UNCHANGED <<main, inShutdown>>
        BY <2>2 DEF Next, Polls, WaitForCacheSync, FirstPoll, NewTicker, Tick, MockTick,
                    RunReturns, Runs, Signal, ComesUp, Accept, Answer, HangUp, Client
      <3> QED
        BY <3>1, OnlyWhileRunning, NoDetour
    <2> QED
      BY <2>1, <2>2
  <1>2. [Next]_vars => [Main \/ Shutdown => StepsToExit' < StepsToExit]_vars
    BY MainComesNearer, ShutdownComesNearer
  <1> QED
    BY <1>1, <1>2, StepsLeft, PTL DEF Spec
=============================================================================
