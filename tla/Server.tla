-------------------------------- MODULE Server --------------------------------
(***************************************************************************)
(* The SSE endpoint, handleStream of internal/server/server.go, over the   *)
(* collector's publish/subscribe (module Hub) and with the stream_clients  *)
(* gauge of internal/metrics.                                              *)
(*                                                                         *)
(* A handler subscribes first and reads Latest afterwards, and the         *)
(* collector publishes in between as it likes.  The snapshots are told     *)
(* apart by their generation; MaxGen stands for "the MaxGen-th or a later  *)
(* one", so that publishing never has to stop.                             *)
(*                                                                         *)
(* A client may hang up at any time, and reconnects like an EventSource.   *)
(* The Stalled clients stop reading without hanging up: their handler may  *)
(* stay blocked in a write for as long as the connection lives.            *)
(***************************************************************************)
EXTENDS Naturals, FiniteSets

CONSTANTS
    Clients,   \* browsers with an EventSource
    Stalled,   \* those that may stop reading
    MaxGen,    \* generations told apart
    NoSnap

ASSUME ServerAssumption == /\ MaxGen \in Nat \ {0}
                           /\ IsFiniteSet(Clients)
                           /\ Stalled \subseteq Clients
                           /\ NoSnap \notin Nat

VARIABLES
    latest, subs, chan,  \* the Hub's
    stage,               \* where each client's handler is
    held,                \* the snapshot it is about to write
    hungUp,              \* is the request context of the client done?
    streamClients,       \* the gauge
    sent,                \* history: the generation of the last event written
    events               \* history: events written to this stream: 0, 1, 2 or more

H == INSTANCE Hub WITH Channels <- Clients

vars == <<latest, subs, chan, stage, held, hungUp, streamClients, sent, events>>

Gens == 1..MaxGen

\* Stages of handleStream, in the order of the code; "uncount" and "cancel"
\* are its deferred calls.
Stages == {"off", "subscribe", "count", "latest", "write", "select", "uncount", "cancel"}

TypeOK == /\ latest \in Gens \cup {NoSnap}
          /\ subs \subseteq Clients
          /\ chan \in [Clients -> Gens \cup {NoSnap}]
          /\ stage \in [Clients -> Stages]
          /\ held \in [Clients -> Gens \cup {NoSnap}]
          /\ hungUp \subseteq Clients
          /\ streamClients \in 0..Cardinality(Clients)
          /\ sent \in [Clients -> Gens \cup {NoSnap}]
          /\ events \in [Clients -> 0..2]

Init == /\ H!HubInit
        /\ stage = [c \in Clients |-> "off"]
        /\ held = [c \in Clients |-> NoSnap]
        /\ hungUp = {}
        /\ streamClients = 0
        /\ sent = [c \in Clients |-> NoSnap]
        /\ events = [c \in Clients |-> 0]

-----------------------------------------------------------------------------
\* The collector publishes the next snapshot.
NextGen == IF latest = NoSnap THEN 1
           ELSE IF latest = MaxGen THEN MaxGen ELSE latest + 1

Publish == /\ H!publish(NextGen)
           /\ UNCHANGED <<stage, held, hungUp, streamClients, sent, events>>

-----------------------------------------------------------------------------
\* The handler of client c.

Goto(c, from, to) == /\ stage[c] = from
                     /\ stage' = [stage EXCEPT ![c] = to]

Connect(c) == /\ Goto(c, "off", "subscribe")
              /\ hungUp' = hungUp \ {c}
              /\ sent' = [sent EXCEPT ![c] = NoSnap]
              /\ events' = [events EXCEPT ![c] = 0]
              /\ UNCHANGED <<latest, subs, chan, held, streamClients>>

Subscribe(c) == /\ Goto(c, "subscribe", "count")
                /\ H!Subscribe(c)
                /\ UNCHANGED <<held, hungUp, streamClients, sent, events>>

StreamConnected(c) == /\ Goto(c, "count", "latest")
                      /\ streamClients' = streamClients + 1
                      /\ UNCHANGED <<latest, subs, chan, held, hungUp, sent, events>>

\* Latest, and the first event if there is a snapshot already.
ReadLatest(c) == /\ Goto(c, "latest", IF latest = NoSnap THEN "select" ELSE "write")
                 /\ held' = [held EXCEPT ![c] = latest]
                 /\ UNCHANGED <<latest, subs, chan, hungUp, streamClients, sent, events>>

\* writeEvent and Flush.
WriteEvent(c) == /\ Goto(c, "write", "select")
                 /\ sent' = [sent EXCEPT ![c] = held[c]]
                 /\ events' = [events EXCEPT ![c] = IF @ = 2 THEN 2 ELSE @ + 1]
                 /\ held' = [held EXCEPT ![c] = NoSnap]
                 /\ UNCHANGED <<latest, subs, chan, hungUp, streamClients>>

\* Mutant: this return forgets the gauge.
MutWayOut == "cancel"

\* The deferred calls, last to first.
WayOut == "uncount"

\* A write to a client that has gone fails: the handler returns.
WriteFails(c) == /\ c \in hungUp
                 /\ Goto(c, "write", WayOut)
                 /\ held' = [held EXCEPT ![c] = NoSnap]
                 /\ UNCHANGED <<latest, subs, chan, hungUp, streamClients, sent, events>>

\* Mutant: the heartbeat sends the latest snapshot and leaves the channel full.
MutTakeNext(c) == \/ H!Receive(c) /\ held' = [held EXCEPT ![c] = chan[c]]
                  \/ /\ latest # NoSnap
                     /\ held' = [held EXCEPT ![c] = latest]
                     /\ UNCHANGED <<latest, subs, chan>>

TakeNext(c) == H!Receive(c) /\ held' = [held EXCEPT ![c] = chan[c]]

SelectSnapshot(c) == /\ Goto(c, "select", "write")
                     /\ TakeNext(c)
                     /\ UNCHANGED <<hungUp, streamClients, sent, events>>

\* Mutant: snapshots come before the end of the request.
MutRequestDone(c) == c \in hungUp /\ chan[c] = NoSnap

RequestDone(c) == c \in hungUp

\* The select loop ends with the request, or when a heartbeat cannot be
\* written; a heartbeat that can be changes nothing.
SelectDone(c) == /\ RequestDone(c)
                 /\ Goto(c, "select", "uncount")
                 /\ UNCHANGED <<latest, subs, chan, held, hungUp, streamClients, sent, events>>

\* Mutant: the client is counted down twice.
MutCountDown == streamClients - 2

CountDown == streamClients - 1

StreamDisconnected(c) == /\ Goto(c, "uncount", "cancel")
                         /\ streamClients' = CountDown
                         /\ UNCHANGED <<latest, subs, chan, held, hungUp, sent, events>>

Cancel(c) == /\ Goto(c, "cancel", "off")
             /\ H!Cancel(c)
             /\ UNCHANGED <<held, hungUp, streamClients, sent, events>>

HangUp(c) == /\ stage[c] # "off"
             /\ c \notin hungUp
             /\ hungUp' = hungUp \cup {c}
             /\ UNCHANGED <<latest, subs, chan, stage, held, streamClients, sent, events>>

-----------------------------------------------------------------------------
\* Steps the handler takes by itself; writing needs a client that reads.
Opens(c)  == Subscribe(c) \/ StreamConnected(c) \/ ReadLatest(c)
Closes(c) == StreamDisconnected(c) \/ Cancel(c)

Next == \/ Publish
        \/ \E c \in Clients : \/ Connect(c) \/ HangUp(c)
                              \/ Opens(c) \/ Closes(c)
                              \/ SelectSnapshot(c) \/ SelectDone(c)
                              \/ WriteEvent(c) \/ WriteFails(c)

\* The poll loop keeps publishing (module Collector), the Go scheduler runs
\* every handler that can run, a Go select that keeps finding the same case
\* ready takes it sooner or later (it picks at random), a write to a client
\* that has gone fails, and a client that does not stall reads what it is sent.
Fairness == /\ WF_vars(Publish)
            /\ \A c \in Clients :
                  /\ WF_vars(Opens(c)) /\ WF_vars(Closes(c)) /\ WF_vars(WriteFails(c))
                  /\ WF_vars(SelectSnapshot(c)) /\ SF_vars(SelectDone(c))
            /\ \A c \in Clients \ Stalled : WF_vars(WriteEvent(c))

Spec == Init /\ [][Next]_vars /\ Fairness

-----------------------------------------------------------------------------
\* handleStream: on every way out of the handler its subscription is cancelled
\* and the gauge goes down again, so that neither leaks across reconnects.
Subscribed(c) == stage[c] \notin {"off", "subscribe"}
Counted(c)    == Subscribed(c) /\ stage[c] \notin {"count", "cancel"}
NothingLeaks == /\ subs = {c \in Clients : Subscribed(c)}
                /\ streamClients = Cardinality({c \in Clients : Counted(c)})

\* handleStream, publish: a stream may step back to an older snapshot once, when
\* two snapshots were published between Subscribe and Latest; it does so with
\* its second event and never again.
StepsBackAtMostOnce ==
    [][\A c \in Clients :
          sent[c] # NoSnap /\ sent'[c] # NoSnap /\ sent'[c] < sent[c]
             => events[c] = 1]_vars

\* publish, handleStream: a client that reads is brought up to date however
\* often its channel was full, and whatever the stalled clients do.
CatchesUp ==
    \A c \in Clients \ Stalled :
        (stage[c] = "select") ~> (sent[c] = MaxGen \/ c \in hungUp)

\* handleStream, StreamDisconnected: the handler of a client that has gone
\* returns, even one that was blocked writing to it.
HandlerReturns ==
    \A c \in Clients : (c \in hungUp) ~> (stage[c] = "off")
=============================================================================
