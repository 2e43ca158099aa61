--------------------------------- MODULE Hub ---------------------------------
(***************************************************************************)
(* collector.Source: the latest snapshot and the subscriptions to the next *)
(* ones, as the Collector keeps them under its mutex (the Mock has the same*)
(* code).  Each operation holds the mutex from start to end, or is a       *)
(* single channel operation, so each is one step.                          *)
(*                                                                         *)
(* A subscription is a channel of capacity one.  publish never blocks on   *)
(* it: a channel that is still full keeps what it holds.                   *)
(***************************************************************************)
CONSTANTS
    Channels,  \* the channels Subscribe may create
    NoSnap     \* the nil snapshot, and an empty channel

VARIABLES
    latest,    \* the snapshot published last
    subs,      \* the channels subscribed
    chan       \* what each channel holds

hub == <<latest, subs, chan>>

HubInit == /\ latest = NoSnap
           /\ subs = {}
           /\ chan = [c \in Channels |-> NoSnap]

\* Mutant: publishing stops at a full channel.
MutPublishStops(snap) ==
    /\ latest' = snap
    /\ chan' = [c \in Channels |-> IF c \in subs /\ \A d \in subs : chan[d] = NoSnap
                                   THEN snap ELSE chan[c]]
    /\ UNCHANGED subs

publish(snap) ==
    /\ latest' = snap
    /\ chan' = [c \in Channels |-> IF c \in subs /\ chan[c] = NoSnap THEN snap ELSE chan[c]]
    /\ UNCHANGED subs

\* A fresh, empty channel.
Subscribe(c) == /\ subs' = subs \cup {c}
                /\ chan' = [chan EXCEPT ![c] = NoSnap]
                /\ UNCHANGED latest

\* The cancel function Subscribe returns.
Cancel(c) == /\ subs' = subs \ {c}
             /\ UNCHANGED <<latest, chan>>

\* The subscriber takes what its channel holds.
Receive(c) == /\ chan[c] # NoSnap
              /\ chan' = [chan EXCEPT ![c] = NoSnap]
              /\ UNCHANGED <<latest, subs>>
=============================================================================
