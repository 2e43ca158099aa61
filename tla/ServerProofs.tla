----------------------------- MODULE ServerProofs -----------------------------
(***************************************************************************)
(* Proofs about Server, for every set of clients, stalled or not, and any  *)
(* number of snapshots.                                                    *)
(*                                                                         *)
(* That nothing leaks is inductive with the types.  That a stream steps    *)
(* back at most once is not: the invariant follows a snapshot on its way   *)
(* from publish through the channel and the handler to the wire, and says  *)
(* from when on each of the three holds nothing older than the next.       *)
(***************************************************************************)
EXTENDS Server, FiniteSetTheorems, TLAPS

\* s is no snapshot, or one that was published: none is newer than the latest.
Old(s) == s # NoSnap => latest # NoSnap /\ s <= latest

\* s is no snapshot, or not older than t.
NotBefore(s, t) == s # NoSnap => s >= t

StreamOrder(c) ==
    /\ Old(chan[c]) /\ Old(held[c]) /\ Old(sent[c])
    /\ stage[c] \in {"subscribe", "count", "latest"} => events[c] = 0
    /\ events[c] = 0 <=> sent[c] = NoSnap
    /\ stage[c] = "write" => held[c] # NoSnap
    \* what is written after the first event was taken from the channel
    /\ stage[c] = "write" /\ events[c] >= 1 => NotBefore(chan[c], held[c])
    \* from the second event on, the channel and the handler are ahead
    /\ events[c] = 2 => /\ NotBefore(chan[c], sent[c])
                        /\ stage[c] = "write" => held[c] >= sent[c]

StreamsInv == \A c \in Clients : StreamOrder(c)

IInv == TypeOK /\ NothingLeaks /\ StreamsInv

CountedSet == {c \in Clients : Counted(c)}

-----------------------------------------------------------------------------
LEMMA CountedFinite ==
    /\ IsFiniteSet(Clients) /\ Cardinality(Clients) \in Nat
    /\ \A S \in SUBSET Clients : /\ IsFiniteSet(S)
                                 /\ Cardinality(S) \in 0..Cardinality(Clients)
  BY ServerAssumption, FS_Subset, FS_CardinalityType

\* One handler more is counted, and one less.
LEMMA OneMore ==
    ASSUME NEW S \in SUBSET Clients, NEW c \in Clients \ S
    PROVE  Cardinality(S \cup {c}) = Cardinality(S) + 1
  BY CountedFinite, FS_AddElement

LEMMA OneLess ==
    ASSUME NEW S \in SUBSET Clients, NEW c \in S
    PROVE  Cardinality(S \ {c}) = Cardinality(S) - 1
  BY CountedFinite, FS_RemoveElement

LEMMA InitEstablishes == Init => IInv
  <1> SUFFICES ASSUME Init PROVE IInv
    OBVIOUS
  <1>1. TypeOK
    BY CountedFinite DEF Init, H!HubInit, TypeOK, Stages
  <1>2. NothingLeaks
    <2>1. {c \in Clients : Subscribed(c)} = {} /\ {c \in Clients : Counted(c)} = {}
      BY DEF Init, Subscribed, Counted
    <2> QED
      BY <2>1, FS_EmptySet DEF Init, H!HubInit, NothingLeaks
  <1>3. StreamsInv
    BY DEF Init, H!HubInit, StreamsInv, StreamOrder, Old, NotBefore
  <1> QED
    BY <1>1, <1>2, <1>3 DEF IInv

-----------------------------------------------------------------------------
\* What a move of client c's handler does to who is subscribed and counted.
LEMMA MoveKeepsNoLeak ==
    ASSUME TypeOK, NothingLeaks, NEW c \in Clients, NEW to \in Stages,
           stage' = [stage EXCEPT ![c] = to],
           subs' = IF to \in {"off", "subscribe"} THEN subs \ {c} ELSE subs \cup {c},
           streamClients' =
               IF Counted(c) <=> to \notin {"off", "subscribe", "count", "cancel"}
               THEN streamClients
               ELSE IF Counted(c) THEN streamClients - 1 ELSE streamClients + 1
    PROVE  /\ NothingLeaks'
           /\ stage' \in [Clients -> Stages]
           /\ subs' \subseteq Clients
           /\ streamClients' \in 0..Cardinality(Clients)
  <1>1. /\ stage'[c] = to
        /\ \A d \in Clients \ {c} : stage'[d] = stage[d]
        /\ stage' \in [Clients -> Stages]
    BY DEF TypeOK
  <1>2. subs' = {d \in Clients : Subscribed(d)'} /\ subs' \subseteq Clients
    BY <1>1 DEF NothingLeaks, Subscribed
  <1>3. /\ \A d \in Clients \ {c} : Counted(d)' <=> Counted(d)
        /\ Counted(c)' <=> to \notin {"off", "subscribe", "count", "cancel"}
    BY <1>1 DEF Counted, Subscribed
  <1>4. CountedSet \in SUBSET Clients /\ streamClients = Cardinality(CountedSet)
    BY DEF CountedSet, NothingLeaks
  <1>5. streamClients' = Cardinality(CountedSet')
    <2>1. CASE Counted(c) <=> Counted(c)'
      <3>1. CountedSet' = CountedSet
        BY <1>3, <2>1 DEF CountedSet
      <3> QED
        BY <1>3, <1>4, <2>1, <3>1
    <2>2. CASE Counted(c) /\ ~Counted(c)'
      <3>1. CountedSet' = CountedSet \ {c} /\ c \in CountedSet
        BY <1>3, <2>2 DEF CountedSet
      <3>2. Cardinality(CountedSet') = Cardinality(CountedSet) - 1
        BY <1>4, <3>1, OneLess
      <3> QED
        BY <1>3, <1>4, <2>2, <3>2
    <2>3. CASE ~Counted(c) /\ Counted(c)'
      <3>1. CountedSet' = CountedSet \cup {c} /\ c \notin CountedSet
        BY <1>3, <2>3 DEF CountedSet
      <3>2. Cardinality(CountedSet') = Cardinality(CountedSet) + 1
        BY <1>4, <3>1, OneMore
      <3> QED
        BY <1>3, <1>4, <2>3, <3>2
    <2> QED
      BY <2>1, <2>2, <2>3
  <1>6. CountedSet' \in SUBSET Clients
    BY DEF CountedSet
  <1>7. streamClients' \in 0..Cardinality(Clients)
    BY <1>5, <1>6, CountedFinite
  <1>8. NothingLeaks'
    BY <1>2, <1>5 DEF NothingLeaks, CountedSet
  <1> QED
    BY <1>1, <1>2, <1>7, <1>8

\* publish adds the next snapshot to what is empty: it is older than nothing.
LEMMA PublishPreserves ==
    ASSUME IInv, Publish
    PROVE  IInv'
  <1> USE ServerAssumption
  <1>0. TypeOK /\ NothingLeaks /\ StreamsInv
    BY DEF IInv
  <1>1. /\ latest' = NextGen /\ NextGen \in Gens
        /\ latest # NoSnap => latest \in Gens /\ NextGen >= latest
    BY <1>0 DEF Publish, H!publish, NextGen, TypeOK, Gens
  <1>2. /\ chan' \in [Clients -> Gens \cup {NoSnap}]
        /\ \A c \in Clients : chan'[c] = chan[c] \/ (chan[c] = NoSnap /\ chan'[c] = NextGen)
        /\ UNCHANGED <<subs, stage, held, hungUp, streamClients, sent, events>>
    BY <1>0, <1>1 DEF Publish, H!publish, TypeOK
  <1>3. TypeOK'
    BY <1>0, <1>1, <1>2 DEF TypeOK
  <1>4. NothingLeaks'
    BY <1>0, <1>2 DEF NothingLeaks, Subscribed, Counted
  <1>5. ASSUME NEW c \in Clients PROVE StreamOrder(c)'
    <2>1. /\ StreamOrder(c) /\ {chan[c], held[c], sent[c]} \subseteq Gens \cup {NoSnap}
      BY <1>0 DEF StreamsInv, TypeOK
    <2>2. Old(chan[c])' /\ Old(held[c])' /\ Old(sent[c])'
      BY <1>1, <1>2, <2>1 DEF StreamOrder, Old, Gens
    <2>3. ASSUME NEW t \in {held[c], sent[c]}, t # NoSnap, NotBefore(chan[c], t)
          PROVE  NotBefore(chan'[c], t)
      BY <1>1, <1>2, <2>1, <2>3 DEF StreamOrder, NotBefore, Old, Gens
    <2> QED
      BY <1>2, <2>1, <2>2, <2>3 DEF StreamOrder
  <1> QED
    BY <1>3, <1>4, <1>5 DEF IInv, StreamsInv

\* A step of client c's handler, or of the client, is about nobody else.
LEMMA StepOfOne ==
    ASSUME IInv, NEW c \in Clients, TypeOK', NothingLeaks', StreamOrder(c)', latest' = latest,
           \A d \in Clients \ {c} :
               /\ stage'[d] = stage[d] /\ chan'[d] = chan[d] /\ held'[d] = held[d]
               /\ sent'[d] = sent[d] /\ events'[d] = events[d]
    PROVE  IInv'
  <1>1. ASSUME NEW d \in Clients PROVE StreamOrder(d)'
    <2>1. CASE d = c
      BY <2>1
    <2>2. CASE d # c
      <3>1. StreamOrder(d)
        BY DEF IInv, StreamsInv
      <3> QED
        BY <2>2, <3>1 DEF StreamOrder, Old, NotBefore
    <2> QED
      BY <2>1, <2>2
  <1> QED
    BY <1>1 DEF IInv, StreamsInv

\* The steps that leave snapshots alone: only the stage of c moves on.
LEMMA MovePreserves ==
    ASSUME IInv, NEW c \in Clients,
           StreamConnected(c) \/ SelectDone(c) \/ StreamDisconnected(c) \/ Cancel(c)
    PROVE  IInv'
  <1>0. TypeOK /\ NothingLeaks /\ StreamOrder(c)
    BY DEF IInv, StreamsInv
  <1>s. c \in subs <=> Subscribed(c)
    BY <1>0 DEF NothingLeaks
  <1>1. PICK to \in {"latest", "uncount", "cancel", "off"} :
          /\ stage' = [stage EXCEPT ![c] = to]
          /\ to = "latest" => stage[c] = "count"
          /\ subs' = IF to \in {"off", "subscribe"} THEN subs \ {c} ELSE subs \cup {c}
          /\ streamClients' =
               IF Counted(c) <=> to \notin {"off", "subscribe", "count", "cancel"}
               THEN streamClients
               ELSE IF Counted(c) THEN streamClients - 1 ELSE streamClients + 1
          /\ UNCHANGED <<latest, chan, held, hungUp, sent, events>>
    <2>1. CASE StreamConnected(c)
      <3> WITNESS "latest" \in {"latest", "uncount", "cancel", "off"}
      <3>1. subs \cup {c} = subs
        BY <1>s, <2>1 DEF StreamConnected, Goto, Subscribed
      <3> QED
        BY <2>1, <3>1 DEF StreamConnected, Goto, Counted, Subscribed
    <2>2. CASE SelectDone(c)
      <3> WITNESS "uncount" \in {"latest", "uncount", "cancel", "off"}
      <3>1. subs \cup {c} = subs
        BY <1>s, <2>2 DEF SelectDone, Goto, Subscribed
      <3> QED
        BY <2>2, <3>1 DEF SelectDone, Goto, Counted, Subscribed
    <2>3. CASE StreamDisconnected(c)
      <3> WITNESS "cancel" \in {"latest", "uncount", "cancel", "off"}
      <3>1. subs \cup {c} = subs
        BY <1>s, <2>3 DEF StreamDisconnected, Goto, Subscribed
      <3> QED
        BY <2>3, <3>1 DEF StreamDisconnected, Goto, Counted, Subscribed, CountDown
    <2>4. CASE Cancel(c)
      <3> WITNESS "off" \in {"latest", "uncount", "cancel", "off"}
      <3> QED
        BY <2>4 DEF Cancel, H!Cancel, Goto, Counted, Subscribed
    <2> QED
      BY <2>1, <2>2, <2>3, <2>4
  <1>2. /\ NothingLeaks' /\ stage' \in [Clients -> Stages] /\ subs' \subseteq Clients
        /\ streamClients' \in 0..Cardinality(Clients)
    <2>1. to \in Stages
      BY DEF Stages
    <2> QED
      BY <1>0, <1>1, <2>1, MoveKeepsNoLeak
  <1>3. TypeOK'
    BY <1>0, <1>1, <1>2 DEF TypeOK
  <1>4. stage'[c] = to /\ \A d \in Clients \ {c} : stage'[d] = stage[d]
    BY <1>0, <1>1 DEF TypeOK
  <1>5. StreamOrder(c)'
    BY <1>0, <1>1, <1>4 DEF StreamOrder, Old, NotBefore
  <1> QED
    BY <1>1, <1>2, <1>3, <1>4, <1>5, StepOfOne

\* A new stream has sent nothing.
LEMMA ConnectPreserves ==
    ASSUME IInv, NEW c \in Clients, Connect(c)
    PROVE  IInv'
  <1> USE ServerAssumption
  <1>0. TypeOK /\ NothingLeaks /\ StreamOrder(c)
    BY DEF IInv, StreamsInv
  <1>1. /\ stage[c] = "off" /\ stage' = [stage EXCEPT ![c] = "subscribe"]
        /\ hungUp' = hungUp \ {c}
        /\ sent' = [sent EXCEPT ![c] = NoSnap] /\ events' = [events EXCEPT ![c] = 0]
        /\ UNCHANGED <<latest, subs, chan, held, streamClients>>
    BY DEF Connect, Goto
  <1>2. c \notin subs /\ subs \ {c} = subs /\ ~Counted(c)
    BY <1>0, <1>1 DEF NothingLeaks, Subscribed, Counted
  <1>3. /\ NothingLeaks' /\ stage' \in [Clients -> Stages] /\ subs' \subseteq Clients
        /\ streamClients' \in 0..Cardinality(Clients)
    BY <1>0, <1>1, <1>2, MoveKeepsNoLeak DEF Stages
  <1>4. TypeOK'
    BY <1>0, <1>1, <1>3 DEF TypeOK
  <1>5. /\ stage'[c] = "subscribe" /\ sent'[c] = NoSnap /\ events'[c] = 0
        /\ \A d \in Clients \ {c} : stage'[d] = stage[d] /\ sent'[d] = sent[d]
                                    /\ events'[d] = events[d]
    BY <1>0, <1>1 DEF TypeOK
  <1>6. StreamOrder(c)'
    BY <1>0, <1>1, <1>5 DEF StreamOrder, Old, NotBefore
  <1> QED
    BY <1>1, <1>3, <1>4, <1>5, <1>6, StepOfOne

\* Subscribe makes an empty channel.
LEMMA SubscribePreserves ==
    ASSUME IInv, NEW c \in Clients, Subscribe(c)
    PROVE  IInv'
  <1> USE ServerAssumption
  <1>0. TypeOK /\ NothingLeaks /\ StreamOrder(c)
    BY DEF IInv, StreamsInv
  <1>1. /\ stage[c] = "subscribe" /\ stage' = [stage EXCEPT ![c] = "count"]
        /\ subs' = subs \cup {c} /\ chan' = [chan EXCEPT ![c] = NoSnap]
        /\ UNCHANGED <<latest, held, hungUp, streamClients, sent, events>>
    BY DEF Subscribe, H!Subscribe, Goto
  <1>2. ~Counted(c)
    BY <1>1 DEF Subscribed, Counted
  <1>3. /\ NothingLeaks' /\ stage' \in [Clients -> Stages] /\ subs' \subseteq Clients
        /\ streamClients' \in 0..Cardinality(Clients)
    BY <1>0, <1>1, <1>2, MoveKeepsNoLeak DEF Stages
  <1>4. TypeOK'
    BY <1>0, <1>1, <1>3 DEF TypeOK
  <1>5. /\ stage'[c] = "count" /\ chan'[c] = NoSnap
        /\ \A d \in Clients \ {c} : stage'[d] = stage[d] /\ chan'[d] = chan[d]
    BY <1>0, <1>1 DEF TypeOK
  <1>6. StreamOrder(c)'
    BY <1>0, <1>1, <1>5 DEF StreamOrder, Old, NotBefore
  <1> QED
    BY <1>1, <1>3, <1>4, <1>5, <1>6, StepOfOne

\* A handler that is counted moves on to another stage where it is, and changes
\* what it holds.
LEMMA HolderMoves ==
    ASSUME IInv, NEW c \in Clients, NEW to \in {"write", "select", "uncount"},
           stage[c] \in {"latest", "write", "select"},
           stage' = [stage EXCEPT ![c] = to],
           UNCHANGED <<latest, subs, hungUp, streamClients>>,
           chan' \in [Clients -> Gens \cup {NoSnap}], held' \in [Clients -> Gens \cup {NoSnap}],
           sent' \in [Clients -> Gens \cup {NoSnap}], events' \in [Clients -> 0..2],
           \A d \in Clients \ {c} : /\ chan'[d] = chan[d] /\ held'[d] = held[d]
                                    /\ sent'[d] = sent[d] /\ events'[d] = events[d],
           stage'[c] = to => StreamOrder(c)'
    PROVE  IInv'
  <1>0. TypeOK /\ NothingLeaks
    BY DEF IInv
  <1>1. Counted(c) /\ subs \cup {c} = subs
    BY <1>0 DEF NothingLeaks, Subscribed, Counted
  <1>2. /\ NothingLeaks' /\ stage' \in [Clients -> Stages] /\ subs' \subseteq Clients
        /\ streamClients' \in 0..Cardinality(Clients)
    BY <1>0, <1>1, MoveKeepsNoLeak DEF Stages
  <1>3. TypeOK'
    BY <1>0, <1>2 DEF TypeOK
  <1>4. stage'[c] = to /\ \A d \in Clients \ {c} : stage'[d] = stage[d]
    BY <1>0 DEF TypeOK
  <1> QED
    BY <1>2, <1>3, <1>4, StepOfOne

LEMMA ReadLatestPreserves ==
    ASSUME IInv, NEW c \in Clients, ReadLatest(c)
    PROVE  IInv'
  <1> USE ServerAssumption
  <1>0. TypeOK /\ StreamOrder(c)
    BY DEF IInv, StreamsInv
  <1> DEFINE to == IF latest = NoSnap THEN "select" ELSE "write"
  <1>1. /\ stage[c] = "latest" /\ stage' = [stage EXCEPT ![c] = to]
        /\ held' = [held EXCEPT ![c] = latest]
        /\ UNCHANGED <<latest, subs, chan, hungUp, streamClients, sent, events>>
    BY DEF ReadLatest, Goto
  <1>2. /\ held' \in [Clients -> Gens \cup {NoSnap}] /\ held'[c] = latest
        /\ \A d \in Clients \ {c} : held'[d] = held[d]
    BY <1>0, <1>1 DEF TypeOK
  <1>3. events[c] = 0
    BY <1>0, <1>1 DEF StreamOrder
  <1>4. latest # NoSnap => latest <= latest
    BY <1>0 DEF TypeOK, Gens
  <1>5. stage'[c] = to => StreamOrder(c)'
    BY <1>0, <1>1, <1>2, <1>3, <1>4 DEF StreamOrder, Old, NotBefore
  <1>6. to \in {"write", "select", "uncount"}
    OBVIOUS
  <1>7. /\ chan' \in [Clients -> Gens \cup {NoSnap}]
        /\ sent' \in [Clients -> Gens \cup {NoSnap}] /\ events' \in [Clients -> 0..2]
    BY <1>0, <1>1 DEF TypeOK
  <1> HIDE DEF to
  <1> QED
    BY <1>1, <1>2, <1>5, <1>6, <1>7, HolderMoves

\* writeEvent: what goes out is not older than the channel's, from the second
\* event on.
LEMMA WriteEventPreserves ==
    ASSUME IInv, NEW c \in Clients, WriteEvent(c)
    PROVE  IInv'
  <1> USE ServerAssumption
  <1>0. TypeOK /\ StreamOrder(c)
    BY DEF IInv, StreamsInv
  <1>1. /\ stage[c] = "write" /\ stage' = [stage EXCEPT ![c] = "select"]
        /\ sent' = [sent EXCEPT ![c] = held[c]]
        /\ events' = [events EXCEPT ![c] = IF events[c] = 2 THEN 2 ELSE events[c] + 1]
        /\ held' = [held EXCEPT ![c] = NoSnap]
        /\ UNCHANGED <<latest, subs, chan, hungUp, streamClients>>
    BY DEF WriteEvent, Goto
  <1>2. /\ held' \in [Clients -> Gens \cup {NoSnap}] /\ held'[c] = NoSnap
        /\ sent' \in [Clients -> Gens \cup {NoSnap}] /\ sent'[c] = held[c]
        /\ \A d \in Clients \ {c} : held'[d] = held[d] /\ sent'[d] = sent[d]
    BY <1>0, <1>1 DEF TypeOK
  <1>3. events[c] \in 0..2
    BY <1>0 DEF TypeOK
  <1>4. /\ events' \in [Clients -> 0..2]
        /\ events'[c] = IF events[c] = 2 THEN 2 ELSE events[c] + 1
        /\ \A d \in Clients \ {c} : events'[d] = events[d]
    BY <1>0, <1>1, <1>3 DEF TypeOK
  <1>5. held[c] # NoSnap /\ events'[c] # 0
    BY <1>0, <1>1, <1>3, <1>4 DEF StreamOrder
  <1>6. ASSUME events'[c] = 2 PROVE NotBefore(chan'[c], sent'[c])
    <2>1. events[c] >= 1
      BY <1>3, <1>4, <1>6
    <2> QED
      BY <1>0, <1>1, <1>2, <2>1 DEF StreamOrder
  <1>7. stage'[c] = "select" => StreamOrder(c)'
    BY <1>0, <1>1, <1>2, <1>5, <1>6 DEF StreamOrder, Old, NotBefore
  <1>8. chan' \in [Clients -> Gens \cup {NoSnap}]
    BY <1>0, <1>1 DEF TypeOK
  <1> QED
    BY <1>1, <1>2, <1>4, <1>7, <1>8, HolderMoves

LEMMA WriteFailsPreserves ==
    ASSUME IInv, NEW c \in Clients, WriteFails(c)
    PROVE  IInv'
  <1> USE ServerAssumption
  <1>0. TypeOK /\ StreamOrder(c)
    BY DEF IInv, StreamsInv
  <1>1. /\ stage[c] = "write" /\ stage' = [stage EXCEPT ![c] = "uncount"]
        /\ held' = [held EXCEPT ![c] = NoSnap]
        /\ UNCHANGED <<latest, subs, chan, hungUp, streamClients, sent, events>>
    BY DEF WriteFails, Goto, WayOut
  <1>2. /\ held' \in [Clients -> Gens \cup {NoSnap}] /\ held'[c] = NoSnap
        /\ \A d \in Clients \ {c} : held'[d] = held[d]
    BY <1>0, <1>1 DEF TypeOK
  <1>3. stage'[c] = "uncount" => StreamOrder(c)'
    BY <1>0, <1>1, <1>2 DEF StreamOrder, Old, NotBefore
  <1>4. /\ chan' \in [Clients -> Gens \cup {NoSnap}]
        /\ sent' \in [Clients -> Gens \cup {NoSnap}] /\ events' \in [Clients -> 0..2]
    BY <1>0, <1>1 DEF TypeOK
  <1> QED
    BY <1>1, <1>2, <1>3, <1>4, HolderMoves

\* The select loop takes the channel's snapshot and leaves the channel empty.
LEMMA SelectSnapshotPreserves ==
    ASSUME IInv, NEW c \in Clients, SelectSnapshot(c)
    PROVE  IInv'
  <1> USE ServerAssumption
  <1>0. TypeOK /\ StreamOrder(c)
    BY DEF IInv, StreamsInv
  <1>1. /\ stage[c] = "select" /\ stage' = [stage EXCEPT ![c] = "write"]
        /\ chan[c] # NoSnap /\ chan' = [chan EXCEPT ![c] = NoSnap]
        /\ held' = [held EXCEPT ![c] = chan[c]]
        /\ UNCHANGED <<latest, subs, hungUp, streamClients, sent, events>>
    BY DEF SelectSnapshot, TakeNext, H!Receive, Goto
  <1>2. /\ held' \in [Clients -> Gens \cup {NoSnap}] /\ held'[c] = chan[c]
        /\ chan' \in [Clients -> Gens \cup {NoSnap}] /\ chan'[c] = NoSnap
        /\ \A d \in Clients \ {c} : held'[d] = held[d] /\ chan'[d] = chan[d]
    BY <1>0, <1>1 DEF TypeOK
  <1>3. stage'[c] = "write" => StreamOrder(c)'
    BY <1>0, <1>1, <1>2 DEF StreamOrder, Old, NotBefore
  <1>4. sent' \in [Clients -> Gens \cup {NoSnap}] /\ events' \in [Clients -> 0..2]
    BY <1>0, <1>1 DEF TypeOK
  <1> QED
    BY <1>1, <1>2, <1>3, <1>4, HolderMoves

\* A step that changes at most who has hung up.
LEMMA HangUpPreserves ==
    ASSUME IInv, hungUp' \subseteq Clients,
           UNCHANGED <<latest, subs, chan, stage, held, streamClients, sent, events>>
    PROVE  IInv'
  <1>1. TypeOK'
    BY DEF IInv, TypeOK
  <1>2. NothingLeaks'
    BY DEF IInv, NothingLeaks, Subscribed, Counted
  <1>3. StreamsInv'
    BY DEF IInv, StreamsInv, StreamOrder, Old, NotBefore
  <1> QED
    BY <1>1, <1>2, <1>3 DEF IInv

\* Every step keeps the inductive invariant: one case per action.
LEMMA NextPreserves == IInv /\ [Next]_vars => IInv'
  <1> SUFFICES ASSUME IInv, [Next]_vars PROVE IInv'
    OBVIOUS
  <1>1. CASE Publish
    BY <1>1, PublishPreserves
  <1>2. ASSUME NEW c \in Clients, Connect(c) PROVE IInv'
    BY <1>2, ConnectPreserves
  <1>3. ASSUME NEW c \in Clients, HangUp(c) PROVE IInv'
    BY <1>3, HangUpPreserves DEF HangUp, IInv, TypeOK
  <1>4. ASSUME NEW c \in Clients, Opens(c) PROVE IInv'
    BY <1>4, SubscribePreserves, MovePreserves, ReadLatestPreserves DEF Opens
  <1>5. ASSUME NEW c \in Clients, Closes(c) PROVE IInv'
    BY <1>5, MovePreserves DEF Closes
  <1>6. ASSUME NEW c \in Clients, SelectSnapshot(c) \/ SelectDone(c) PROVE IInv'
    BY <1>6, SelectSnapshotPreserves, MovePreserves
  <1>7. ASSUME NEW c \in Clients, WriteEvent(c) \/ WriteFails(c) PROVE IInv'
    BY <1>7, WriteEventPreserves, WriteFailsPreserves
  <1>8. CASE UNCHANGED vars
    BY <1>8, HangUpPreserves DEF vars, IInv, TypeOK
  <1> QED
    BY <1>1, <1>2, <1>3, <1>4, <1>5, <1>6, <1>7, <1>8 DEF Next

-----------------------------------------------------------------------------
\* The inductive invariant holds in every reachable state.
THEOREM Invariance == Spec => []IInv
  BY InitEstablishes, NextPreserves, PTL DEF Spec

\* Every variable of the stream endpoint keeps its type.
THEOREM TypeCorrect == Spec => []TypeOK
  <1>1. IInv => TypeOK
    BY DEF IInv
  <1> QED
    BY <1>1, Invariance, PTL

\* handleStream: on no way out does a subscription or a count stay behind.
THEOREM HandlersLeaveNothing == Spec => []NothingLeaks
  <1>1. IInv => NothingLeaks
    BY DEF IInv
  <1> QED
    BY <1>1, Invariance, PTL

\* handleStream, publish: the second event may be older than the first, and no
\* later one is older than the one before it.
THEOREM OneStepBack == Spec => StepsBackAtMostOnce
  <1>1. IInv /\ [Next]_vars =>
          [\A c \in Clients :
              sent[c] # NoSnap /\ sent'[c] # NoSnap /\ sent'[c] < sent[c]
                 => events[c] = 1]_vars
    <2> USE ServerAssumption
    <2> SUFFICES ASSUME IInv, Next, NEW c \in Clients,
                        sent[c] # NoSnap, sent'[c] # NoSnap, sent'[c] < sent[c]
                 PROVE  events[c] = 1
      BY DEF vars
    <2>0. /\ sent \in [Clients -> Gens \cup {NoSnap}] /\ sent[c] \in Nat
          /\ events[c] \in 0..2 /\ StreamOrder(c)
      BY DEF IInv, TypeOK, StreamsInv, Gens
    <2>1. sent'[c] # sent[c]
      BY <2>0
    <2>2. PICK d \in Clients : Connect(d) \/ WriteEvent(d)
      BY <2>1 DEF Next, Publish, HangUp, Opens, Closes, Subscribe, StreamConnected, ReadLatest,
                  StreamDisconnected, Cancel, SelectSnapshot, SelectDone, WriteFails
    <2>3. CASE Connect(d)
      <3>1. sent' = [sent EXCEPT ![d] = NoSnap]
        BY <2>3 DEF Connect
      <3> QED
        BY <2>0, <2>1, <3>1
    <2>4. CASE WriteEvent(d)
      <3>1. sent' = [sent EXCEPT ![d] = held[d]] /\ stage[d] = "write"
        BY <2>4 DEF WriteEvent, Goto
      <3>2. d = c /\ sent'[c] = held[c]
        BY <2>0, <2>1, <3>1
      <3>3. events[c] # 0 /\ events[c] # 2
        <4>1. events[c] # 0
          BY <2>0 DEF StreamOrder
        <4>2. ASSUME events[c] = 2 PROVE FALSE
          <5>1. held[c] >= sent[c] /\ held[c] \in Gens
            BY <2>0, <3>1, <3>2, <4>2 DEF StreamOrder, IInv, TypeOK
          <5> QED
            BY <2>0, <3>2, <5>1 DEF Gens
        <4> QED
          BY <4>1, <4>2
      <3> QED
        BY <2>0, <3>3
    <2> QED
      BY <2>2, <2>3, <2>4
  <1> QED
    BY <1>1, Invariance, PTL DEF StepsBackAtMostOnce, Spec
=============================================================================
