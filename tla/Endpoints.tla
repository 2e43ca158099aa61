------------------------------ MODULE Endpoints ------------------------------
(***************************************************************************)
(* The endpoints of internal/server/server.go that read the latest         *)
(* snapshot, the scrape-time collector of internal/metrics behind /metrics, *)
(* and the marshalCache the snapshot endpoint and the stream share.        *)
(*                                                                         *)
(* A pointer is an address, and the garbage collector reuses the address   *)
(* of a snapshot nobody points to any more for a later one.  Whether       *)
(* pointer identity is a safe cache key depends on who still points where. *)
(*                                                                         *)
(* A snapshot is told from another by its generation.  What an endpoint    *)
(* makes of it (JSON, gzipped or not, two capability flags, five gauges)   *)
(* is abstracted to the generation it was made from; encoding a Snapshot   *)
(* (strings, integers, booleans) cannot fail.                              *)
(***************************************************************************)
EXTENDS Naturals, FiniteSets

CONSTANTS
    Addresses,  \* where snapshots can be allocated
    Clients,    \* browsers, probes, scrapers: one request at a time each; a
                \* stream is two: the event it writes, the one in its channel
    MaxGen,     \* bound: snapshots published in a behaviour
    nil

Requests == {"snapshot", "event", "capabilities", "metrics", "readyz"}

ASSUME EndpointsAssumption ==
    /\ MaxGen \in Nat \ {0}
    /\ nil \notin Addresses \cup Nat \cup Requests
    /\ IsFiniteSet(Addresses) /\ IsFiniteSet(Clients) /\ Clients # {}
    \* publish always finds room: every root holds one
    /\ Cardinality(Addresses) > Cardinality(Clients) + 2

VARIABLES
    heap,      \* address -> the generation of the snapshot allocated there last
    latest,    \* the collector's pointer
    snap,      \* the cache's key
    data,      \* the cache's bytes, as the generation they encode
    req,       \* what each client is asking for
    held,      \* the pointer the handler of its request holds
    answer,    \* what it is about to write: a generation, 0 for "no snapshot"
    seen,      \* history: the newest generation the client knows of
    encoded    \* history: how often each generation was encoded

cache   == <<snap, data>>
clients == <<req, held, answer, seen>>
vars    == <<heap, latest, cache, clients, encoded>>

Gens == 1..MaxGen

MaxEncodes == 2 * Cardinality(Clients)

TypeOK == /\ heap \in [Addresses -> 0..MaxGen]
          /\ {latest, snap} \subseteq Addresses \cup {nil}
          /\ data \in Gens \cup {nil}
          /\ req \in [Clients -> Requests \cup {nil}]
          /\ held \in [Clients -> Addresses \cup {nil}]
          /\ answer \in [Clients -> 0..MaxGen \cup {nil}]
          /\ seen \in [Clients -> 0..MaxGen]
          /\ encoded \in [Gens -> 0..MaxEncodes]

Init == /\ heap = [a \in Addresses |-> 0]
        /\ latest = nil
        /\ snap = nil /\ data = nil
        /\ req = [c \in Clients |-> nil]
        /\ held = [c \in Clients |-> nil]
        /\ answer = [c \in Clients |-> nil]
        /\ seen = [c \in Clients |-> 0]
        /\ encoded = [g \in Gens |-> 0]

-----------------------------------------------------------------------------
\* What the garbage collector must keep: the cache's own key is among it.
Reachable == {latest, snap} \cup {held[c] : c \in Clients}

Newest == IF latest = nil THEN 0 ELSE heap[latest]

\* pollOnce allocates a snapshot and publishes it.
Publish(a) == /\ Newest < MaxGen
              /\ a \notin Reachable
              /\ heap' = [heap EXCEPT ![a] = Newest + 1]
              /\ latest' = a
              /\ UNCHANGED <<cache, clients, encoded>>

-----------------------------------------------------------------------------
\* Mutant: the gauges are those of the snapshot that was encoded last.
MutRead(r) == IF r = "metrics" /\ snap # nil THEN snap ELSE latest

\* source.Latest, or latest of the snapshotCollector: the same function.
Read(r) == latest

\* The mux hands the request to a handler, which reads the snapshot.  The
\* handler may take its time before it goes on.
Begin(c, r) == /\ req[c] = nil
               /\ req' = [req EXCEPT ![c] = r]
               /\ held' = [held EXCEPT ![c] = Read(r)]
               /\ UNCHANGED <<heap, latest, cache, answer, seen, encoded>>

\* The handler of a request for one of R answers with g.
Answers(c, R, g) == /\ req[c] \in R
                    /\ answer[c] = nil
                    /\ answer' = [answer EXCEPT ![c] = g]
                    /\ UNCHANGED <<heap, latest, req, held, seen>>

\* The JSON of capabilities: all down as long as there is no snapshot.
handleCapabilities(c) ==
    /\ Answers(c, {"capabilities"}, IF held[c] = nil THEN 0 ELSE heap[held[c]])
    /\ UNCHANGED <<cache, encoded>>

\* 200, or 503 as long as there is no snapshot.
handleReady(c) == /\ Answers(c, {"readyz"}, IF held[c] = nil THEN 0 ELSE 1)
                  /\ UNCHANGED <<cache, encoded>>

\* The gauges of one snapshot, or none of them.
Collect(c) == /\ Answers(c, {"metrics"}, IF held[c] = nil THEN 0 ELSE heap[held[c]])
              /\ UNCHANGED <<cache, encoded>>

\* handleSnapshot: 503.
NoSnapshotYet(c) == /\ held[c] = nil
                    /\ Answers(c, {"snapshot"}, 0)
                    /\ UNCHANGED <<cache, encoded>>

\* Mutant: whatever is cached is served, the pointers are not compared.
MutHit(c) == data # nil

\* marshalCache.bytes; both branches run under its mutex: one step each.
Hit(c) == held[c] = snap /\ data # nil

CachedBytes(c) == /\ held[c] # nil
                  /\ Hit(c)
                  /\ Answers(c, {"snapshot", "event"}, data)
                  /\ UNCHANGED <<cache, encoded>>

\* Mutant: the bytes are kept under the pointer only if there are none yet.
MutStore(a, g) == IF data = nil THEN snap' = a /\ data' = g ELSE UNCHANGED cache

Store(a, g) == snap' = a /\ data' = g

\* Mutant: nobody looks whether there is a snapshot, and null is encoded.
MutMarshalBytes(c) ==
    /\ ~Hit(c)
    /\ LET g == IF held[c] = nil THEN 0 ELSE heap[held[c]]
       IN  /\ Answers(c, {"snapshot", "event"}, g)
           /\ Store(held[c], g)
           /\ encoded' = [n \in Gens |-> IF n = g /\ encoded[n] < MaxEncodes
                                          THEN encoded[n] + 1 ELSE encoded[n]]

MarshalBytes(c) ==
    /\ held[c] # nil
    /\ ~Hit(c)
    /\ LET g == heap[held[c]]
       IN  /\ Answers(c, {"snapshot", "event"}, g)
           /\ Store(held[c], g)
           /\ encoded' = [encoded EXCEPT ![g] = IF @ = MaxEncodes THEN @ ELSE @ + 1]

\* The answer is on the wire; the handler returns and drops its pointer.
Finish(c) == /\ answer[c] # nil
             /\ seen' = [seen EXCEPT ![c] = IF answer[c] > @ THEN answer[c] ELSE @]
             /\ req' = [req EXCEPT ![c] = nil]
             /\ held' = [held EXCEPT ![c] = nil]
             /\ answer' = [answer EXCEPT ![c] = nil]
             /\ UNCHANGED <<heap, latest, cache, encoded>>

Next == \/ \E a \in Addresses : Publish(a)
        \/ \E c \in Clients :
              \/ \E r \in Requests \ {"event"} : Begin(c, r)
              \* handleStream has no event to write without a snapshot
              \/ latest # nil /\ Begin(c, "event")
              \/ handleCapabilities(c) \/ handleReady(c) \/ Collect(c)
              \/ NoSnapshotYet(c) \/ CachedBytes(c) \/ MarshalBytes(c)
              \/ Finish(c)

Spec == Init /\ [][Next]_vars

-----------------------------------------------------------------------------
\* marshalCache.bytes, "pointer identity is a safe cache key": a handler writes
\* the bytes of the very snapshot it holds, although addresses are reused and
\* handlers hold snapshots of different age.
BytesOfOwnSnapshot ==
    \A c \in Clients :
        req[c] \in {"snapshot", "event"} /\ answer[c] # nil
           => answer[c] = IF held[c] = nil THEN 0 ELSE heap[held[c]]

\* snapshotCollector, "can never drift from what the API is actually serving":
\* whichever endpoints a client asks, one after the other, no answer is of an
\* older snapshot than it has seen already, and none says there is no snapshot.
\* (An event of the stream may be older: see module Server.)
ReadsDoNotGoBack ==
    \A c \in Clients :
        req[c] # "event" /\ answer[c] # nil
           => answer[c] >= IF req[c] = "readyz" /\ seen[c] > 0 THEN 1 ELSE seen[c]

\* marshalCache, "one marshal per snapshot instead of one per connected client":
\* handlers that hold different snapshots evict each other's bytes, so a snapshot
\* may be encoded again; but less than twice per handler, however many requests
\* there are: once for each that held an older one, and once more for each that
\* is late with it.
EncodesBounded == \A g \in Gens : encoded[g] < MaxEncodes
=============================================================================
