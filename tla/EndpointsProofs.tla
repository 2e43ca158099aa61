--------------------------- MODULE EndpointsProofs ---------------------------
(***************************************************************************)
(* Proofs about Endpoints, for every set of clients and addresses and any  *)
(* number of snapshots.                                                    *)
(*                                                                         *)
(* Two ideas carry them.  Pointer identity: no two addresses hold the same *)
(* generation, and an address somebody points to is not reused, so the     *)
(* cache hits exactly when it holds the generation asked for.  And a       *)
(* potential: a snapshot is encoded again only after a handler of an older *)
(* one has evicted its bytes, or because a handler is late with it, and    *)
(* each handler can do either only once.                                   *)
(***************************************************************************)
EXTENDS Endpoints, FiniteSetTheorems, TLAPS

\* No address holds a generation that was not published, no two the same one.
HeapInv ==
    /\ latest # nil => heap[latest] >= 1
    /\ \A a \in Addresses : heap[a] <= Newest
    /\ \A a, b \in Addresses : heap[a] = heap[b] /\ heap[a] >= 1 => a = b

\* The cache's bytes are those of the snapshot its key still points to.
CacheInv ==
    /\ snap = nil <=> data = nil
    /\ snap # nil => heap[snap] >= 1 /\ data = heap[snap]

\* What the answer to client c's request is made from.
Held(c) == IF held[c] = nil THEN 0 ELSE heap[held[c]]

HandlerInv ==
    \A c \in Clients :
        /\ held[c] # nil => heap[held[c]] >= 1
        /\ req[c] = nil => held[c] = nil /\ answer[c] = nil
        /\ answer[c] # nil =>
              answer[c] = IF req[c] = "readyz" THEN (IF held[c] = nil THEN 0 ELSE 1) ELSE Held(c)

\* A client has seen nothing newer than what is published, nor than what the
\* handler of its request has read.
SeenInv ==
    \A c \in Clients :
        /\ seen[c] <= Newest
        /\ req[c] \notin {nil, "event"} => seen[c] <= Held(c)

\* The handlers that have yet to ask the cache for the bytes of generation g,
\* and of an older one.
Wants(c) == req[c] \in {"snapshot", "event"} /\ answer[c] = nil /\ held[c] # nil
Late(g)  == {c \in Clients : Wants(c) /\ Held(c) = g}
Evicters(g) == {c \in Clients : Wants(c) /\ Held(c) < g}

n == Cardinality(Clients)

\* How often the newest generation was encoded: each time but the first, some
\* handler had evicted it, and will not do so again.
NewestEncodes(g) ==
    \/ encoded[g] = 0 /\ data # g
    \/ data = g /\ encoded[g] + Cardinality(Evicters(g)) <= n
    \/ data # g /\ encoded[g] + Cardinality(Evicters(g)) < n

\* An older one can be encoded once more for every handler that is late.
OlderEncodes(g) ==
    \/ encoded[g] + Cardinality(Late(g)) < 2 * n
    \/ encoded[g] <= n /\ Late(g) = Clients /\ data = g

EncodeInv ==
    \A g \in Gens : /\ g > Newest => encoded[g] = 0
                    /\ g = Newest => NewestEncodes(g)
                    /\ g < Newest => OlderEncodes(g)

Basic == TypeOK /\ HeapInv /\ CacheInv /\ HandlerInv /\ SeenInv
IInv  == Basic /\ EncodeInv

-----------------------------------------------------------------------------
\* The cache hits exactly when it holds the bytes of the snapshot asked for:
\* pointer identity is the identity of snapshots.
LEMMA HitIsSameSnapshot ==
    ASSUME Basic, NEW c \in Clients, held[c] # nil
    PROVE  /\ held[c] \in Addresses /\ heap[held[c]] \in Gens
           /\ Hit(c) <=> data = heap[held[c]]
  <1> USE EndpointsAssumption
  <1>1. held[c] \in Addresses /\ heap[held[c]] \in Gens
    BY DEF Basic, TypeOK, HandlerInv, Gens
  <1>2. snap # nil => snap \in Addresses /\ data = heap[snap] /\ data # nil
    BY DEF Basic, TypeOK, CacheInv
  <1>3. heap[held[c]] # nil
    BY <1>1 DEF Gens
  <1>4. ASSUME data = heap[held[c]] PROVE Hit(c)
    <2>1. snap # nil
      BY <1>4, <1>3 DEF Basic, CacheInv
    <2>2. snap = held[c]
      BY <1>1, <1>2, <1>4, <2>1 DEF Basic, HeapInv, Gens
    <2> QED
      BY <2>1, <2>2, <1>2 DEF Hit
  <1>5. ASSUME Hit(c) PROVE data = heap[held[c]]
    BY <1>5, <1>2 DEF Hit
  <1> QED
    BY <1>1, <1>4, <1>5

LEMMA ClientsCounted == n \in Nat \ {0} /\ IsFiniteSet(Clients)
  <1>1. IsFiniteSet(Clients) /\ Clients # {}
    BY EndpointsAssumption
  <1> QED
    BY <1>1, FS_CardinalityType, FS_EmptySet DEF n

LEMMA NewestInRange ==
    ASSUME TypeOK, HeapInv
    PROVE  Newest \in 0..MaxGen /\ (latest # nil => Newest >= 1 /\ latest \in Addresses)
                                /\ (latest = nil => Newest = 0)
  BY EndpointsAssumption DEF TypeOK, HeapInv, Newest

LEMMA InitEstablishes == Init => IInv
  <1> USE EndpointsAssumption
  <1> SUFFICES ASSUME Init PROVE IInv
    OBVIOUS
  <1>0. n \in Nat \ {0}
    BY ClientsCounted
  <1>1. TypeOK
    BY <1>0 DEF Init, TypeOK, Gens, MaxEncodes, Requests, n
  <1>2. HeapInv /\ CacheInv /\ HandlerInv /\ SeenInv
    BY DEF Init, HeapInv, CacheInv, HandlerInv, SeenInv, Newest, Held
  <1>3. EncodeInv
    BY DEF Init, EncodeInv, NewestEncodes, Newest, Gens
  <1> QED
    BY <1>1, <1>2, <1>3 DEF IInv, Basic

-----------------------------------------------------------------------------
\* publish: nobody points to the address the new snapshot is allocated at.
LEMMA PublishKeepsBasic ==
    ASSUME Basic, NEW a \in Addresses, Publish(a)
    PROVE  /\ Basic'
           /\ Newest' = Newest + 1
           /\ \A c \in Clients : Held(c)' = Held(c) /\ (Wants(c)' <=> Wants(c))
  <1> USE EndpointsAssumption
  <1>0. TypeOK /\ HeapInv /\ CacheInv /\ HandlerInv /\ SeenInv
    BY DEF Basic
  <1>1. Newest \in 0..MaxGen /\ Newest < MaxGen
    BY <1>0, NewestInRange DEF Publish
  <1>2. /\ heap' = [heap EXCEPT ![a] = Newest + 1] /\ heap \in [Addresses -> 0..MaxGen]
        /\ latest' = a /\ a # nil /\ a # snap /\ \A c \in Clients : a # held[c]
        /\ UNCHANGED <<snap, data, req, held, answer, seen, encoded>>
    BY <1>0 DEF Publish, Reachable, TypeOK, cache, clients
  <1>3. heap' \in [Addresses -> 0..MaxGen]
    BY <1>1, <1>2
  <1>4. TypeOK'
    BY <1>0, <1>2, <1>3 DEF TypeOK
  <1>5. Newest' = Newest + 1
    BY <1>2 DEF Newest
  <1>6. \A c \in Clients : Held(c)' = Held(c)
    BY <1>0, <1>2 DEF Held, TypeOK
  <1>w. \A c \in Clients : Wants(c)' <=> Wants(c)
    BY <1>2 DEF Wants
  <1>7. HeapInv'
    BY <1>0, <1>1, <1>2, <1>5 DEF HeapInv
  <1>8. CacheInv'
    BY <1>0, <1>2 DEF CacheInv, TypeOK
  <1>9. HandlerInv'
    <2>1. \A c \in Clients : held[c] # nil => heap'[held[c]] = heap[held[c]]
      BY <1>0, <1>2 DEF TypeOK
    <2> QED
      BY <1>0, <1>2, <1>6, <2>1 DEF HandlerInv
  <1>10. SeenInv'
    <2>1. \A c \in Clients : seen[c] <= Newest + 1
      BY <1>0, <1>1 DEF SeenInv, TypeOK
    <2> QED
      BY <1>0, <1>2, <1>5, <1>6, <2>1 DEF SeenInv
  <1> QED
    BY <1>4, <1>5, <1>6, <1>w, <1>7, <1>8, <1>9, <1>10 DEF Basic

\* A handler reads the latest snapshot: the newest there is.
LEMMA BeginKeepsBasic ==
    ASSUME Basic, NEW c \in Clients, NEW r \in Requests, Begin(c, r)
    PROVE  Basic'
  <1> USE EndpointsAssumption
  <1>0. TypeOK /\ HeapInv /\ CacheInv /\ HandlerInv /\ SeenInv
    BY DEF Basic
  <1>1. Newest \in 0..MaxGen /\ (latest # nil => Newest >= 1 /\ latest \in Addresses)
    BY <1>0, NewestInRange
  <1>2. /\ req[c] = nil /\ req' = [req EXCEPT ![c] = r]
        /\ held' = [held EXCEPT ![c] = latest]
        /\ UNCHANGED <<heap, latest, snap, data, answer, seen, encoded>>
    BY DEF Begin, Read, cache
  <1>3. TypeOK'
    BY <1>0, <1>2 DEF TypeOK
  <1>4. Newest' = Newest
    BY <1>2 DEF Newest
  <1>5. HeapInv' /\ CacheInv'
    BY <1>0, <1>2, <1>4 DEF HeapInv, CacheInv
  <1>6. /\ req' [c] = r /\ held'[c] = latest /\ answer'[c] = nil
        /\ Held(c)' = Newest
        /\ \A d \in Clients \ {c} : /\ req'[d] = req[d] /\ held'[d] = held[d]
                                    /\ Held(d)' = Held(d)
    BY <1>0, <1>2 DEF TypeOK, Held, Newest, HandlerInv
  <1>7. HandlerInv'
    <2>1. ASSUME NEW d \in Clients
          PROVE  /\ held'[d] # nil => heap'[held'[d]] >= 1
                 /\ req'[d] = nil => held'[d] = nil /\ answer'[d] = nil
                 /\ answer'[d] # nil =>
                      answer'[d] = IF req'[d] = "readyz" THEN (IF held'[d] = nil THEN 0 ELSE 1)
                                   ELSE Held(d)'
      <3>1. CASE d = c
        <4>1. r # nil
          OBVIOUS
        <4> QED
          BY <3>1, <4>1, <1>0, <1>2, <1>6 DEF HeapInv
      <3>2. CASE d # c
        BY <3>2, <1>0, <1>2, <1>6 DEF HandlerInv
      <3> QED
        BY <3>1, <3>2
    <2> QED
      BY <2>1 DEF HandlerInv
  <1>8. SeenInv'
    BY <1>0, <1>2, <1>4, <1>6 DEF SeenInv
  <1> QED
    BY <1>3, <1>5, <1>7, <1>8 DEF Basic

\* A handler answers from the snapshot it holds.
LEMMA AnswerKeepsBasic ==
    ASSUME Basic, NEW c \in Clients, NEW g,
           req[c] # nil, answer[c] = nil, answer' = [answer EXCEPT ![c] = g],
           g = IF req[c] = "readyz" THEN (IF held[c] = nil THEN 0 ELSE 1) ELSE Held(c),
           UNCHANGED <<heap, latest, req, held, seen>>,
           CacheInv', snap' \in Addresses \cup {nil}, data' \in Gens \cup {nil},
           encoded' \in [Gens -> 0..MaxEncodes]
    PROVE  /\ Basic'
           /\ Newest' = Newest
           /\ \A d \in Clients : Held(d)' = Held(d)
           /\ ~Wants(c)'
           /\ \A d \in Clients \ {c} : Wants(d)' <=> Wants(d)
  <1> USE EndpointsAssumption
  <1>0. TypeOK /\ HeapInv /\ CacheInv /\ HandlerInv /\ SeenInv
    BY DEF Basic
  <1>1. /\ answer'[c] = g
        /\ \A d \in Clients \ {c} : answer'[d] = answer[d]
    BY <1>0 DEF TypeOK
  <1>2. Newest' = Newest /\ \A d \in Clients : Held(d)' = Held(d)
    BY DEF Newest, Held
  <1>3. Held(c) \in 0..MaxGen
    BY <1>0 DEF TypeOK, Held
  <1>4. g \in 0..MaxGen
    BY <1>3
  <1>5. answer' \in [Clients -> 0..MaxGen \cup {nil}]
    BY <1>0, <1>4 DEF TypeOK
  <1>6. TypeOK'
    BY <1>0, <1>5 DEF TypeOK
  <1>7. HeapInv' /\ SeenInv'
    BY <1>0, <1>2 DEF HeapInv, SeenInv
  <1>8. HandlerInv'
    BY <1>0, <1>1, <1>2 DEF HandlerInv
  <1>9. ~Wants(c)' /\ \A d \in Clients \ {c} : Wants(d)' <=> Wants(d)
    <2>1. g # nil
      BY <1>4
    <2> QED
      BY <1>1, <2>1 DEF Wants
  <1> QED
    BY <1>2, <1>6, <1>7, <1>8, <1>9 DEF Basic

\* The client has its answer and knows of the snapshot it was made from.
LEMMA FinishKeepsBasic ==
    ASSUME Basic, NEW c \in Clients, Finish(c)
    PROVE  /\ Basic'
           /\ Newest' = Newest
           /\ ~Wants(c) /\ ~Wants(c)'
           /\ \A d \in Clients \ {c} : Held(d)' = Held(d) /\ (Wants(d)' <=> Wants(d))
  <1> USE EndpointsAssumption
  <1>0. TypeOK /\ HeapInv /\ CacheInv /\ HandlerInv /\ SeenInv
    BY DEF Basic
  <1>1. /\ answer[c] # nil
        /\ seen' = [seen EXCEPT ![c] = IF answer[c] > @ THEN answer[c] ELSE @]
        /\ req' = [req EXCEPT ![c] = nil] /\ held' = [held EXCEPT ![c] = nil]
        /\ answer' = [answer EXCEPT ![c] = nil]
        /\ UNCHANGED <<heap, latest, snap, data, encoded>>
    BY DEF Finish, cache
  <1>2. /\ req'[c] = nil /\ held'[c] = nil /\ answer'[c] = nil
        /\ seen'[c] = IF answer[c] > seen[c] THEN answer[c] ELSE seen[c]
        /\ \A d \in Clients \ {c} : /\ req'[d] = req[d] /\ held'[d] = held[d]
                                    /\ answer'[d] = answer[d] /\ seen'[d] = seen[d]
    BY <1>0, <1>1 DEF TypeOK
  <1>3. Newest' = Newest /\ Newest \in 0..MaxGen /\ (latest # nil => Newest >= 1)
    BY <1>0, <1>1, NewestInRange DEF Newest
  <1>4. answer[c] \in 0..MaxGen /\ answer[c] <= Newest
    <2>1. answer[c] \in 0..MaxGen
      BY <1>0, <1>1 DEF TypeOK
    <2>2. held[c] # nil => held[c] \in Addresses
      BY <1>0 DEF TypeOK
    <2>3. held[c] # nil => heap[held[c]] \in Nat /\ heap[held[c]] <= Newest /\ heap[held[c]] >= 1
      BY <1>0, <2>2 DEF HeapInv, HandlerInv, TypeOK
    <2> QED
      BY <1>0, <1>1, <1>3, <2>1, <2>3 DEF HandlerInv, Held
  <1>5. seen' \in [Clients -> 0..MaxGen]
    BY <1>0, <1>1, <1>4 DEF TypeOK
  <1>6. TypeOK'
    BY <1>0, <1>1, <1>5 DEF TypeOK
  <1>7. HeapInv' /\ CacheInv'
    BY <1>0, <1>1, <1>3 DEF HeapInv, CacheInv
  <1>8. \A d \in Clients \ {c} : Held(d)' = Held(d) /\ (Wants(d)' <=> Wants(d))
    BY <1>1, <1>2 DEF Held, Wants
  <1>9. HandlerInv'
    BY <1>0, <1>1, <1>2, <1>8 DEF HandlerInv
  <1>10. SeenInv'
    BY <1>0, <1>2, <1>3, <1>4, <1>8 DEF SeenInv
  <1>11. ~Wants(c) /\ ~Wants(c)'
    BY <1>1, <1>2 DEF Wants
  <1> QED
    BY <1>3, <1>6, <1>7, <1>8, <1>9, <1>10, <1>11 DEF Basic

-----------------------------------------------------------------------------
\* Counting handlers.

LEMMA Counted ==
    ASSUME NEW S \in SUBSET Clients
    PROVE  /\ IsFiniteSet(S)
           /\ Cardinality(S) \in 0..n
           /\ Cardinality(S) = n => S = Clients
  BY ClientsCounted, FS_Subset, FS_CardinalityType DEF n

LEMMA FewerCounted ==
    ASSUME NEW S \in SUBSET Clients, NEW T \in SUBSET S
    PROVE  Cardinality(T) <= Cardinality(S)
  BY Counted, FS_Subset

LEMMA OneLess ==
    ASSUME NEW S \in SUBSET Clients, NEW c \in S
    PROVE  Cardinality(S \ {c}) = Cardinality(S) - 1
  BY Counted, FS_RemoveElement

LEMMA LateEvictersAreClients ==
    ASSUME NEW g
    PROVE  Late(g) \in SUBSET Clients /\ Evicters(g) \in SUBSET Clients
  BY DEF Late, Evicters

\* The potential bounds how often a snapshot is encoded.
LEMMA EncodeInvBounds ==
    ASSUME Basic, EncodeInv
    PROVE  EncodesBounded
  <1> SUFFICES ASSUME NEW g \in Gens PROVE encoded[g] < 2 * n
    BY DEF EncodesBounded, MaxEncodes, n
  <1>1. n \in Nat \ {0}
    BY ClientsCounted
  <1>2. Cardinality(Late(g)) \in Nat /\ Cardinality(Evicters(g)) \in Nat
    BY Counted, LateEvictersAreClients, <1>1
  <1>3. encoded[g] \in Nat /\ Newest \in Nat /\ g \in Nat
    BY <1>1, NewestInRange, EndpointsAssumption DEF Basic, TypeOK, MaxEncodes, n, Gens
  <1>4. g > Newest \/ g = Newest \/ g < Newest
    BY <1>3
  <1> QED
    BY <1>1, <1>2, <1>3, <1>4 DEF EncodeInv, NewestEncodes, OlderEncodes

\* A step that lets nobody ask for an older snapshot, or evict the newest one,
\* who would not have done so before.
LEMMA EncodesUnchanged ==
    ASSUME Basic, EncodeInv, Newest' = Newest, UNCHANGED <<data, encoded>>,
           \A g \in Gens : /\ g = Newest => Evicters(g)' \subseteq Evicters(g)
                           /\ g < Newest => Late(g)' = Late(g)
    PROVE  EncodeInv'
  <1>1. n \in Nat \ {0} /\ n' = n
    BY ClientsCounted DEF n
  <1> SUFFICES ASSUME NEW g \in Gens
               PROVE  /\ g > Newest => encoded'[g] = 0
                      /\ g = Newest => NewestEncodes(g)'
                      /\ g < Newest => OlderEncodes(g)'
    BY DEF EncodeInv, Gens
  <1>2. encoded[g] \in Nat
    BY <1>1 DEF Basic, TypeOK, MaxEncodes, n
  <1>3. ASSUME g = Newest PROVE NewestEncodes(g)'
    <2>1. /\ Cardinality(Evicters(g)') <= Cardinality(Evicters(g))
          /\ Cardinality(Evicters(g)) \in Nat /\ Cardinality(Evicters(g)') \in Nat
      <3>1. Evicters(g) \in SUBSET Clients /\ Evicters(g)' \in SUBSET Evicters(g)
        BY <1>3, LateEvictersAreClients
      <3>2. Evicters(g)' \in SUBSET Clients
        BY <3>1
      <3> QED
        BY <1>1, <3>1, <3>2, FewerCounted, Counted
    <2>2. NewestEncodes(g)
      BY <1>3 DEF EncodeInv
    <2> QED
      BY <1>1, <1>2, <2>1, <2>2 DEF NewestEncodes
  <1>4. ASSUME g < Newest PROVE OlderEncodes(g)'
    <2>1. OlderEncodes(g) /\ Late(g)' = Late(g)
      BY <1>4 DEF EncodeInv
    <2> QED
      BY <1>1, <2>1 DEF OlderEncodes
  <1> QED
    BY <1>3, <1>4 DEF EncodeInv

\* publish: the newest generation becomes an older one.
LEMMA PublishKeepsEncodes ==
    ASSUME Basic, EncodeInv, NEW a \in Addresses, Publish(a)
    PROVE  EncodeInv'
  <1>1. n \in Nat \ {0} /\ n' = n
    BY ClientsCounted DEF n
  <1>2. /\ Newest \in Nat /\ Newest' = Newest + 1
        /\ \A c \in Clients : Held(c)' = Held(c) /\ (Wants(c)' <=> Wants(c))
    BY PublishKeepsBasic, NewestInRange, EndpointsAssumption DEF Basic
  <1>3. UNCHANGED <<data, encoded>>
    BY DEF Publish, cache
  <1> SUFFICES ASSUME NEW g \in Gens
               PROVE  /\ g > Newest' => encoded'[g] = 0
                      /\ g = Newest' => NewestEncodes(g)'
                      /\ g < Newest' => OlderEncodes(g)'
    BY DEF EncodeInv, Gens
  <1>4. Late(g)' = Late(g)
    BY <1>2 DEF Late
  <1>5. /\ g \in Nat /\ encoded[g] \in Nat
        /\ Cardinality(Late(g)) \in 0..n /\ (Cardinality(Late(g)) = n => Late(g) = Clients)
        /\ Cardinality(Evicters(g)) \in Nat
    <2>1. Late(g) \in SUBSET Clients /\ Evicters(g) \in SUBSET Clients
      BY LateEvictersAreClients
    <2>2. Cardinality(Late(g)) \in 0..n /\ (Cardinality(Late(g)) = n => Late(g) = Clients)
      BY <2>1, Counted
    <2>3. Cardinality(Evicters(g)) \in 0..n
      BY <2>1, Counted
    <2>4. g \in Nat /\ encoded[g] \in Nat
      BY <1>1, EndpointsAssumption DEF Basic, TypeOK, MaxEncodes, n, Gens
    <2> QED
      BY <1>1, <2>2, <2>3, <2>4
  <1>6. CASE g > Newest + 1
    BY <1>2, <1>3, <1>5, <1>6 DEF EncodeInv
  <1>7. CASE g = Newest + 1
    <2>1. encoded[g] = 0
      BY <1>2, <1>5, <1>7 DEF EncodeInv
    <2>2. data # g
      <3>1. data = nil \/ (snap \in Addresses /\ data = heap[snap])
        BY DEF Basic, TypeOK, CacheInv
      <3>2. data = nil \/ (data \in Nat /\ data <= Newest)
        BY <3>1, EndpointsAssumption DEF Basic, TypeOK, HeapInv
      <3> QED
        BY <1>2, <1>5, <1>7, <3>2, EndpointsAssumption
    <2> QED
      BY <1>2, <1>3, <1>5, <1>7, <2>1, <2>2 DEF NewestEncodes
  <1>8. CASE g = Newest
    <2>1. NewestEncodes(g)
      BY <1>8 DEF EncodeInv
    <2>2. OlderEncodes(g)
      BY <1>1, <1>5, <2>1 DEF NewestEncodes, OlderEncodes
    <2> QED
      BY <1>1, <1>2, <1>3, <1>4, <1>8, <2>2 DEF OlderEncodes
  <1>9. CASE g < Newest
    <2>1. OlderEncodes(g)
      BY <1>9 DEF EncodeInv
    <2> QED
      BY <1>1, <1>2, <1>3, <1>4, <1>5, <1>9, <2>1 DEF OlderEncodes
  <1> QED
    BY <1>2, <1>5, <1>6, <1>7, <1>8, <1>9

\* How an answer from the cache moves the handlers that still want bytes: the
\* one that was answered is late no longer and evicts nothing any more.
LEMMA AnswerMovesSets ==
    ASSUME Basic, NEW c \in Clients, Wants(c), ~Wants(c)',
           \A d \in Clients : Held(d)' = Held(d),
           \A d \in Clients \ {c} : Wants(d)' <=> Wants(d),
           NEW g \in Gens
    PROVE  /\ Late(g)' = Late(g) \ {c}
           /\ Evicters(g)' = Evicters(g) \ {c}
           /\ c \in Late(g) <=> Held(c) = g
           /\ c \in Evicters(g) <=> Held(c) < g
           /\ Cardinality(Late(g)) \in 0..n /\ Cardinality(Evicters(g)) \in 0..n
           /\ Cardinality(Late(g)') = Cardinality(Late(g)) - IF Held(c) = g THEN 1 ELSE 0
           /\ Cardinality(Evicters(g)') = Cardinality(Evicters(g)) - IF Held(c) < g THEN 1 ELSE 0
  <1>0. n \in Nat \ {0} /\ Late(g) \in SUBSET Clients /\ Evicters(g) \in SUBSET Clients
    BY ClientsCounted, LateEvictersAreClients
  <1>1. Late(g)' = Late(g) \ {c} /\ (c \in Late(g) <=> Held(c) = g)
    BY DEF Late
  <1>2. Evicters(g)' = Evicters(g) \ {c} /\ (c \in Evicters(g) <=> Held(c) < g)
    BY DEF Evicters
  <1>3. Cardinality(Late(g)) \in 0..n /\ Cardinality(Evicters(g)) \in 0..n
    BY <1>0, Counted
  <1>4. Cardinality(Late(g)') = Cardinality(Late(g)) - IF Held(c) = g THEN 1 ELSE 0
    <2>1. CASE c \in Late(g)
      <3>1. Cardinality(Late(g) \ {c}) = Cardinality(Late(g)) - 1
        BY <1>0, <2>1, OneLess
      <3> QED
        BY <1>1, <2>1, <3>1
    <2>2. CASE c \notin Late(g)
      <3>1. Late(g)' = Late(g)
        BY <1>1, <2>2
      <3> QED
        BY <1>0, <1>1, <1>3, <2>2, <3>1
    <2> QED
      BY <2>1, <2>2
  <1>5. Cardinality(Evicters(g)') = Cardinality(Evicters(g)) - IF Held(c) < g THEN 1 ELSE 0
    <2>1. CASE c \in Evicters(g)
      <3>1. Cardinality(Evicters(g) \ {c}) = Cardinality(Evicters(g)) - 1
        BY <1>0, <2>1, OneLess
      <3> QED
        BY <1>2, <2>1, <3>1
    <2>2. CASE c \notin Evicters(g)
      <3>1. Evicters(g)' = Evicters(g) /\ ~ (Held(c) < g)
        BY <1>2, <2>2
      <3>2. (IF Held(c) < g THEN 1 ELSE 0) = 0
        BY <3>1, Zenon
      <3>3. Cardinality(Evicters(g)) = Cardinality(Evicters(g)) - 0
        BY <1>0, <1>3
      <3> QED
        BY <3>1, <3>2, <3>3, Zenon
    <2> QED
      BY <2>1, <2>2
  <1> QED
    BY <1>1, <1>2, <1>3, <1>4, <1>5

\* marshalCache.bytes, the cached branch.
LEMMA CachedBytesPreserves ==
    ASSUME IInv, NEW c \in Clients, CachedBytes(c)
    PROVE  IInv'
  <1> USE EndpointsAssumption
  <1>0. Basic /\ EncodeInv
    BY DEF IInv
  <1>1. /\ held[c] # nil /\ Hit(c) /\ req[c] \in {"snapshot", "event"} /\ answer[c] = nil
        /\ answer' = [answer EXCEPT ![c] = data]
        /\ UNCHANGED <<heap, latest, req, held, seen, snap, data, encoded>>
    BY DEF CachedBytes, Answers, cache
  <1>2. held[c] \in Addresses /\ heap[held[c]] \in Gens /\ data = heap[held[c]]
    BY <1>0, <1>1, HitIsSameSnapshot
  <1>3. /\ Basic' /\ Newest' = Newest
        /\ \A d \in Clients : Held(d)' = Held(d)
        /\ ~Wants(c)'
        /\ \A d \in Clients \ {c} : Wants(d)' <=> Wants(d)
    <2>1. /\ req[c] # nil
          /\ data = IF req[c] = "readyz" THEN (IF held[c] = nil THEN 0 ELSE 1) ELSE Held(c)
      BY <1>1, <1>2 DEF Held, Requests
    <2>2. CacheInv'
      BY <1>0, <1>1 DEF Basic, CacheInv
    <2>3. /\ snap' \in Addresses \cup {nil} /\ data' \in Gens \cup {nil}
          /\ encoded' \in [Gens -> 0..MaxEncodes]
      BY <1>0, <1>1 DEF Basic, TypeOK
    <2> QED
      BY <1>0, <1>1, <2>1, <2>2, <2>3, AnswerKeepsBasic
  <1>4. Wants(c) /\ Held(c) = data
    BY <1>1, <1>2 DEF Wants, Held
  <1>5. n \in Nat \ {0} /\ n' = n
    BY ClientsCounted DEF n
  <1>6. ASSUME NEW g \in Gens
        PROVE  /\ g > Newest => encoded'[g] = 0
               /\ g = Newest => NewestEncodes(g)'
               /\ g < Newest => OlderEncodes(g)'
    <2>1. /\ Late(g)' = Late(g) \ {c}
          /\ c \in Late(g) <=> Held(c) = g
          /\ Cardinality(Late(g)) \in 0..n /\ Cardinality(Evicters(g)) \in 0..n
          /\ Cardinality(Late(g)') = Cardinality(Late(g)) - IF Held(c) = g THEN 1 ELSE 0
          /\ Cardinality(Evicters(g)') = Cardinality(Evicters(g)) - IF Held(c) < g THEN 1 ELSE 0
      BY <1>0, <1>3, <1>4, AnswerMovesSets
    <2>2. encoded[g] \in Nat
      BY <1>0, <1>5 DEF Basic, TypeOK, MaxEncodes, n
    <2>3. ASSUME g = Newest PROVE NewestEncodes(g)'
      <3>1. NewestEncodes(g)
        BY <1>0, <2>3 DEF EncodeInv
      <3>2. Cardinality(Evicters(g)') \in Int /\ Cardinality(Evicters(g)') <= Cardinality(Evicters(g))
        BY <1>5, <2>1
      <3> QED
        BY <1>1, <1>5, <2>1, <2>2, <3>1, <3>2 DEF NewestEncodes
    <2>4. ASSUME g < Newest PROVE OlderEncodes(g)'
      <3>1. OlderEncodes(g)
        BY <1>0, <2>4 DEF EncodeInv
      <3>2. CASE encoded[g] + Cardinality(Late(g)) < 2 * n
        BY <1>1, <1>5, <2>1, <2>2, <3>2 DEF OlderEncodes
      <3>3. CASE encoded[g] <= n /\ Late(g) = Clients /\ data = g
        BY <1>1, <1>4, <1>5, <2>1, <2>2, <3>3 DEF OlderEncodes
      <3> QED
        BY <3>1, <3>2, <3>3 DEF OlderEncodes
    <2> QED
      BY <1>0, <1>1, <2>3, <2>4 DEF EncodeInv
  <1>7. EncodeInv'
    BY <1>3, <1>6 DEF EncodeInv, Gens
  <1> QED
    BY <1>3, <1>7 DEF IInv

\* marshalCache.bytes, the branch that encodes and evicts.
LEMMA MarshalBytesPreserves ==
    ASSUME IInv, NEW c \in Clients, MarshalBytes(c)
    PROVE  IInv'
  <1> USE EndpointsAssumption
  <1>0. Basic /\ EncodeInv
    BY DEF IInv
  <1> DEFINE h == heap[held[c]]
  <1>1. /\ held[c] # nil /\ ~Hit(c) /\ req[c] \in {"snapshot", "event"} /\ answer[c] = nil
        /\ answer' = [answer EXCEPT ![c] = h]
        /\ snap' = held[c] /\ data' = h
        /\ UNCHANGED <<heap, latest, req, held, seen>>
    BY DEF MarshalBytes, Answers, Store
  <1>2. held[c] \in Addresses /\ h \in Gens /\ data # h
    BY <1>0, <1>1, HitIsSameSnapshot
  <1>5. n \in Nat \ {0} /\ n' = n /\ MaxEncodes = 2 * n
    BY ClientsCounted DEF n, MaxEncodes
  <1>a. encoded \in [Gens -> 0..MaxEncodes] /\ encoded[h] \in Nat /\ encoded[h] < MaxEncodes
    BY <1>0, <1>2, <1>5, EncodeInvBounds DEF Basic, TypeOK, EncodesBounded
  <1>b. encoded' = [encoded EXCEPT ![h] = encoded[h] + 1]
    <2>1. encoded' = [encoded EXCEPT ![h] = IF encoded[h] = MaxEncodes
                                            THEN encoded[h] ELSE encoded[h] + 1]
      BY DEF MarshalBytes
    <2>2. encoded[h] # MaxEncodes
      BY <1>a, <1>5
    <2> QED
      BY <2>1, <2>2, Zenon
  <1>c. /\ encoded' \in [Gens -> 0..MaxEncodes]
        /\ \A g \in Gens : encoded'[g] = IF g = h THEN encoded[g] + 1 ELSE encoded[g]
    BY <1>a, <1>b, <1>2, <1>5
  <1>3. /\ Basic' /\ Newest' = Newest
        /\ \A d \in Clients : Held(d)' = Held(d)
        /\ ~Wants(c)'
        /\ \A d \in Clients \ {c} : Wants(d)' <=> Wants(d)
    <2>1. /\ req[c] # nil
          /\ h = IF req[c] = "readyz" THEN (IF held[c] = nil THEN 0 ELSE 1) ELSE Held(c)
      BY <1>1, <1>2 DEF Held, Requests
    <2>2. CacheInv'
      <3>1. snap' # nil /\ data' # nil /\ data' = heap'[snap'] /\ heap'[snap'] >= 1
        BY <1>1, <1>2 DEF Gens
      <3> QED
        BY <3>1 DEF CacheInv
    <2>3. snap' \in Addresses \cup {nil} /\ data' \in Gens \cup {nil}
      BY <1>1, <1>2
    <2> HIDE DEF h
    <2> QED
      BY <1>0, <1>1, <1>c, <2>1, <2>2, <2>3, AnswerKeepsBasic
  <1>4. Wants(c) /\ Held(c) = h /\ h <= Newest /\ Newest \in Nat
    BY <1>0, <1>1, <1>2, NewestInRange DEF Wants, Held, Basic, HeapInv
  <1> HIDE DEF h
  <1>6. ASSUME NEW g \in Gens
        PROVE  /\ g > Newest => encoded'[g] = 0
               /\ g = Newest => NewestEncodes(g)'
               /\ g < Newest => OlderEncodes(g)'
    <2>1. /\ Late(g)' = Late(g) \ {c} /\ Evicters(g)' = Evicters(g) \ {c}
          /\ c \in Late(g) <=> h = g
          /\ c \in Evicters(g) <=> h < g
          /\ Cardinality(Late(g)) \in 0..n /\ Cardinality(Evicters(g)) \in 0..n
          /\ Cardinality(Late(g)') = Cardinality(Late(g)) - IF h = g THEN 1 ELSE 0
          /\ Cardinality(Evicters(g)') = Cardinality(Evicters(g)) - IF h < g THEN 1 ELSE 0
      BY <1>0, <1>3, <1>4, AnswerMovesSets
    <2>2. encoded[g] \in Nat /\ g \in Nat /\ h \in Nat
      BY <1>a, <1>2, <1>5 DEF Gens
    <2>3. ASSUME g > Newest PROVE encoded'[g] = 0
      BY <1>0, <1>4, <1>c, <2>2, <2>3 DEF EncodeInv
    <2>4. ASSUME g = Newest PROVE NewestEncodes(g)'
      <3>1. NewestEncodes(g)
        BY <1>0, <2>4 DEF EncodeInv
      <3>2. CASE h = g
        <4>1. Cardinality(Evicters(g)) < n
          <5>1. Evicters(g) \in SUBSET Clients /\ Evicters(g) # Clients
            BY <2>1, <2>2, <3>2, LateEvictersAreClients
          <5> QED
            BY <1>5, <5>1, Counted
        <4>2. encoded'[g] = encoded[g] + 1 /\ data' = g /\ data # g
          BY <1>1, <1>2, <1>c, <3>2
        <4>3. Cardinality(Evicters(g)') = Cardinality(Evicters(g))
          BY <2>1, <2>2, <3>2, <1>5
        <4> QED
          BY <1>5, <2>1, <2>2, <3>1, <4>1, <4>2, <4>3 DEF NewestEncodes
      <3>3. CASE h < g
        <4>1. encoded'[g] = encoded[g] /\ data' # g
          BY <1>1, <1>c, <2>2, <3>3
        <4>2. Cardinality(Evicters(g)') = Cardinality(Evicters(g)) - 1
          BY <2>1, <3>3
        <4> QED
          BY <1>5, <2>1, <2>2, <3>1, <4>1, <4>2 DEF NewestEncodes
      <3> QED
        BY <1>4, <2>2, <2>4, <3>2, <3>3
    <2>5. ASSUME g < Newest PROVE OlderEncodes(g)'
      <3>1. OlderEncodes(g)
        BY <1>0, <2>5 DEF EncodeInv
      <3>2. CASE encoded[g] + Cardinality(Late(g)) < 2 * n
        <4>1. encoded'[g] + Cardinality(Late(g)') = encoded[g] + Cardinality(Late(g))
          BY <1>5, <1>c, <2>1, <2>2
        <4> QED
          BY <1>5, <3>2, <4>1 DEF OlderEncodes
      <3>3. CASE Late(g) = Clients /\ data = g
        <4>1. h = g
          BY <2>1, <3>3
        <4> QED
          BY <1>2, <3>3, <4>1
      <3> QED
        BY <3>1, <3>2, <3>3 DEF OlderEncodes
    <2> QED
      BY <2>3, <2>4, <2>5
  <1>7. EncodeInv'
    BY <1>3, <1>6 DEF EncodeInv, Gens
  <1> QED
    BY <1>3, <1>7 DEF IInv

-----------------------------------------------------------------------------
\* An answer that the cache has no part in.
LEMMA OtherAnswersPreserve ==
    ASSUME IInv, NEW c \in Clients,
           handleCapabilities(c) \/ handleReady(c) \/ Collect(c) \/ NoSnapshotYet(c)
    PROVE  IInv'
  <1> USE EndpointsAssumption
  <1>0. Basic /\ EncodeInv
    BY DEF IInv
  <1> DEFINE g == IF req[c] = "readyz" THEN (IF held[c] = nil THEN 0 ELSE 1) ELSE Held(c)
  <1>1. /\ req[c] # nil /\ answer[c] = nil /\ ~Wants(c)
        /\ answer' = [answer EXCEPT ![c] = g]
        /\ UNCHANGED <<heap, latest, req, held, seen, snap, data, encoded>>
    <2>1. CASE handleCapabilities(c)
      BY <2>1 DEF handleCapabilities, Answers, cache, Held, Wants, Requests
    <2>2. CASE handleReady(c)
      BY <2>2 DEF handleReady, Answers, cache, Held, Wants, Requests
    <2>3. CASE Collect(c)
      BY <2>3 DEF Collect, Answers, cache, Held, Wants, Requests
    <2>4. CASE NoSnapshotYet(c)
      BY <2>4 DEF NoSnapshotYet, Answers, cache, Held, Wants, Requests
    <2> QED
      BY <2>1, <2>2, <2>3, <2>4
  <1>2. /\ CacheInv' /\ snap' \in Addresses \cup {nil} /\ data' \in Gens \cup {nil}
        /\ encoded' \in [Gens -> 0..MaxEncodes]
    BY <1>0, <1>1 DEF Basic, TypeOK, CacheInv
  <1>3. /\ Basic' /\ Newest' = Newest
        /\ \A d \in Clients : Held(d)' = Held(d)
        /\ ~Wants(c)'
        /\ \A d \in Clients \ {c} : Wants(d)' <=> Wants(d)
    BY <1>0, <1>1, <1>2, AnswerKeepsBasic
  <1>4. \A k \in Gens : Late(k)' = Late(k) /\ Evicters(k)' = Evicters(k)
    BY <1>1, <1>3 DEF Late, Evicters
  <1>5. EncodeInv'
    BY <1>0, <1>1, <1>3, <1>4, EncodesUnchanged
  <1> QED
    BY <1>3, <1>5 DEF IInv

LEMMA BeginPreserves ==
    ASSUME IInv, NEW c \in Clients, NEW r \in Requests, Begin(c, r)
    PROVE  IInv'
  <1> USE EndpointsAssumption
  <1>0. Basic /\ EncodeInv
    BY DEF IInv
  <1>1. /\ req[c] = nil /\ req' = [req EXCEPT ![c] = r]
        /\ held' = [held EXCEPT ![c] = latest]
        /\ UNCHANGED <<heap, latest, snap, data, answer, seen, encoded>>
    BY DEF Begin, Read, cache
  <1>2. /\ Newest' = Newest /\ Newest \in Nat /\ ~Wants(c)
        /\ Held(c)' = Newest
        /\ \A d \in Clients \ {c} : Held(d)' = Held(d) /\ (Wants(d)' <=> Wants(d))
    <2>1. Newest \in Nat
      BY <1>0, NewestInRange DEF Basic
    <2>2. ~Wants(c)
      BY <1>1 DEF Wants, Requests
    <2> QED
      BY <1>0, <1>1, <2>1, <2>2 DEF Basic, TypeOK, Newest, Held, Wants
  <1>3. ASSUME NEW g \in Gens
        PROVE  /\ g = Newest => Evicters(g)' \subseteq Evicters(g)
               /\ g < Newest => Late(g)' = Late(g)
    <2>0. g \in Nat
      BY DEF Gens
    <2>1. ASSUME g = Newest PROVE Evicters(g)' \subseteq Evicters(g)
      <3>1. ~ (Held(c)' < g)
        BY <1>2, <2>0, <2>1
      <3> QED
        BY <1>2, <3>1 DEF Evicters
    <2>2. ASSUME g < Newest PROVE Late(g)' = Late(g)
      <3>1. Held(c)' # g
        BY <1>2, <2>0, <2>2
      <3> QED
        BY <1>2, <3>1 DEF Late
    <2> QED
      BY <2>1, <2>2
  <1>4. EncodeInv'
    BY <1>0, <1>1, <1>2, <1>3, EncodesUnchanged
  <1> QED
    BY <1>0, <1>4, BeginKeepsBasic DEF IInv

LEMMA FinishPreserves ==
    ASSUME IInv, NEW c \in Clients, Finish(c)
    PROVE  IInv'
  <1>0. Basic /\ EncodeInv
    BY DEF IInv
  <1>1. /\ Basic' /\ Newest' = Newest /\ ~Wants(c) /\ ~Wants(c)'
        /\ \A d \in Clients \ {c} : Held(d)' = Held(d) /\ (Wants(d)' <=> Wants(d))
    BY <1>0, FinishKeepsBasic
  <1>2. \A k \in Gens : Late(k)' = Late(k) /\ Evicters(k)' = Evicters(k)
    BY <1>1 DEF Late, Evicters
  <1>3. EncodeInv'
    BY <1>0, <1>1, <1>2, EncodesUnchanged DEF Finish, cache
  <1> QED
    BY <1>1, <1>3 DEF IInv

\* Every step keeps the inductive invariant: one case per action.
LEMMA NextPreserves == IInv /\ [Next]_vars => IInv'
  <1> SUFFICES ASSUME IInv, [Next]_vars PROVE IInv'
    OBVIOUS
  <1>1. ASSUME NEW a \in Addresses, Publish(a) PROVE IInv'
    BY <1>1, PublishKeepsBasic, PublishKeepsEncodes DEF IInv
  <1>2. ASSUME NEW c \in Clients, NEW r \in Requests, Begin(c, r) PROVE IInv'
    BY <1>2, BeginPreserves
  <1>3. ASSUME NEW c \in Clients,
               handleCapabilities(c) \/ handleReady(c) \/ Collect(c) \/ NoSnapshotYet(c)
        PROVE  IInv'
    BY <1>3, OtherAnswersPreserve
  <1>4. ASSUME NEW c \in Clients, CachedBytes(c) PROVE IInv'
    BY <1>4, CachedBytesPreserves
  <1>5. ASSUME NEW c \in Clients, MarshalBytes(c) PROVE IInv'
    BY <1>5, MarshalBytesPreserves
  <1>6. ASSUME NEW c \in Clients, Finish(c) PROVE IInv'
    BY <1>6, FinishPreserves
  <1>7. CASE UNCHANGED vars
    <2>1. UNCHANGED <<heap, latest, snap, data, req, held, answer, seen, encoded>>
      BY <1>7 DEF vars, cache, clients
    <2>2. Newest' = Newest /\ \A c \in Clients : Held(c)' = Held(c) /\ (Wants(c)' <=> Wants(c))
      BY <2>1 DEF Newest, Held, Wants
    <2>3. TypeOK' /\ HeapInv' /\ CacheInv' /\ HandlerInv' /\ SeenInv'
      BY <2>1, <2>2 DEF IInv, Basic, TypeOK, HeapInv, CacheInv, HandlerInv, SeenInv
    <2>4. \A k \in Gens : Late(k)' = Late(k) /\ Evicters(k)' = Evicters(k)
      BY <2>2 DEF Late, Evicters
    <2>5. EncodeInv'
      BY <2>1, <2>2, <2>4, EncodesUnchanged DEF IInv
    <2> QED
      BY <2>3, <2>5 DEF IInv, Basic
  <1>8. "event" \in Requests
    BY DEF Requests
  <1> QED
    BY <1>1, <1>2, <1>3, <1>4, <1>5, <1>6, <1>7, <1>8 DEF Next

-----------------------------------------------------------------------------
\* The inductive invariant holds in every reachable state.
THEOREM Invariance == Spec => []IInv
  BY InitEstablishes, NextPreserves, PTL DEF Spec

\* Every variable of the endpoints keeps its type.
THEOREM TypeCorrect == Spec => []TypeOK
  <1>1. IInv => TypeOK
    BY DEF IInv, Basic
  <1> QED
    BY <1>1, Invariance, PTL

\* marshalCache.bytes: the pointer is a safe cache key, although addresses are
\* reused.
THEOREM PointerIsSafeKey == Spec => []BytesOfOwnSnapshot
  <1>1. IInv => BytesOfOwnSnapshot
    BY DEF IInv, Basic, HandlerInv, Held, BytesOfOwnSnapshot
  <1> QED
    BY <1>1, Invariance, PTL

\* source.Latest, snapshotCollector: one endpoint never contradicts another by
\* going back in time.
THEOREM EndpointsAgree == Spec => []ReadsDoNotGoBack
  <1>1. IInv => ReadsDoNotGoBack
    <2> USE EndpointsAssumption
    <2> SUFFICES ASSUME IInv, NEW c \in Clients, req[c] # "event", answer[c] # nil
                 PROVE  answer[c] >= IF req[c] = "readyz" /\ seen[c] > 0 THEN 1 ELSE seen[c]
      BY DEF ReadsDoNotGoBack
    <2>1. seen[c] \in Nat /\ seen[c] <= Held(c)
      BY DEF IInv, Basic, TypeOK, HandlerInv, SeenInv
    <2>2. answer[c] = IF req[c] = "readyz" THEN (IF held[c] = nil THEN 0 ELSE 1) ELSE Held(c)
      BY DEF IInv, Basic, HandlerInv
    <2>3. Held(c) \in Nat /\ (held[c] = nil => Held(c) = 0)
      BY DEF IInv, Basic, TypeOK, Held
    <2> QED
      BY <2>1, <2>2, <2>3
  <1> QED
    BY <1>1, Invariance, PTL

\* marshalCache: however many requests there are, a snapshot is encoded fewer
\* than two times per handler.
THEOREM EncodesFewTimes == Spec => []EncodesBounded
  <1>1. IInv => EncodesBounded
    BY EncodeInvBounds DEF IInv
  <1> QED
    BY <1>1, Invariance, PTL
=============================================================================
