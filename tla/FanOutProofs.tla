----------------------------- MODULE FanOutProofs -----------------------------
(***************************************************************************)
(* Proofs about FanOut, for every finite set of nodes and every capacity   *)
(* of the semaphore.                                                       *)
(*                                                                         *)
(* The semaphore and the WaitGroup are counters; the invariant says what   *)
(* they count.  The shared variables are accumulated in the order in which *)
(* goroutines happen to get the mutex; the invariant says that at any time *)
(* they are the verdict on those that have had it.                         *)
(***************************************************************************)
EXTENDS FanOut, FiniteSetTheorems, TLAPS

\* The goroutines that hold a slot, those the WaitGroup waits for (with the one
\* about to be started), and those that have written their result.
Holders == {n \in Nodes : goroutine[n] \in {"route", "lock", "write", "unlock", "release"}}
Awaited == {n \in Nodes : n \notin todo /\ goroutine[n] # "ended"}
Written == {n \in Nodes : goroutine[n] \in {"unlock", "release", "done", "ended"}}

\* The loop starts one goroutine per node, each once.
LoopInv == /\ at = "slot" <=> node # NoNode
           /\ node \notin todo
           /\ at \in {"wait", "returned"} => todo = {}
           /\ \A n \in Nodes : goroutine[n] = "unborn" <=> n \in todo \/ n = node

\* A slot per holder, a count per goroutine to wait for.
CountInv == /\ sem = Cardinality(Holders)
            /\ wg = Cardinality(Awaited)
            /\ at = "returned" => wg = 0

\* Whoever is in the critical section holds the mutex.
MutexInv == \A n \in Nodes : goroutine[n] \in {"write", "unlock"} => mu = n

\* A goroutine has heard something once its call is over.
HeardInv == \A n \in Nodes :
               heard[n] = "nothing" <=> goroutine[n] \in {"unborn", "route"}

\* What has been written so far.
Said(o) == {n \in Written : heard[n] = o}

SharedInv == /\ results = Measured(Said("ok"))
             /\ anyOK = (Said("ok") # {})
             /\ lastErr = IF Said("forbidden") # {} THEN "forbidden"
                          ELSE IF Said("transient") # {} THEN "transient" ELSE "nil"

\* The verdict is handed out at the end.
AnswerInv == /\ at # "returned" => answer = NoAnswer
             /\ at = "returned" => answer = Verdict(heard)

IInv == TypeOK /\ LoopInv /\ CountInv /\ MutexInv /\ HeardInv /\ SharedInv /\ AnswerInv

-----------------------------------------------------------------------------
\* Whatever comes back, the route functions report one of three outcomes.
LEMMA RouteOutcomes ==
    ASSUME NEW n \in Nodes, NEW reply \in Replies
    PROVE  /\ fetchKubeletDisk(kubeletHTTP, n, reply) \in Outcomes
           /\ fetchProxyDisk(reply) \in Outcomes
  BY DEF fetchKubeletDisk, fetchProxyDisk, parseSummary, Outcomes

\* A goroutine that takes a step is the only one that moves.
LEMMA OneMoves ==
    ASSUME TypeOK, NEW n \in Nodes, NEW to \in Stages,
           goroutine' = [goroutine EXCEPT ![n] = to]
    PROVE  /\ goroutine' \in [Nodes -> Stages]
           /\ goroutine'[n] = to
           /\ \A m \in Nodes : m # n => goroutine'[m] = goroutine[m]
  BY DEF TypeOK

\* The sets that are counted are finite.
LEMMA CountedFinite == IsFiniteSet(Holders) /\ IsFiniteSet(Awaited)
  <1>1. Holders \in SUBSET Nodes /\ Awaited \in SUBSET Nodes
    BY DEF Holders, Awaited
  <1> QED
    BY <1>1, FS_Subset, FanOutAssumption

\* No more goroutines are awaited than there are nodes.
LEMMA AwaitedBound == Cardinality(Awaited) \in 0..Cardinality(Nodes)
  <1>1. Awaited \in SUBSET Nodes
    BY DEF Awaited
  <1>2. /\ Cardinality(Awaited) \in Nat
        /\ Cardinality(Nodes) \in Nat
        /\ Cardinality(Awaited) <= Cardinality(Nodes)
    BY <1>1, CountedFinite, FS_Subset, FS_CardinalityType, FanOutAssumption
  <1> QED
    BY <1>2

\* A set of nodes that grows or shrinks by one.
LEMMA OneMore ==
    ASSUME NEW S, NEW T, NEW x, IsFiniteSet(S), x \notin S, T = S \cup {x}
    PROVE  Cardinality(T) = Cardinality(S) + 1
  BY FS_AddElement

LEMMA OneLess ==
    ASSUME NEW S, NEW T, NEW x, IsFiniteSet(S), x \in S, T = S \ {x}
    PROVE  Cardinality(T) = Cardinality(S) - 1 /\ Cardinality(S) \in Nat
  BY FS_RemoveElement, FS_CardinalityType

-----------------------------------------------------------------------------
\* Before the loop starts nothing is counted and nothing is said.
LEMMA InitEstablishes == Init => IInv
  <1> SUFFICES ASSUME Init PROVE IInv
    OBVIOUS
  <1> USE FanOutAssumption
  <1>1. Holders = {} /\ Awaited = {} /\ Written = {}
    BY DEF Init, Holders, Awaited, Written
  <1>2. Cardinality({}) = 0 /\ Cardinality(Nodes) \in Nat
    BY FS_EmptySet, FS_CardinalityType
  <1>3. \A o : Said(o) = {}
    BY <1>1 DEF Said
  <1>4. IsFigures(NoFigures, Nodes, 0)
    BY DEF IsFigures, NoFigures
  <1>5. TypeOK
    <2>1. goroutine \in [Nodes -> Stages] /\ heard \in [Nodes -> Outcomes \cup {"nothing"}]
      BY DEF Init, Stages
    <2>2. sem \in 0..diskFetchConcurrency /\ wg \in 0..Cardinality(Nodes)
      BY <1>2 DEF Init
    <2> QED
      BY <2>1, <2>2, <1>4 DEF Init, TypeOK
  <1>6. SharedInv
    BY <1>3 DEF Init, SharedInv, NoFigures, Measured
  <1>7. LoopInv /\ MutexInv /\ HeardInv /\ AnswerInv
    BY DEF Init, LoopInv, MutexInv, HeardInv, AnswerInv
  <1>8. CountInv
    BY <1>1, <1>2 DEF Init, CountInv
  <1> QED
    BY <1>5, <1>6, <1>7, <1>8 DEF IInv

\* A step in which no goroutine reaches or leaves the part after its write, and
\* which changes neither the shared variables nor what those have heard, keeps
\* what is said of them.
LEMMA SharedKept ==
    ASSUME SharedInv, UNCHANGED shared, Written' = Written,
           \A n \in Written : heard'[n] = heard[n]
    PROVE  SharedInv'
  <1>1. \A o : Said(o)' = Said(o)
    BY DEF Said
  <1> QED
    BY <1>1 DEF SharedInv, shared

-----------------------------------------------------------------------------
\* The poll goroutine's steps.

LEMMA AddToGroupPreserves ==
    ASSUME IInv, NEW n \in Nodes, AddToGroup(n) PROVE IInv'
  <1> USE FanOutAssumption
  <1>1. TypeOK /\ LoopInv /\ CountInv /\ MutexInv /\ HeardInv /\ SharedInv /\ AnswerInv
    BY DEF IInv
  <1>2. goroutine[n] = "unborn" /\ n \in todo
    BY <1>1 DEF AddToGroup, LoopInv
  <1>3. Awaited' = Awaited \cup {n} /\ n \notin Awaited
    BY <1>2 DEF AddToGroup, Awaited
  <1>4. wg' = Cardinality(Awaited')
    BY <1>1, <1>3, CountedFinite, OneMore DEF AddToGroup, CountInv
  <1>5. wg' \in 0..Cardinality(Nodes)
    <2>1. Awaited' \in SUBSET Nodes
      BY DEF Awaited
    <2> QED
      BY <1>4, <2>1, FS_Subset, FS_CardinalityType
  <1>6. TypeOK'
    BY <1>1, <1>5 DEF AddToGroup, TypeOK, shared
  <1>7. LoopInv'
    BY <1>1 DEF AddToGroup, LoopInv, TypeOK
  <1>8. CountInv'
    <2>1. Holders' = Holders
      BY DEF AddToGroup, Holders
    <2> QED
      BY <1>1, <1>4, <2>1 DEF AddToGroup, CountInv
  <1>9. SharedInv'
    BY <1>1, SharedKept DEF AddToGroup, Written
  <1> QED
    BY <1>1, <1>6, <1>7, <1>8, <1>9
    DEF IInv, AddToGroup, MutexInv, HeardInv, AnswerInv

LEMMA SpawnPreserves ==
    ASSUME IInv, Spawn PROVE IInv'
  <1> USE FanOutAssumption
  <1>1. TypeOK /\ LoopInv /\ CountInv /\ MutexInv /\ HeardInv /\ SharedInv /\ AnswerInv
    BY DEF IInv
  <1>2. node \in Nodes /\ goroutine[node] = "unborn" /\ node \notin todo
    BY <1>1 DEF Spawn, LoopInv, TypeOK
  <1>3. /\ goroutine' \in [Nodes -> Stages]
        /\ goroutine'[node] = "route"
        /\ \A m \in Nodes : m # node => goroutine'[m] = goroutine[m]
    BY <1>1, <1>2, OneMoves DEF Spawn, Stages
  <1>4. Holders' = Holders \cup {node} /\ node \notin Holders
    BY <1>2, <1>3 DEF Holders
  <1>5. Awaited' = Awaited
    BY <1>2, <1>3 DEF Spawn, Awaited
  <1>6. CountInv'
    <2>1. sem' = Cardinality(Holders')
      BY <1>1, <1>4, CountedFinite, OneMore DEF Spawn, SlotTaken, CountInv
    <2> QED
      BY <1>1, <1>5, <2>1 DEF Spawn, CountInv
  <1>7. TypeOK'
    BY <1>1, <1>3 DEF Spawn, SlotFree, SlotTaken, TypeOK, shared
  <1>8. LoopInv'
    BY <1>1, <1>2, <1>3 DEF Spawn, LoopInv, TypeOK
  <1>9. SharedInv'
    <2>1. Written' = Written
      BY <1>2, <1>3 DEF Written
    <2> QED
      BY <1>1, <2>1, SharedKept DEF Spawn
  <1>10. MutexInv' /\ HeardInv' /\ AnswerInv'
    BY <1>1, <1>2, <1>3 DEF Spawn, MutexInv, HeardInv, AnswerInv
  <1> QED
    BY <1>6, <1>7, <1>8, <1>9, <1>10 DEF IInv

LEMMA StartWaitingPreserves ==
    ASSUME IInv, StartWaiting PROVE IInv'
  <1>1. TypeOK /\ LoopInv /\ CountInv /\ MutexInv /\ HeardInv /\ SharedInv /\ AnswerInv
    BY DEF IInv
  <1>2. TypeOK'
    BY <1>1 DEF StartWaiting, TypeOK, shared
  <1>3. Holders' = Holders /\ Awaited' = Awaited /\ Written' = Written
    BY DEF StartWaiting, Holders, Awaited, Written
  <1>4. SharedInv'
    BY <1>1, <1>3, SharedKept DEF StartWaiting
  <1> QED
    BY <1>1, <1>2, <1>3, <1>4
    DEF IInv, StartWaiting, LoopInv, CountInv, MutexInv, HeardInv, AnswerInv

\* When the WaitGroup is down to zero every goroutine has ended.
LEMMA AllEnded ==
    ASSUME TypeOK, CountInv, wg = 0, todo = {}
    PROVE  \A n \in Nodes : goroutine[n] = "ended"
  <1>1. Awaited = {}
    BY CountedFinite, FS_EmptySet DEF CountInv
  <1> QED
    BY <1>1 DEF Awaited

\* Once all have written, the shared variables hold the verdict on all answers.
LEMMA SharedIsVerdict ==
    ASSUME TypeOK, HeardInv, SharedInv, \A n \in Nodes : goroutine[n] = "ended"
    PROVE  [disk |-> results, err |-> IF anyOK THEN "nil" ELSE lastErr] = Verdict(heard)
  <1> DEFINE said(o) == {n \in DOMAIN heard : heard[n] = o}
  <1>1. Written = Nodes /\ DOMAIN heard = Nodes
    BY DEF Written, TypeOK
  <1>2. \A o : Said(o) = said(o)
    BY <1>1 DEF Said
  <1>3. \A n \in Nodes : heard[n] \in Outcomes
    BY DEF HeardInv, TypeOK
  <1>4. results = Measured(said("ok"))
    BY <1>2 DEF SharedInv
  <1>5. (IF anyOK THEN "nil" ELSE lastErr)
          = IF said("ok") # {} \/ DOMAIN heard = {} THEN "nil"
            ELSE IF said("forbidden") # {} THEN "forbidden" ELSE "transient"
    <2>1. CASE said("ok") # {}
      <3>1. anyOK = TRUE
        BY <1>2, <2>1 DEF SharedInv
      <3> QED
        BY <2>1, <3>1
    <2>2. CASE said("ok") = {}
      <3>1. anyOK = FALSE
        BY <1>2, <2>2 DEF SharedInv
      <3>2. lastErr = IF said("forbidden") # {} THEN "forbidden"
                      ELSE IF said("transient") # {} THEN "transient" ELSE "nil"
        BY <1>2 DEF SharedInv
      <3>3. Nodes # {} /\ said("forbidden") = {} => said("transient") # {}
        BY <1>1, <1>3, <2>2 DEF Outcomes
      <3>4. Nodes = {} => said("forbidden") = {} /\ said("transient") = {}
        BY <1>1
      <3> QED
        BY <1>1, <2>2, <3>1, <3>2, <3>3, <3>4
    <2> QED
      BY <2>1, <2>2
  <1> QED
    BY <1>4, <1>5 DEF Verdict

LEMMA ReturnPreserves ==
    ASSUME IInv, Return PROVE IInv'
  <1>1. TypeOK /\ LoopInv /\ CountInv /\ MutexInv /\ HeardInv /\ SharedInv /\ AnswerInv
    BY DEF IInv
  <1>2. \A n \in Nodes : goroutine[n] = "ended"
    BY <1>1, AllEnded DEF Return, LoopInv
  <1>3. answer' = Verdict(heard')
    BY <1>1, <1>2, SharedIsVerdict DEF Return
  <1>4. TypeOK'
    <2>1. /\ answer'.disk = results
          /\ answer'.err = IF anyOK THEN "nil" ELSE lastErr
      BY DEF Return
    <2>2. answer'.err \in {"nil", "forbidden", "transient"}
      BY <1>1, <2>1 DEF TypeOK
    <2>3. IsFigures(answer'.disk, Nodes, 0)
      BY <1>1, <2>1 DEF TypeOK
    <2> QED
      BY <1>1, <2>2, <2>3 DEF Return, TypeOK, shared
  <1>5. Holders' = Holders /\ Awaited' = Awaited /\ Written' = Written
    BY DEF Return, Holders, Awaited, Written
  <1>6. SharedInv'
    BY <1>1, <1>5, SharedKept DEF Return
  <1> QED
    BY <1>1, <1>3, <1>4, <1>5, <1>6
    DEF IInv, Return, LoopInv, CountInv, MutexInv, HeardInv, AnswerInv

-----------------------------------------------------------------------------
\* The goroutines' steps.

\* A goroutine that moves among the stages in which it is counted changes no
\* count, and it is neither unborn before nor after.
LEMMA CountsKept ==
    ASSUME IInv, NEW n \in Nodes, NEW to \in Stages,
           goroutine' = [goroutine EXCEPT ![n] = to],
           goroutine[n] \in {"route", "lock", "write", "unlock"},
           to \in {"route", "lock", "write", "unlock", "release"},
           UNCHANGED <<at, todo, node, sem, wg>>
    PROVE  LoopInv' /\ CountInv'
  <1>1. TypeOK /\ LoopInv /\ CountInv
    BY DEF IInv
  <1>2. /\ goroutine'[n] = to
        /\ \A m \in Nodes : m # n => goroutine'[m] = goroutine[m]
    BY <1>1, OneMoves
  <1>3. LoopInv'
    BY <1>1, <1>2 DEF LoopInv
  <1>4. Holders' = Holders
    BY <1>2 DEF Holders
  <1>5. Awaited' = Awaited
    BY <1>2 DEF Awaited
  <1> QED
    BY <1>1, <1>3, <1>4, <1>5 DEF CountInv

LEMMA CallRoutePreserves ==
    ASSUME IInv, NEW n \in Nodes, NEW reply \in Replies, CallRoute(n, reply) PROVE IInv'
  <1>1. TypeOK /\ LoopInv /\ CountInv /\ MutexInv /\ HeardInv /\ SharedInv /\ AnswerInv
    BY DEF IInv
  <1>2. /\ goroutine' \in [Nodes -> Stages]
        /\ goroutine'[n] = "lock"
        /\ \A m \in Nodes : m # n => goroutine'[m] = goroutine[m]
    BY <1>1, OneMoves DEF CallRoute, Step, Stages
  <1>3. PICK o \in Outcomes : heard' = [heard EXCEPT ![n] = o]
    BY RouteOutcomes DEF CallRoute
  <1>4. /\ heard' \in [Nodes -> Outcomes \cup {"nothing"}]
        /\ heard'[n] = o
        /\ \A m \in Nodes : m # n => heard'[m] = heard[m]
    BY <1>1, <1>3 DEF TypeOK
  <1>5. TypeOK'
    BY <1>1, <1>2, <1>4 DEF CallRoute, TypeOK, shared
  <1>6. LoopInv' /\ CountInv'
    BY CountsKept DEF CallRoute, Step, Stages
  <1>7. SharedInv'
    <2>1. Written' = Written /\ n \notin Written
      BY <1>2 DEF CallRoute, Step, Written
    <2>2. \A m \in Written : heard'[m] = heard[m]
      BY <1>4, <2>1 DEF Written
    <2> QED
      BY <1>1, <2>1, <2>2, SharedKept DEF CallRoute
  <1>8. MutexInv'
    BY <1>1, <1>2 DEF CallRoute, MutexInv
  <1>9. HeardInv'
    BY <1>1, <1>2, <1>4 DEF HeardInv, Outcomes
  <1>10. AnswerInv'
    <2>1. at # "returned"
      BY <1>1, AllEnded DEF CallRoute, Step, CountInv, LoopInv
    <2> QED
      BY <1>1, <2>1 DEF CallRoute, AnswerInv
  <1> QED
    BY <1>5, <1>6, <1>7, <1>8, <1>9, <1>10 DEF IInv

LEMMA LockPreserves ==
    ASSUME IInv, NEW n \in Nodes, Lock(n) PROVE IInv'
  <1> USE FanOutAssumption
  <1>1. TypeOK /\ LoopInv /\ CountInv /\ MutexInv /\ HeardInv /\ SharedInv /\ AnswerInv
    BY DEF IInv
  <1>2. /\ goroutine' \in [Nodes -> Stages]
        /\ goroutine'[n] = "write"
        /\ \A m \in Nodes : m # n => goroutine'[m] = goroutine[m]
    BY <1>1, OneMoves DEF Lock, Step, Stages
  <1>3. TypeOK'
    BY <1>1, <1>2 DEF Lock, TypeOK, shared
  <1>4. LoopInv' /\ CountInv'
    BY CountsKept DEF Lock, Step, Stages
  <1>5. SharedInv'
    <2>1. Written' = Written
      BY <1>2 DEF Lock, Step, Written
    <2> QED
      BY <1>1, <2>1, SharedKept DEF Lock
  <1>6. MutexInv'
    BY <1>1, <1>2 DEF Lock, Unlocked, MutexInv
  <1>7. HeardInv' /\ AnswerInv'
    BY <1>1, <1>2 DEF Lock, Step, HeardInv, AnswerInv
  <1> QED
    BY <1>3, <1>4, <1>5, <1>6, <1>7 DEF IInv

\* The critical section takes up one more answer: the figures, the flag and the
\* representative error are those of all that have written, in whatever order.
LEMMA WriteAddsAnswer ==
    ASSUME TypeOK, HeardInv, SharedInv, NEW n \in Nodes, Write(n)
    PROVE  SharedInv'
  <1>1. /\ goroutine'[n] = "unlock"
        /\ \A m \in Nodes : m # n => goroutine'[m] = goroutine[m]
    BY OneMoves DEF Write, Step, Stages
  <1>2. Written' = Written \cup {n} /\ n \notin Written
    BY <1>1 DEF Write, Step, Written
  <1>3. heard[n] \in Outcomes /\ heard' = heard
    BY DEF Write, Step, HeardInv, TypeOK
  <1>4. \A o : Said(o)' = IF heard[n] = o THEN Said(o) \cup {n} ELSE Said(o)
    BY <1>2, <1>3 DEF Said
  <1>5. CASE heard[n] = "ok"
    <2>1. /\ Said("ok")' = Said("ok") \cup {n}
          /\ Said("forbidden")' = Said("forbidden")
          /\ Said("transient")' = Said("transient")
      BY <1>4, <1>5
    <2>2. /\ results' = [m \in DOMAIN results \cup {n} |-> 0]
          /\ anyOK' = TRUE
          /\ lastErr' = lastErr
      BY <1>5 DEF Write
    <2>3. results' = Measured(Said("ok")')
      BY <2>1, <2>2 DEF SharedInv, Measured
    <2> QED
      BY <2>1, <2>2, <2>3 DEF SharedInv
  <1>6. CASE heard[n] # "ok"
    <2>1. /\ Said("ok")' = Said("ok")
          /\ heard[n] = "forbidden" => /\ Said("forbidden")' # {}
          /\ heard[n] = "transient" => /\ Said("forbidden")' = Said("forbidden")
                                       /\ Said("transient")' # {}
      BY <1>3, <1>4, <1>6
    <2>2. /\ results' = results
          /\ anyOK' = anyOK
          /\ lastErr' = PickErr(heard[n])
      BY <1>6 DEF Write
    <2>3. lastErr' = IF Said("forbidden")' # {} THEN "forbidden"
                     ELSE IF Said("transient")' # {} THEN "transient" ELSE "nil"
      BY <1>3, <1>6, <2>1, <2>2 DEF SharedInv, PickErr, Outcomes
    <2> QED
      BY <2>1, <2>2, <2>3 DEF SharedInv
  <1> QED
    BY <1>5, <1>6

LEMMA WritePreserves ==
    ASSUME IInv, NEW n \in Nodes, Write(n) PROVE IInv'
  <1>1. TypeOK /\ LoopInv /\ CountInv /\ MutexInv /\ HeardInv /\ SharedInv /\ AnswerInv
    BY DEF IInv
  <1>2. /\ goroutine' \in [Nodes -> Stages]
        /\ goroutine'[n] = "unlock"
        /\ \A m \in Nodes : m # n => goroutine'[m] = goroutine[m]
    BY <1>1, OneMoves DEF Write, Step, Stages
  <1>3. heard[n] \in Outcomes
    BY <1>1 DEF Write, Step, HeardInv, TypeOK
  <1>4. TypeOK'
    <2>1. IsFigures(results', Nodes, 0)
      BY <1>1 DEF Write, TypeOK, IsFigures
    <2>2. anyOK' \in BOOLEAN /\ lastErr' \in {"nil", "forbidden", "transient"}
      BY <1>1, <1>3 DEF Write, PickErr, TypeOK, Outcomes
    <2> QED
      BY <1>1, <1>2, <2>1, <2>2 DEF Write, TypeOK
  <1>5. LoopInv' /\ CountInv'
    BY CountsKept DEF Write, Step, Stages
  <1>6. SharedInv'
    BY <1>1, WriteAddsAnswer
  <1>7. MutexInv' /\ HeardInv' /\ AnswerInv'
    BY <1>1, <1>2 DEF Write, Step, MutexInv, HeardInv, AnswerInv
  <1> QED
    BY <1>4, <1>5, <1>6, <1>7 DEF IInv

LEMMA UnlockPreserves ==
    ASSUME IInv, NEW n \in Nodes, Unlock(n) PROVE IInv'
  <1>1. TypeOK /\ LoopInv /\ CountInv /\ MutexInv /\ HeardInv /\ SharedInv /\ AnswerInv
    BY DEF IInv
  <1>2. /\ goroutine' \in [Nodes -> Stages]
        /\ goroutine'[n] = "release"
        /\ \A m \in Nodes : m # n => goroutine'[m] = goroutine[m]
    BY <1>1, OneMoves DEF Unlock, Step, Stages
  <1>3. TypeOK'
    BY <1>1, <1>2 DEF Unlock, TypeOK, shared
  <1>4. LoopInv' /\ CountInv'
    BY CountsKept DEF Unlock, Step, Stages
  <1>5. SharedInv'
    <2>1. Written' = Written
      BY <1>2 DEF Unlock, Step, Written
    <2> QED
      BY <1>1, <2>1, SharedKept DEF Unlock
  <1>6. MutexInv'
    <2>1. \A m \in Nodes : goroutine'[m] \in {"write", "unlock"} => m # n /\ mu = m
      BY <1>1, <1>2 DEF MutexInv
    <2>2. mu = n
      BY <1>1 DEF Unlock, Step, MutexInv
    <2> QED
      BY <2>1, <2>2 DEF MutexInv
  <1>7. HeardInv' /\ AnswerInv'
    BY <1>1, <1>2 DEF Unlock, Step, HeardInv, AnswerInv
  <1> QED
    BY <1>3, <1>4, <1>5, <1>6, <1>7 DEF IInv

LEMMA FreeSlotPreserves ==
    ASSUME IInv, NEW n \in Nodes, FreeSlot(n) PROVE IInv'
  <1> USE FanOutAssumption
  <1>1. TypeOK /\ LoopInv /\ CountInv /\ MutexInv /\ HeardInv /\ SharedInv /\ AnswerInv
    BY DEF IInv
  <1>2. /\ goroutine' \in [Nodes -> Stages]
        /\ goroutine'[n] = "done"
        /\ \A m \in Nodes : m # n => goroutine'[m] = goroutine[m]
    BY <1>1, OneMoves DEF FreeSlot, Step, Stages
  <1>3. Holders' = Holders \ {n} /\ n \in Holders
    BY <1>2 DEF FreeSlot, Step, Holders
  <1>4. /\ Cardinality(Holders') = Cardinality(Holders) - 1
        /\ Cardinality(Holders) \in Nat
        /\ Cardinality(Holders') \in Nat
    BY <1>3, CountedFinite, OneLess, FS_RemoveElement, FS_CardinalityType
  <1>5. Awaited' = Awaited /\ Written' = Written
    BY <1>2 DEF FreeSlot, Step, Awaited, Written
  <1>6. CountInv'
    BY <1>1, <1>4, <1>5 DEF FreeSlot, SlotsLeft, CountInv
  <1>7. TypeOK'
    BY <1>1, <1>2, <1>4 DEF FreeSlot, SlotsLeft, TypeOK, CountInv, shared
  <1>8. SharedInv'
    BY <1>1, <1>5, SharedKept DEF FreeSlot
  <1>9. LoopInv' /\ MutexInv' /\ HeardInv' /\ AnswerInv'
    BY <1>1, <1>2 DEF FreeSlot, Step, LoopInv, MutexInv, HeardInv, AnswerInv
  <1> QED
    BY <1>6, <1>7, <1>8, <1>9 DEF IInv

LEMMA DonePreserves ==
    ASSUME IInv, NEW n \in Nodes, Done(n) PROVE IInv'
  <1> USE FanOutAssumption
  <1>1. TypeOK /\ LoopInv /\ CountInv /\ MutexInv /\ HeardInv /\ SharedInv /\ AnswerInv
    BY DEF IInv
  <1>2. /\ goroutine' \in [Nodes -> Stages]
        /\ goroutine'[n] = "ended"
        /\ \A m \in Nodes : m # n => goroutine'[m] = goroutine[m]
    BY <1>1, OneMoves DEF Done, Step, Stages
  <1>3. Awaited' = Awaited \ {n} /\ n \in Awaited
    BY <1>1, <1>2 DEF Done, Step, Awaited, LoopInv
  <1>4. /\ Cardinality(Awaited') = Cardinality(Awaited) - 1
        /\ Cardinality(Awaited) \in Nat
        /\ Cardinality(Awaited') \in Nat
    BY <1>3, CountedFinite, OneLess, FS_RemoveElement, FS_CardinalityType
  <1>5. Holders' = Holders /\ Written' = Written
    BY <1>2 DEF Done, Step, Holders, Written
  <1>6. CountInv'
    BY <1>1, <1>4, <1>5 DEF Done, CountInv
  <1>7. TypeOK'
    <2>1. wg' \in 0..Cardinality(Nodes)
      BY <1>1, <1>4, FS_CardinalityType DEF Done, CountInv, TypeOK
    <2> QED
      BY <1>1, <1>2, <2>1 DEF Done, TypeOK, shared
  <1>8. SharedInv'
    BY <1>1, <1>5, SharedKept DEF Done
  <1>9. LoopInv' /\ MutexInv' /\ HeardInv' /\ AnswerInv'
    BY <1>1, <1>2 DEF Done, Step, LoopInv, MutexInv, HeardInv, AnswerInv
  <1> QED
    BY <1>6, <1>7, <1>8, <1>9 DEF IInv

\* Every step keeps the inductive invariant.
LEMMA NextPreserves == IInv /\ [Next]_vars => IInv'
  <1> SUFFICES ASSUME IInv, [Next]_vars PROVE IInv'
    OBVIOUS
  <1>1. CASE PollGoroutine
    BY <1>1, AddToGroupPreserves, SpawnPreserves, StartWaitingPreserves, ReturnPreserves
    DEF PollGoroutine
  <1>2. ASSUME NEW n \in Nodes, Goroutine(n) PROVE IInv'
    BY <1>2, CallRoutePreserves, LockPreserves, WritePreserves, UnlockPreserves,
       FreeSlotPreserves, DonePreserves DEF Goroutine
  <1>3. CASE UNCHANGED vars
    <2>1. Holders' = Holders /\ Awaited' = Awaited /\ Written' = Written
      BY <1>3 DEF vars, Holders, Awaited, Written
    <2>2. SharedInv'
      BY <1>3, <2>1, SharedKept DEF vars, shared, IInv
    <2> QED
      BY <1>3, <2>1, <2>2
      DEF vars, IInv, TypeOK, LoopInv, CountInv, MutexInv, HeardInv, AnswerInv
  <1> QED
    BY <1>1, <1>2, <1>3 DEF Next

-----------------------------------------------------------------------------
\* The inductive invariant holds in every reachable state.
THEOREM Invariance == Spec => []IInv
  BY InitEstablishes, NextPreserves, PTL DEF Spec

\* Every variable of a fan-out keeps its type; in particular the semaphore never
\* holds more than its capacity and the WaitGroup counter is never negative,
\* which would panic.
THEOREM TypeCorrect == Spec => []TypeOK
  <1>1. IInv => TypeOK
    BY DEF IInv
  <1> QED
    BY <1>1, Invariance, PTL

\* fanOut: never more than diskFetchConcurrency requests are under way.
THEOREM RequestsBounded == Spec => []BoundedConcurrency
  <1>1. IInv => BoundedConcurrency
    <2> SUFFICES ASSUME IInv PROVE BoundedConcurrency
      OBVIOUS
    <2> DEFINE asking == {n \in Nodes : goroutine[n] = "route"}
    <2>1. asking \in SUBSET Holders
      BY DEF Holders
    <2>2. /\ Cardinality(asking) <= Cardinality(Holders)
          /\ Cardinality(asking) \in Nat
      BY <2>1, CountedFinite, FS_Subset, FS_CardinalityType
    <2>3. Cardinality(Holders) \in 0..diskFetchConcurrency
      BY DEF IInv, TypeOK, CountInv
    <2> QED
      BY <2>2, <2>3, FanOutAssumption DEF BoundedConcurrency
  <1> QED
    BY <1>1, Invariance, PTL

\* fanOut: the shared variables are written under the mutex, and nobody can write
\* them any more when the poll goroutine reads them.
THEOREM ResultsRaceFree == Spec => []NoRaceOnResults
  <1>1. IInv => NoRaceOnResults
    BY AllEnded DEF IInv, LoopInv, CountInv, MutexInv, NoRaceOnResults
  <1> QED
    BY <1>1, Invariance, PTL

\* fanOut: the verdict is the one on what the nodes said, in whatever order they
\* said it.
THEOREM VerdictIsOnAnswers == Spec => []VerdictOnAnswers
  <1>1. IInv => VerdictOnAnswers
    BY DEF IInv, AnswerInv, VerdictOnAnswers
  <1> QED
    BY <1>1, Invariance, PTL

\* fanOut implements what DiskSignal takes a fan-out for, up to its ending at all:
\* the verdict on some answers, handed out at most once and never revised.
THEOREM DeliversOneVerdict ==
    Spec => Contract!Init /\ [][Contract!Deliver]_answer
  <1>1. Init => Contract!Init
    BY DEF Init, Contract!Init
  <1>2. IInv /\ [Next]_vars => [Contract!Deliver]_answer
    <2> SUFFICES ASSUME IInv, Next PROVE Contract!Deliver \/ answer' = answer
      BY DEF vars
    <2>1. CASE Return
      <3>1. /\ answer = NoAnswer
            /\ answer' = Verdict(heard)
            /\ heard \in [Nodes -> Outcomes]
        <4>1. \A n \in Nodes : goroutine[n] = "ended"
          BY <2>1, AllEnded DEF IInv, Return, LoopInv
        <4>2. heard \in [Nodes -> Outcomes]
          BY <4>1 DEF IInv, TypeOK, HeardInv
        <4>3. answer' = Verdict(heard)
          BY <2>1, <4>1, SharedIsVerdict DEF IInv, Return
        <4> QED
          BY <2>1, <4>2, <4>3 DEF IInv, AnswerInv, Return
      <3>2. Verdict(heard) = Contract!Verdict(heard)
        BY DEF Verdict, Contract!Verdict, Measured, Contract!Measured
      <3>3. Outcomes = Contract!Outcomes
        BY DEF Outcomes, Contract!Outcomes
      <3> QED
        BY <3>1, <3>2, <3>3 DEF Contract!Deliver
    <2>2. CASE PollGoroutine /\ ~Return
      BY <2>2 DEF PollGoroutine, AddToGroup, Spawn, StartWaiting
    <2>3. ASSUME NEW n \in Nodes, Goroutine(n) PROVE answer' = answer
      BY <2>3 DEF Goroutine, CallRoute, Lock, Write, Unlock, FreeSlot, Done
    <2> QED
      BY <2>1, <2>2, <2>3 DEF Next
  <1> QED
    BY <1>1, <1>2, Invariance, PTL DEF Spec

\* newKubeletClient, fetchKubeletDisk: whichever TLS configuration the API client
\* has, exactly the kubelets it lets the collector trust are read.
THEOREM TrustedKubeletsRead == Spec => []ReadsTrustedKubelets
  <1>1. TypeOK => ReadsTrustedKubelets
    <2> SUFFICES ASSUME TypeOK, NEW n \in Nodes, kubeletAddress(n) # ""
                 PROVE  fetchKubeletDisk(kubeletHTTP, n, "summary") = "ok"
                          <=> /\ config[1] # nil /\ (config[2] \/ TransportFor(config[1]) # nil)
                              /\ \/ config[2] \/ config[1].insecure
                                 \/ config[1].ca /\ n \notin SelfSigned
      BY DEF ReadsTrustedKubelets
    <2>0. config \in (TLSConfigs \cup {nil}) \X BOOLEAN
      BY FanOutAssumption DEF TypeOK
    <2>1. PICK cfg \in TLSConfigs \cup {nil}, flag \in BOOLEAN :
            config[1] = cfg /\ config[2] = flag
      BY <2>0
    <2>2. kubeletHTTP = newKubeletClient(cfg, flag)
      BY <2>1 DEF kubeletHTTP
    <2>3. CASE cfg = nil
      <3>1. kubeletHTTP = nil
        BY <2>2, <2>3 DEF newKubeletClient
      <3>2. fetchKubeletDisk(kubeletHTTP, n, "summary") = "transient"
        BY <3>1 DEF fetchKubeletDisk
      <3>3. config[1] = nil
        BY <2>1, <2>3
      <3> QED
        BY <3>2, <3>3
    <2>4. CASE cfg # nil /\ flag = TRUE
      <3> DEFINE client == [ca |-> FALSE, insecure |-> TRUE, serverName |-> FALSE]
      <3>1. kubeletHTTP = client
        BY <2>2, <2>4 DEF newKubeletClient, TransportFor
      <3>2. client \in TLSConfigs
        BY DEF TLSConfigs
      <3>3. client # nil
        BY <3>2, FanOutAssumption
      <3>4. Handshake(client, n)
        BY DEF Handshake
      <3> QED
        BY <2>1, <2>4, <3>1, <3>3, <3>4 DEF fetchKubeletDisk, parseSummary
    <2>5. CASE cfg # nil /\ flag = FALSE
      <3> DEFINE client == [cfg EXCEPT !.serverName = FALSE]
      <3>1. /\ client \in TLSConfigs /\ client # nil
            /\ client.ca = cfg.ca /\ client.insecure = cfg.insecure
            /\ client.serverName = FALSE
            /\ cfg.ca \in BOOLEAN /\ cfg.insecure \in BOOLEAN
        BY <2>5, FanOutAssumption DEF TLSConfigs
      <3>2. kubeletHTTP = TransportFor(client)
        BY <2>2, <2>5 DEF newKubeletClient
      <3>3. CASE cfg.ca /\ cfg.insecure
        <4>1. kubeletHTTP = nil /\ TransportFor(cfg) = nil
          BY <3>1, <3>2, <3>3 DEF TransportFor
        <4> QED
          BY <2>1, <2>5, <4>1 DEF fetchKubeletDisk
      <3>4. CASE ~ (cfg.ca /\ cfg.insecure)
        <4>1. kubeletHTTP = client /\ TransportFor(cfg) # nil
          BY <2>5, <3>1, <3>2, <3>4 DEF TransportFor
        <4>2. Handshake(client, n) <=> cfg.insecure \/ (cfg.ca /\ n \notin SelfSigned)
          BY <3>1 DEF Handshake
        <4>3. fetchKubeletDisk(kubeletHTTP, n, "summary") = "ok" <=> Handshake(client, n)
          BY <3>1, <4>1 DEF fetchKubeletDisk, parseSummary
        <4>4. /\ config[1] # nil
              /\ config[2] \/ TransportFor(config[1]) # nil
              /\ config[2] \/ config[1].insecure \/ (config[1].ca /\ n \notin SelfSigned)
                   <=> cfg.insecure \/ (cfg.ca /\ n \notin SelfSigned)
          <5> HIDE DEF client
          <5> QED
            BY <2>1, <2>5, <4>1
        <4> HIDE DEF client
        <4> QED
          BY <4>2, <4>3, <4>4, Zenon
      <3> QED
        BY <3>3, <3>4
    <2> QED
      BY <2>3, <2>4, <2>5
  <1> QED
    BY <1>1, TypeCorrect, PTL

-----------------------------------------------------------------------------
\* Nobody waits for ever on anybody: there are three things to wait for, a slot, the
\* mutex and the end of the goroutines.

\* Whoever holds the mutex is in the critical section.
HolderInv == mu # NoNode => mu \in Nodes /\ goroutine[mu] \in {"write", "unlock"}

\* The guards of a goroutine's next step, and of the poll goroutine's.
CanRun(n) == \/ goroutine[n] \in {"route", "write", "unlock", "release", "done"}
             \/ goroutine[n] = "lock" /\ Unlocked
PollCanRun == \/ at = "loop"
              \/ at = "slot" /\ SlotFree
              \/ at = "wait" /\ wg = 0

\* As long as the fan-out has not returned, somebody has a step to take.
NeverStuck == at = "returned" \/ PollCanRun \/ \E n \in Nodes : CanRun(n)

LEMMA HolderKept == IInv /\ HolderInv /\ [Next]_vars => HolderInv'
  <1> SUFFICES ASSUME IInv, HolderInv, [Next]_vars PROVE HolderInv'
    OBVIOUS
  <1>t. goroutine \in [Nodes -> Stages] /\ node \in Nodes \cup {NoNode}
    BY DEF IInv, TypeOK
  <1>1. CASE UNCHANGED <<mu, goroutine>>
    BY <1>1 DEF HolderInv
  <1>2. CASE Spawn
    <2>1. goroutine[node] = "unborn" /\ node \in Nodes
      BY <1>2, <1>t DEF IInv, LoopInv, Spawn
    <2> QED
      BY <1>2, <1>t, <2>1 DEF Spawn, HolderInv
  <1>3. ASSUME NEW n \in Nodes, NEW to, goroutine[n] \notin {"write", "unlock"},
               goroutine' = [goroutine EXCEPT ![n] = to], UNCHANGED mu
        PROVE  HolderInv'
    BY <1>3, <1>t DEF HolderInv
  <1>4. ASSUME NEW n \in Nodes, Lock(n) PROVE HolderInv'
    BY <1>4, <1>t DEF Lock, Step, HolderInv
  <1>5. ASSUME NEW n \in Nodes, Write(n) PROVE HolderInv'
    BY <1>5, <1>t DEF Write, Step, HolderInv
  <1>6. ASSUME NEW n \in Nodes, Unlock(n) PROVE HolderInv'
    BY <1>6 DEF Unlock, HolderInv
  <1>7. ASSUME NEW n \in Nodes, Goroutine(n) PROVE HolderInv'
    <2>1. (\E reply \in Replies : CallRoute(n, reply)) \/ FreeSlot(n) \/ Done(n) => HolderInv'
      BY <1>3 DEF CallRoute, FreeSlot, Done, Step
    <2> QED
      BY <1>7, <2>1, <1>4, <1>5, <1>6 DEF Goroutine
  <1>8. CASE (\E n \in Nodes : AddToGroup(n)) \/ StartWaiting \/ Return \/ UNCHANGED vars
    BY <1>8, <1>1 DEF AddToGroup, StartWaiting, Return, vars
  <1> QED
    BY <1>2, <1>7, <1>8 DEF Next, PollGoroutine

\* Whoever waits for the mutex waits for somebody who can run.
LEMMA BusyMeansRunning ==
    ASSUME IInv, HolderInv, NEW n \in Nodes, goroutine[n] \notin {"unborn", "ended"}
    PROVE  \E m \in Nodes : CanRun(m)
  <1>1. goroutine[n] \in Stages
    BY DEF IInv, TypeOK
  <1>2. CASE goroutine[n] # "lock"
    BY <1>1, <1>2 DEF Stages, CanRun
  <1>3. CASE mu = NoNode
    BY <1>1, <1>3 DEF Stages, CanRun, Unlocked
  <1>4. CASE mu # NoNode
    BY <1>4 DEF HolderInv, CanRun
  <1> QED
    BY <1>2, <1>3, <1>4

\* fanOut: the semaphore, the mutex and the WaitGroup never lock each other up, for
\* any number of nodes and any number of slots.  The loop waits for a slot only while
\* a goroutine that can run holds one, or waits for the mutex of one that can run; it
\* waits for the goroutines only while one of them has not ended.
THEOREM FanOutNeverStuck == Spec => []NeverStuck
  <1>1. Init => HolderInv
    BY DEF Init, HolderInv
  <1>2. IInv /\ HolderInv => NeverStuck
    <2> SUFFICES ASSUME IInv, HolderInv, at # "returned", ~PollCanRun
                 PROVE  \E n \in Nodes : CanRun(n)
      BY DEF NeverStuck
    <2>1. CASE at = "slot"
      <3>1. sem \in 0..diskFetchConcurrency /\ ~ (sem < diskFetchConcurrency)
        BY <2>1 DEF PollCanRun, SlotFree, IInv, TypeOK
      <3>2. Cardinality(Holders) # 0
        BY <3>1, FanOutAssumption DEF IInv, CountInv
      <3>3. PICK n \in Nodes : n \in Holders
        BY <3>2, FS_EmptySet DEF Holders
      <3> QED
        BY <3>3, BusyMeansRunning DEF Holders
    <2>2. CASE at = "wait"
      <3>1. wg # 0 /\ todo = {} /\ node = NoNode
        BY <2>2 DEF PollCanRun, IInv, LoopInv
      <3>2. PICK n \in Nodes : n \in Awaited
        BY <3>1, FS_EmptySet DEF IInv, CountInv, Awaited
      <3>3. goroutine[n] \notin {"unborn", "ended"}
        BY <3>1, <3>2, FanOutAssumption DEF Awaited, IInv, LoopInv
      <3> QED
        BY <3>3, BusyMeansRunning
    <2> QED
      BY <2>1, <2>2 DEF PollCanRun, IInv, TypeOK
  <1> QED
    BY <1>1, <1>2, HolderKept, Invariance, PTL DEF Spec

-----------------------------------------------------------------------------
\* The fan-out is over after 8 steps per node and 2 of its own: a measure.

\* The steps taken for node n, the loop's wg.Add and go included.
Rank(stage) == CASE stage = "unborn"  -> 1
                 [] stage = "route"   -> 2
                 [] stage = "lock"    -> 3
                 [] stage = "write"   -> 4
                 [] stage = "unlock"  -> 5
                 [] stage = "release" -> 6
                 [] stage = "done"    -> 7
                 [] stage = "ended"   -> 8
Taken(n) == IF n \in todo THEN 0 ELSE Rank(goroutine[n])

\* The steps still to be taken for the nodes, and those of the poll goroutine once
\* its loop is over.
Ahead == {step \in Nodes \X (1..8) : step[2] > Taken(step[1])}
PollAhead == IF at = "returned" THEN 0 ELSE IF at = "wait" THEN 1 ELSE 2

StepsLeft == Cardinality(Ahead) + PollAhead

LEMMA RankType ==
    ASSUME TypeOK, NEW n \in Nodes
    PROVE  Taken(n) \in 0..8
  <1>1. goroutine[n] \in Stages
    BY DEF TypeOK
  <1> QED
    BY <1>1 DEF Taken, Rank, Stages

LEMMA AheadFinite ==
    /\ IsFiniteSet(Ahead)
    /\ Cardinality(Ahead) \in 0..8 * Cardinality(Nodes)
  <1>1. IsFiniteSet(1..8) /\ Cardinality(1..8) = 8
    <2>1. 1 \in Int /\ 8 \in Int /\ ~ (1 > 8) /\ 8 - 1 + 1 = 8
      OBVIOUS
    <2> QED
      BY <2>1, FS_Interval
  <1>2. /\ IsFiniteSet(Nodes \X (1..8))
        /\ Cardinality(Nodes \X (1..8)) = Cardinality(Nodes) * 8
    BY <1>1, FS_Product, FanOutAssumption
  <1>3. Ahead \in SUBSET (Nodes \X (1..8))
    BY DEF Ahead
  <1>4. IsFiniteSet(Ahead) /\ Cardinality(Ahead) <= Cardinality(Nodes) * 8
    BY <1>2, <1>3, FS_Subset
  <1>5. Cardinality(Ahead) \in Nat /\ Cardinality(Nodes) \in Nat
    BY <1>4, FS_CardinalityType, FanOutAssumption
  <1> QED
    BY <1>4, <1>5

\* One step taken for one node is one less ahead.
LEMMA OneStepTaken ==
    ASSUME TypeOK, NEW n \in Nodes,
           Taken(n)' = Taken(n) + 1, Taken(n)' \in 0..8,
           \A m \in Nodes : m # n => Taken(m)' = Taken(m)
    PROVE  Cardinality(Ahead)' = Cardinality(Ahead) - 1
  <1> DEFINE next == <<n, Taken(n) + 1>>
  <1>1. next \in Ahead
    BY RankType DEF Ahead
  <1>2. Ahead' = Ahead \ {next}
    <2>1. ASSUME NEW m \in Nodes, NEW k \in 1..8
          PROVE  <<m, k>> \in Ahead' <=> <<m, k>> \in Ahead /\ <<m, k>> # next
      <3>1. <<m, k>> \in Ahead <=> k > Taken(m)
        BY DEF Ahead
      <3>2. <<m, k>> \in Ahead' <=> k > Taken(m)'
        BY DEF Ahead
      <3>3. Taken(m) \in 0..8
        BY RankType
      <3>4. CASE m = n
        BY <3>1, <3>2, <3>3, <3>4
      <3>5. CASE m # n
        BY <3>1, <3>2, <3>5
      <3> QED
        BY <3>4, <3>5
    <2>2. Ahead \subseteq Nodes \X (1..8) /\ Ahead' \subseteq Nodes \X (1..8)
      BY DEF Ahead
    <2> HIDE DEF next
    <2>3. \A step \in Nodes \X (1..8) : step \in Ahead' <=> step \in Ahead \ {next}
      <3> TAKE step \in Nodes \X (1..8)
      <3>1. step[1] \in Nodes /\ step[2] \in 1..8 /\ step = <<step[1], step[2]>>
        OBVIOUS
      <3> QED
        BY <3>1, <2>1
    <2> QED
      BY <2>2, <2>3
  <1> QED
    BY <1>1, <1>2, AheadFinite, OneLess

\* A goroutine's step.
LEMMA GoroutineStep ==
    ASSUME IInv, NEW n \in Nodes, NEW from \in Stages \ {"unborn"}, NEW to \in Stages,
           Step(n, from, to), Rank(to) = Rank(from) + 1, UNCHANGED <<at, todo>>
    PROVE  StepsLeft' = StepsLeft - 1
  <1>1. n \notin todo /\ TypeOK /\ goroutine[n] = from
    BY DEF IInv, LoopInv, Step
  <1>2. goroutine'[n] = to /\ \A m \in Nodes : m # n => goroutine'[m] = goroutine[m]
    BY <1>1, OneMoves DEF Step
  <1>3. Taken(n) = Rank(from) /\ Taken(n)' = Rank(to)
    BY <1>1, <1>2 DEF Taken
  <1>4. \A m \in Nodes : m # n => Taken(m)' = Taken(m)
    BY <1>2 DEF Taken
  <1>5. Rank(to) \in 0..8
    BY DEF Rank, Stages
  <1>6. Cardinality(Ahead)' = Cardinality(Ahead) - 1
    BY <1>1, <1>3, <1>4, <1>5, OneStepTaken
  <1>7. PollAhead' = PollAhead /\ PollAhead \in Nat /\ Cardinality(Ahead) \in Nat
    BY AheadFinite DEF PollAhead
  <1> QED
    BY <1>6, <1>7 DEF StepsLeft

\* A step of the poll goroutine.
LEMMA PollStep == IInv /\ PollGoroutine => StepsLeft' = StepsLeft - 1
  <1> SUFFICES ASSUME IInv, PollGoroutine PROVE StepsLeft' = StepsLeft - 1
    OBVIOUS
  <1>t. TypeOK /\ goroutine \in [Nodes -> Stages] /\ Cardinality(Ahead) \in Nat
    BY AheadFinite DEF IInv, TypeOK
  <1>r. Rank("unborn") = 1 /\ Rank("route") = 2
    BY DEF Rank
  <1>1. ASSUME NEW n \in Nodes, AddToGroup(n) PROVE StepsLeft' = StepsLeft - 1
    <2>1. /\ n \in todo /\ todo' = todo \ {n} /\ UNCHANGED goroutine
          /\ at = "loop" /\ at' = "slot" /\ goroutine[n] = "unborn"
      BY <1>1 DEF AddToGroup, IInv, LoopInv
    <2>2. Taken(n) = 0 /\ Taken(n)' = 1
      BY <2>1, <1>r DEF Taken
    <2>3. \A m \in Nodes : m # n => Taken(m)' = Taken(m)
      BY <2>1 DEF Taken
    <2>4. Cardinality(Ahead)' = Cardinality(Ahead) - 1
      BY <2>2, <2>3, <1>t, OneStepTaken
    <2> QED
      BY <2>1, <2>4, <1>t DEF StepsLeft, PollAhead
  <1>2. CASE Spawn
    <2>1. /\ node \in Nodes /\ node \notin todo /\ goroutine[node] = "unborn"
          /\ goroutine' = [goroutine EXCEPT ![node] = "route"]
          /\ UNCHANGED todo /\ at = "slot" /\ at' = "loop"
      BY <1>2 DEF Spawn, IInv, TypeOK, LoopInv
    <2>2. PICK n \in Nodes : n = node
      BY <2>1
    <2>3. goroutine'[n] = "route" /\ \A m \in Nodes : m # n => goroutine'[m] = goroutine[m]
      BY <2>1, <2>2, <1>t
    <2>4. Taken(n) = 1 /\ Taken(n)' = 2
      BY <2>1, <2>2, <2>3, <1>r DEF Taken
    <2>5. \A m \in Nodes : m # n => Taken(m)' = Taken(m)
      BY <2>1, <2>3 DEF Taken
    <2>6. Cardinality(Ahead)' = Cardinality(Ahead) - 1
      BY <2>4, <2>5, <1>t, OneStepTaken
    <2> QED
      BY <2>1, <2>6, <1>t DEF StepsLeft, PollAhead
  <1>3. CASE StartWaiting \/ Return
    <2>1. UNCHANGED <<goroutine, todo>> /\ PollAhead' = PollAhead - 1 /\ PollAhead \in Nat
      BY <1>3 DEF StartWaiting, Return, PollAhead
    <2>2. \A n : Taken(n)' = Taken(n)
      BY <2>1 DEF Taken
    <2>3. Ahead' = Ahead
      BY <2>2 DEF Ahead
    <2> QED
      BY <2>1, <2>3, <1>t DEF StepsLeft
  <1> QED
    BY <1>1, <1>2, <1>3 DEF PollGoroutine

\* fanOut: every step of the poll goroutine or of a goroutine is one of the at most
\* 8 per node and 2 besides that the fan-out can take at all, in whichever order.  As
\* it is never stuck before it returns, all that is left to the scheduler is to let
\* somebody run.
THEOREM FanOutBounded ==
    Spec => /\ [](StepsLeft \in 0..(8 * Cardinality(Nodes) + 2))
            /\ [][StepsLeft' = StepsLeft - 1]_vars
  <1>1. StepsLeft \in 0..(8 * Cardinality(Nodes) + 2)
    <2>1. PollAhead \in 0..2
      BY DEF PollAhead
    <2>2. Cardinality(Nodes) \in Nat
      BY FS_CardinalityType, FanOutAssumption
    <2> QED
      BY <2>1, <2>2, AheadFinite DEF StepsLeft
  <1>2. IInv /\ [Next]_vars => [StepsLeft' = StepsLeft - 1]_vars
    <2> SUFFICES ASSUME IInv, Next PROVE StepsLeft' = StepsLeft - 1
      OBVIOUS
    <2>1. CASE PollGoroutine
      BY <2>1, PollStep
    <2>2. ASSUME NEW n \in Nodes, Goroutine(n) PROVE StepsLeft' = StepsLeft - 1
      <3> USE DEF Stages
      <3>r. /\ Rank("route") = 2 /\ Rank("lock") = 3 /\ Rank("write") = 4
            /\ Rank("unlock") = 5 /\ Rank("release") = 6 /\ Rank("done") = 7
            /\ Rank("ended") = 8
        BY DEF Rank
      <3>1. ASSUME NEW reply \in Replies, CallRoute(n, reply)
            PROVE  StepsLeft' = StepsLeft - 1
        BY <3>1, <3>r, GoroutineStep DEF CallRoute
      <3>2. CASE Lock(n)
        BY <3>2, <3>r, GoroutineStep DEF Lock
      <3>3. CASE Write(n)
        BY <3>3, <3>r, GoroutineStep DEF Write
      <3>4. CASE Unlock(n)
        BY <3>4, <3>r, GoroutineStep DEF Unlock
      <3>5. CASE FreeSlot(n)
        BY <3>5, <3>r, GoroutineStep DEF FreeSlot
      <3>6. CASE Done(n)
        BY <3>6, <3>r, GoroutineStep DEF Done
      <3> QED
        BY <2>2, <3>1, <3>2, <3>3, <3>4, <3>5, <3>6 DEF Goroutine
    <2> QED
      BY <2>1, <2>2 DEF Next
  <1> QED
    BY <1>1, <1>2, Invariance, PTL DEF Spec
=============================================================================
