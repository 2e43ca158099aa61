-------------------------------- MODULE FanOut --------------------------------
(***************************************************************************)
(* fanOut of internal/collector/disk.go: the poll goroutine starts one     *)
(* goroutine per node, at most diskFetchConcurrency of them at a time, and *)
(* waits for all of them.  The goroutines share results, anyOK and lastErr *)
(* under a mutex; a channel is the semaphore and a WaitGroup the join.     *)
(*                                                                         *)
(* Every synchronisation operation is an action of its own, in the order   *)
(* of the code: the deferred calls of a goroutine run last to first, so it *)
(* unlocks, then frees its slot, then reports to the WaitGroup.            *)
(***************************************************************************)
EXTENDS DiskRoute, FanOutVerdict, FiniteSets

CONSTANTS
    Nodes,                 \* the nodes the informer cache listed
    diskFetchConcurrency,  \* capacity of the semaphore channel
    NoNode,                \* nobody: no node in hand, mutex free
    NoAnswer,              \* fanOut has not returned
    Configs                \* <<API client configuration, --kubelet-insecure-tls>>

ASSUME FanOutAssumption == /\ IsFiniteSet(Nodes)
                           /\ NoNode \notin Nodes
                           /\ diskFetchConcurrency \in Nat \ {0}
                           /\ Configs \subseteq (TLSConfigs \cup {nil}) \X BOOLEAN
                           /\ nil \notin TLSConfigs

VARIABLES
    route,     \* the route function the caller passes
    config,    \* the collector's configuration, one of Configs
    at,        \* where the poll goroutine is
    todo,      \* nodes its loop has not reached
    node,      \* the loop variable between wg.Add and go
    goroutine, \* where each node's goroutine is
    sem,       \* slots taken in the channel
    wg,        \* the WaitGroup counter
    mu,        \* who holds the mutex
    results, anyOK, lastErr,
    heard,     \* what route returned to each goroutine (a local there)
    answer     \* what fanOut returned

shared == <<results, anyOK, lastErr>>
vars   == <<route, config, at, todo, node, goroutine, sem, wg, mu, results, anyOK, lastErr,
            heard, answer>>

\* What New built the kubelet client from, and the client.
kubeletHTTP == newKubeletClient(config[1], config[2])

Stages == {"unborn", "route", "lock", "write", "unlock", "release", "done", "ended"}

TypeOK == /\ route \in {"kubelet", "proxy"}
          /\ config \in Configs
          /\ at \in {"loop", "slot", "wait", "returned"}
          /\ todo \subseteq Nodes
          /\ node \in Nodes \cup {NoNode}
          /\ goroutine \in [Nodes -> Stages]
          /\ sem \in 0..diskFetchConcurrency
          /\ wg \in 0..Cardinality(Nodes)
          /\ mu \in Nodes \cup {NoNode}
          /\ IsFigures(results, Nodes, 0)
          /\ anyOK \in BOOLEAN
          /\ lastErr \in {"nil", "forbidden", "transient"}
          /\ heard \in [Nodes -> Outcomes \cup {"nothing"}]
          /\ \/ answer = NoAnswer
             \/ /\ IsFigures(answer.disk, Nodes, 0)
                /\ answer.err \in {"nil", "forbidden", "transient"}

Init == /\ route \in {"kubelet", "proxy"}
        /\ config \in Configs
        /\ at = "loop"
        /\ todo = Nodes
        /\ node = NoNode
        /\ goroutine = [n \in Nodes |-> "unborn"]
        /\ sem = 0
        /\ wg = 0
        /\ mu = NoNode
        /\ results = NoFigures
        /\ anyOK = FALSE
        /\ lastErr = "nil"
        /\ heard = [n \in Nodes |-> "nothing"]
        /\ answer = NoAnswer

-----------------------------------------------------------------------------
\* The poll goroutine.  The informer cache lists nodes in no particular order.

AddToGroup(n) == /\ at = "loop"
                 /\ n \in todo
                 /\ todo' = todo \ {n}
                 /\ node' = n
                 /\ wg' = wg + 1
                 /\ at' = "slot"
                 /\ UNCHANGED <<route, config, goroutine, sem, mu, shared, heard, answer>>

\* Mutant: the loop does not wait for a slot.
MutSlotFree == TRUE

\* sem <- struct{}{} blocks while the channel is full.
SlotFree == sem < diskFetchConcurrency

\* Mutant: the send into the channel is forgotten.
MutSlotTaken == sem

SlotTaken == sem + 1

Spawn == /\ at = "slot"
         /\ SlotFree
         /\ sem' = SlotTaken
         /\ goroutine' = [goroutine EXCEPT ![node] = "route"]
         /\ node' = NoNode
         /\ at' = "loop"
         /\ UNCHANGED <<route, config, todo, wg, mu, shared, heard, answer>>

StartWaiting == /\ at = "loop"
                /\ todo = {}
                /\ at' = "wait"
                /\ UNCHANGED <<route, config, todo, node, goroutine, sem, wg, mu, shared, heard, answer>>

Return == /\ at = "wait"
          /\ wg = 0
          /\ answer' = [disk |-> results, err |-> IF anyOK THEN "nil" ELSE lastErr]
          /\ at' = "returned"
          /\ UNCHANGED <<route, config, todo, node, goroutine, sem, wg, mu, shared, heard>>

-----------------------------------------------------------------------------
\* The goroutine of node n.

Step(n, from, to) == /\ goroutine[n] = from
                     /\ goroutine' = [goroutine EXCEPT ![n] = to]

CallRoute(n, reply) ==
    /\ Step(n, "route", "lock")
    /\ heard' = [heard EXCEPT ![n] = IF route = "kubelet"
                                     THEN fetchKubeletDisk(kubeletHTTP, n, reply)
                                     ELSE fetchProxyDisk(reply)]
    /\ UNCHANGED <<route, config, at, todo, node, sem, wg, mu, shared, answer>>

\* Mutant: no mutual exclusion.
MutUnlocked == TRUE

Unlocked == mu = NoNode

Lock(n) == /\ Step(n, "lock", "write")
           /\ Unlocked
           /\ mu' = n
           /\ UNCHANGED <<route, config, at, todo, node, sem, wg, shared, heard, answer>>

\* Mutant: the last error wins, whatever it is.
MutPickErr(err) == err

\* A later Forbidden error replaces an earlier error, never the reverse.
PickErr(err) == IF lastErr = "nil" \/ err = "forbidden" THEN err ELSE lastErr

Write(n) ==
    /\ Step(n, "write", "unlock")
    /\ IF heard[n] = "ok"
       THEN /\ results' = [m \in DOMAIN results \cup {n} |-> 0]
            /\ anyOK' = TRUE
            /\ UNCHANGED lastErr
       ELSE /\ lastErr' = PickErr(heard[n])
            /\ UNCHANGED <<results, anyOK>>
    /\ UNCHANGED <<route, config, at, todo, node, sem, wg, mu, heard, answer>>

Unlock(n) == /\ Step(n, "unlock", "release")
             /\ mu' = NoNode
             /\ UNCHANGED <<route, config, at, todo, node, sem, wg, shared, heard, answer>>

\* Mutant: a goroutine that failed keeps its slot.
MutSlotsLeft(n) == IF heard[n] = "ok" THEN sem - 1 ELSE sem

SlotsLeft(n) == sem - 1

FreeSlot(n) == /\ Step(n, "release", "done")
               /\ sem' = SlotsLeft(n)
               /\ UNCHANGED <<route, config, at, todo, node, wg, mu, shared, heard, answer>>

Done(n) == /\ Step(n, "done", "ended")
           /\ wg' = wg - 1
           /\ UNCHANGED <<route, config, at, todo, node, sem, mu, shared, heard, answer>>

Goroutine(n) == \/ \E reply \in Replies : CallRoute(n, reply)
                \/ Lock(n) \/ Write(n) \/ Unlock(n) \/ FreeSlot(n) \/ Done(n)

PollGoroutine == (\E n \in Nodes : AddToGroup(n)) \/ Spawn \/ StartWaiting \/ Return

Next == PollGoroutine \/ \E n \in Nodes : Goroutine(n)

\* The Go scheduler runs every goroutine that can run, and a
\* route call ends within its 10 s timeout.
Fairness == /\ WF_vars(PollGoroutine)
            /\ \A n \in Nodes : WF_vars(Goroutine(n))

Spec == Init /\ [][Next]_vars /\ Fairness

-----------------------------------------------------------------------------
\* fanOut, diskFetchConcurrency: however the goroutines interleave, no more
\* than diskFetchConcurrency requests to kubelets are under way at once.
BoundedConcurrency ==
    Cardinality({n \in Nodes : goroutine[n] = "route"}) <= diskFetchConcurrency

\* fanOut: results, anyOK and lastErr are written under the mutex, and read by
\* the poll goroutine only when nobody can write them any more.
NoRaceOnResults ==
    LET writers == {n \in Nodes : goroutine[n] = "write"}
    IN  /\ \A n \in writers : mu = n
        /\ at = "returned" => \A n \in Nodes : goroutine[n] = "ended"

\* fanOut: whatever the order of the answers, the caller gets the verdict that
\* is a function of the answers alone, once, and the fan-out does end.
Contract == INSTANCE FanOutContract
DeliversVerdict == Contract!Spec

\* newKubeletClient, "only insecureTLS gets through": a kubelet whose certificate
\* the cluster CA signed is read with the API server's configuration, whatever
\* name that pins; any other one only if verification is switched off, by the
\* flag or in the kubeconfig already.
ReadsTrustedKubelets ==
    LET cfg    == config[1]
        unsafe == config[2] \/ cfg.insecure
        sound  == cfg # nil /\ (config[2] \/ TransportFor(cfg) # nil)
    IN  \A n \in Nodes :
           kubeletAddress(n) # "" =>
              (fetchKubeletDisk(kubeletHTTP, n, "summary") = "ok"
                 <=> sound /\ (unsafe \/ (cfg.ca /\ n \notin SelfSigned)))

\* fanOut: the verdict handed out is the one on what these nodes really said.
VerdictOnAnswers == answer # NoAnswer => answer = Verdict(heard)
=============================================================================
