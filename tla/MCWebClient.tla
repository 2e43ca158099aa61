----------------------------- MODULE MCWebClient -----------------------------
(* TLC's instances of WebClient: snapshots that differ in what render looks *)
(* at.  On most clusters every node runs a pod (a DaemonSet's, say); Bare   *)
(* has a node that runs none.                                               *)
EXTENDS WebClient

CONSTANTS n1, n2, f1, f2

MCNodes   == {n1, n2}
OneFetch  == {f1}
TwoFetches == {f1, f2}

Snap(nodes, bare, metrics, disk, capacity) ==
    [nodes |-> nodes, bare |-> bare, metrics |-> metrics, disk |-> disk,
     capacity |-> capacity]

Full  == Snap({n1, n2}, {}, TRUE, TRUE, TRUE)
Lame  == Snap({n1}, {}, FALSE, FALSE, FALSE)
Drain == Snap({n2}, {}, TRUE, FALSE, TRUE)
Bare  == Snap({n1, n2}, {n2}, TRUE, TRUE, TRUE)

Populated == {Full, Lame, Drain}
WithBare  == {Full, Bare}
=============================================================================
