------------------------------- MODULE MCFanOut -------------------------------
(* TLC's instance of FanOut: three nodes for two slots, so that the poll    *)
(* goroutine has to wait for one.  n1 reports its addresses out of order    *)
(* of preference, n2 only an empty one, n3 only a host name and a           *)
(* certificate of its own making.                                           *)
EXTENDS FanOut, TLC

CONSTANTS n1, n2, n3

MCNodes == {n1, n2, n3}

Addr(t, a) == [type |-> t, address |-> a]

MCAddresses == (n1 :> <<Addr("Hostname", "h"), Addr("InternalIP", ""), Addr("InternalIP", "i")>>)
            @@ (n2 :> <<Addr("InternalIP", "")>>)
            @@ (n3 :> <<Addr("Hostname", "h")>>)

MCSelfSigned == {n3}

\* No configuration at all, a pinned API server with and without the flag, and a
\* kubeconfig that verifies nothing.
Pinned     == [ca |-> TRUE, insecure |-> FALSE, serverName |-> TRUE]
Unverified == [ca |-> FALSE, insecure |-> TRUE, serverName |-> FALSE]
MCConfigs == {<<nil, FALSE>>, <<Pinned, FALSE>>, <<Pinned, TRUE>>, <<Unverified, FALSE>>}
=============================================================================
