------------------------------ MODULE DiskRoute ------------------------------
(***************************************************************************)
(* The two ways to read one node's disk (internal/collector/disk.go): the  *)
(* kubelet itself, or the API server's proxy to it.  Of a read the rest of *)
(* the collector tells apart three outcomes: live figures, a Forbidden     *)
(* error, and any other error, which counts as transient.                  *)
(***************************************************************************)
EXTENDS Naturals, Sequences

CONSTANTS
    Addresses,     \* node -> sequence of [type, address]: Node.Status.Addresses
    SelfSigned,    \* nodes whose kubelet certificate the cluster CA did not sign
    nil

\* What comes back from the other end of either route.
Replies == {"summary",     \* 200 with node filesystem stats
            "no fs stats", \* 200 that does not parse, or without a capacity
            "401", "403",
            "other status",
            "no answer"}   \* connection error, cut-off body or 10 s timeout

\* parseSummary: the figures of a summary without node fs stats are an error.
parseSummary(reply) == IF reply = "summary" THEN "ok" ELSE "transient"

\* The address the API server itself would use: the first non-empty one of the
\* most preferred type that has one.
kubeletAddress(node) ==
    LET ofType(t)  == SelectSeq(Addresses[node], LAMBDA a : a.type = t /\ a.address # "")
        candidates == ofType("InternalIP") \o ofType("ExternalIP") \o ofType("Hostname")
    IN  IF candidates = <<>> THEN "" ELSE Head(candidates).address

\* The TLS settings of an API client: is a CA given, is verification off, is a
\* server name pinned?  TransportFor refuses a CA for a check that is off.
TLSConfigs == [ca : BOOLEAN, insecure : BOOLEAN, serverName : BOOLEAN]
TransportFor(cfg) == IF cfg.ca /\ cfg.insecure THEN nil ELSE cfg

\* Mutant: the name pinned for the API server is kept.
MutNewKubeletClient(cfg, insecureTLS) ==
    IF cfg = nil THEN nil
    ELSE IF insecureTLS THEN TransportFor([cfg EXCEPT !.insecure = TRUE, !.ca = FALSE])
    ELSE TransportFor(cfg)

\* The client for the kubelets, from the API server's configuration.
newKubeletClient(cfg, insecureTLS) ==
    IF cfg = nil THEN nil
    ELSE IF insecureTLS THEN TransportFor([ca |-> FALSE, insecure |-> TRUE, serverName |-> FALSE])
    ELSE TransportFor([cfg EXCEPT !.serverName = FALSE])

\* No kubelet goes by the API server's name.
Handshake(client, node) ==
    \/ client.insecure
    \/ client.ca /\ ~client.serverName /\ node \notin SelfSigned

\* A 401 is reported as Forbidden too; without a client or an address no
\* request is made at all, and without a handshake none is sent.
fetchKubeletDisk(client, node, reply) ==
    IF client = nil \/ kubeletAddress(node) = "" THEN "transient"
    ELSE IF ~Handshake(client, node) THEN "transient"
    ELSE IF reply \in {"401", "403"} THEN "forbidden"
    ELSE IF reply \in {"other status", "no answer"} THEN "transient"
    ELSE parseSummary(reply)

\* The API server's own status error is returned as it is: of 401 and 403 only
\* the latter is a Forbidden error.
fetchProxyDisk(reply) ==
    IF reply = "403" THEN "forbidden"
    ELSE IF reply \in {"401", "other status", "no answer"} THEN "transient"
    ELSE parseSummary(reply)
=============================================================================
