----------------------------- MODULE MCCollector -----------------------------
(* TLC's instance of Collector: a node and a pod that come and go, and each *)
(* signal with everything it does while the other is switched off.  Nobody  *)
(* subscribes: what subscribers see is module Server's question.            *)
EXTENDS Collector

CONSTANTS n1, p1

MCNodes    == {n1}
MCPods     == {p1}
Nobody     == {}
OneAtATime == {<<TRUE, "off">>, <<FALSE, "kubelet">>}
=============================================================================
