--------------------------- MODULE MCMetricsSignal ---------------------------
(* TLC's instance of MetricsSignal: two nodes, two pods, and a park that    *)
(* outlasts a few polls.                                                    *)
EXTENDS MetricsSignal

CONSTANTS n1, n2, p1, p2

MCNodes == {n1, n2}
MCPods  == {p1, p2}

=============================================================================
