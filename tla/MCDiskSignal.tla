----------------------------- MODULE MCDiskSignal -----------------------------
(* TLC's instance of DiskSignal: two nodes, so that a fan-out can be        *)
(* answered in part, and a park that outlasts the refresh interval.         *)
EXTENDS DiskSignal

CONSTANTS n1, n2

MCNodes == {n1, n2}
=============================================================================
