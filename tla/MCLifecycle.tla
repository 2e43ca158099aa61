----------------------------- MODULE MCLifecycle -----------------------------
(* TLC's instance of Lifecycle: every command line and all chart values,    *)
(* with two clients that open requests and streams.                         *)
EXTENDS Lifecycle

CONSTANTS c1, c2

MCClients == {c1, c2}
=============================================================================
