---------------------------- MODULE MCEndpoints ----------------------------
(* TLC's instance of Endpoints: two clients, and one address more than the  *)
(* roots can hold, so that addresses are reused as soon as they can be.     *)
EXTENDS Endpoints, TLC

CONSTANTS a1, a2, a3, a4, a5, c1, c2

MCAddresses == {a1, a2, a3, a4, a5}
MCClients   == {c1, c2}

Interchangeable == Permutations(MCAddresses) \cup Permutations(MCClients)
=============================================================================
