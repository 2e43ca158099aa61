------------------------------- MODULE MCServer -------------------------------
(* TLC's instance of Server: one client that reads, one that may stall.     *)
EXTENDS Server

CONSTANTS reader, sleeper

MCClients == {reader, sleeper}
MCStalled == {sleeper}
=============================================================================
