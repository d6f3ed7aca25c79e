-------------------------- MODULE MCDiscoveryServer --------------------------
(* Instances of DiscoveryServer for TLC. *)
EXTENDS DiscoveryServer

CONSTANTS c1, c2, k1, k2

\* k1 is named by both clients, k2 by c1 only.
UsesMixed == [c \in Clients |-> IF c = c1 THEN {k1, k2} ELSE {k1}]

\* Every client may name every source.
UsesAll == [c \in Clients |-> Keys]
=============================================================================
