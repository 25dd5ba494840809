------------------------------ MODULE MCNodes ------------------------------
(* Peer connections: one attempt to open a connection at a time, with one   *)
(* grant or without; a peer that may also call us, and memory for two nodes, *)
(* so that addresses are reused.                                             *)
EXTENDS Nodes

CONSTANTS n1, n2, opencon, peer
=============================================================================
