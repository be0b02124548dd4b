------------------------------ MODULE MCPubSub ------------------------------
(* A small instance of PubSub for TLC. *)
EXTENDS PubSub

CONSTANTS c1, c2, nobody, news, sport
=============================================================================
