------------------------------ MODULE MCRelay ------------------------------
(* Relay with two Hubs, room for one, and two requests of phones. *)
EXTENDS Relay, TLC

Symmetric == Permutations(Devices) \cup Permutations(Requests)
=============================================================================
