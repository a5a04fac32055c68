--------------------------- MODULE MCMessageQueue ---------------------------
(***************************************************************************)
(* Instances of MessageQueue for TLC.                                      *)
(***************************************************************************)
EXTENDS MessageQueue, TLC

ClientSymmetry == Permutations(Clients)
=============================================================================
