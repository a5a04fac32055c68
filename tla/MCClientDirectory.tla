------------------------- MODULE MCClientDirectory --------------------------
(***************************************************************************)
(* Instances of ClientDirectory for TLC.                                   *)
(***************************************************************************)
EXTENDS ClientDirectory, TLC

VtokenSymmetry == Permutations(Vtokens)
=============================================================================
