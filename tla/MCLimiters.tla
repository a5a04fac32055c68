----------------------------- MODULE MCLimiters -----------------------------
(***************************************************************************)
(* An instance of Limiters for TLC.                                        *)
(***************************************************************************)
EXTENDS Limiters, TLC

LimiterSymmetry == Permutations(Threads) \cup Permutations(Keys)
=============================================================================
