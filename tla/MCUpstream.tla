----------------------------- MODULE MCUpstream ----------------------------
(***************************************************************************)
(* Instances of Upstream for TLC.                                          *)
(***************************************************************************)
EXTENDS Upstream
=============================================================================
