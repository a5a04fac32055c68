----------------------------- MODULE MCDesktop -----------------------------
(***************************************************************************)
(* An instance of Desktop for TLC.                                         *)
(***************************************************************************)
EXTENDS Desktop

\* No settings, a loopback and an open ILINK_HUB_ADDR, a damaged file.
MCStarts == {<<None, None>>, <<2, None>>, <<Open, None>>, <<Open, Malformed>>}
=============================================================================
