----------------------------- MODULE MCAdmission ----------------------------
(***************************************************************************)
(* Instances of Admission for TLC.                                         *)
(***************************************************************************)
EXTENDS Admission, TLC

AdmissionSymmetry == Permutations(Requests) \cup Permutations(Vtokens)
=============================================================================
