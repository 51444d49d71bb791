------------------------- MODULE MCRequestAdmission -------------------------
(***************************************************************************)
(* Interchangeable requests and signing keys.                              *)
(***************************************************************************)
EXTENDS RequestAdmission, TLC

Interchangeable == Permutations(Handlers) \cup Permutations(Kids)
=============================================================================
