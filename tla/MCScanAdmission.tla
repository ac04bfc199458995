-------------------------- MODULE MCScanAdmission --------------------------
(***************************************************************************)
(* A small instance of ScanAdmission for TLC.                              *)
(***************************************************************************)
EXTENDS ScanAdmission, TLC

CONSTANTS u1, u2, u3, a, b, k1, k2, k3

Symmetric == Permutations({u1, u2, u3}) \cup Permutations({a, b}) \cup Permutations({k1, k2, k3})
=============================================================================
