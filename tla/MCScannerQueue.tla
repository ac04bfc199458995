--------------------------- MODULE MCScannerQueue ---------------------------
(***************************************************************************)
(* A small instance of ScannerQueue for TLC: two pages and two workers.    *)
(* Symmetry would not preserve the liveness property, so none is declared. *)
(***************************************************************************)
EXTENDS ScannerQueue

CONSTANTS p1, p2, w1, w2
=============================================================================
