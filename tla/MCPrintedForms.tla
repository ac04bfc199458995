--------------------------- MODULE MCPrintedForms ---------------------------
(***************************************************************************)
(* A small instance of PrintedForms for TLC.                               *)
(***************************************************************************)
EXTENDS PrintedForms, TLC

CONSTANTS u1, u2, j1, j2, l1, l2

\* A cell, and another that is known without its zone.
TwoPlaces == {[zone |-> "z1", cell |-> "c1"], [zone |-> Unset, cell |-> "c2"]}

Symmetric == Permutations({u1, u2}) \cup Permutations({l1, l2}) \cup Permutations({j1, j2})
=============================================================================
