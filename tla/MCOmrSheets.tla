---------------------------- MODULE MCOmrSheets -----------------------------
(***************************************************************************)
(* Small instances of OmrSheets for TLC: two papers of one prisoner, so    *)
(* that a token can be scanned twice and a form reissued.  The safety run  *)
(* identifies states that differ in the names of sheets and forms; the     *)
(* progress run, whose property symmetry would not preserve, does not.     *)
(***************************************************************************)
EXTENDS OmrSheets, TLC

CONSTANTS s1, s2, f1, f2

Symmetric == Permutations({s1, s2}) \cup Permutations({f1, f2})
=============================================================================
