---------------------------- MODULE MCFrontDesk ----------------------------
(* Two catalogues: a price within its limit, and a higher price above it. *)
EXTENDS FrontDesk

Affordable == [price |-> 2, limit |-> 2, bank |-> TRUE]

TwoCatalogues == {Affordable, [price |-> 3, limit |-> 2, bank |-> TRUE]}
=============================================================================
