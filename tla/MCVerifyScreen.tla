--------------------------- MODULE MCVerifyScreen ---------------------------
(* Three sheets of two prisoners and two days: one of each kind. *)
EXTENDS VerifyScreen

AllSheets == <<"s1", "s2", "s3">>

TwoDays == [s1 |-> "mon", s2 |-> "mon", s3 |-> "tue"]

DayRanges == {{"mon"}, {"tue"}}

Mixed == [s1 |-> "generic", s2 |-> "issued", s3 |-> "scanner"]

Owners == [s1 |-> "ann", s2 |-> "bob", s3 |-> "ann"]

EarlierOrders == {<<"ann", "mon">>, <<"ann", "tue">>, <<"bob", "mon">>}
=============================================================================
