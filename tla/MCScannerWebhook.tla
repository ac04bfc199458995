------------------------- MODULE MCScannerWebhook ---------------------------
(***************************************************************************)
(* Small instances of ScannerWebhook for TLC: one document revision        *)
(* delivered under two event ids, and one of the ids with other bytes too. *)
(***************************************************************************)
EXTENDS ScannerWebhook

SomePayloads == {[event |-> "e1", doc |-> "d1", bytes |-> "a", date |-> 0],
                 [event |-> "e1", doc |-> "d1", bytes |-> "b", date |-> 0],
                 [event |-> "e2", doc |-> "d1", bytes |-> "c", date |-> 0],
                 [event |-> "e2", doc |-> "d1", bytes |-> "malformed", date |-> 0]}
=============================================================================
