-------------------------- MODULE MCScannerIngestion --------------------------
(* Two names, a page that aligns, one that does not, and one that does not decode. *)
EXTENDS ScannerIngestion
=============================================================================
