--------------------------- MODULE MCDesktopShell ---------------------------
(* Two backends over the life of the installation: the second starts beside what the first left. *)
EXTENDS DesktopShell
=============================================================================
