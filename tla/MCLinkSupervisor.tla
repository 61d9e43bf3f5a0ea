-------------------------- MODULE MCLinkSupervisor --------------------------
(* Small instances of the link supervision for TLC.                        *)
EXTENDS LinkSupervisor
=============================================================================
