----------------------------- MODULE MCOtaUpdate -----------------------------
(* Small instances of the firmware update model for TLC.                   *)
EXTENDS OtaUpdate
=============================================================================
