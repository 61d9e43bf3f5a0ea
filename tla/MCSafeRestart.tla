--------------------------- MODULE MCSafeRestart ---------------------------
(* Instances of SafeRestart for TLC.                                       *)
EXTENDS SafeRestart

=============================================================================
