---------------------------- MODULE MCBusMaster ----------------------------
(* Instance of BusMaster for TLC: poll task, two writers, two restarters.  *)
EXTENDS BusMaster

=============================================================================
