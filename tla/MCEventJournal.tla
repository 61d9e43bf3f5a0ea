--------------------------- MODULE MCEventJournal ---------------------------
(***************************************************************************)
(* The event journal for TLC: after the first failing flash operation a    *)
(* behaviour is cut off at fewer events.                                   *)
(***************************************************************************)
EXTENDS EventJournal

CONSTANT MaxFailingId

BoundedNext == Next /\ (sound' \/ nextId' <= MaxFailingId + 1)

BoundedSpec == Init /\ [][BoundedNext]_vars
=============================================================================
