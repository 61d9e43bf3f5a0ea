----------------------------- MODULE MCTelemetry -----------------------------
(***************************************************************************)
(* The telemetry journal for TLC.  part says what a behaviour has to face: *)
(* two losses of power and a failing write, a roll back to firmware of the *)
(* old record format and forward again, or as many failing writes in a row *)
(* as a sector has records.                                                *)
(***************************************************************************)
EXTENDS TelemetryQuery

VARIABLE part

Within(mf, mc, mo, mt) == faults' <= mf /\ cuts' <= mc /\ old' <= mo /\ want' <= mt

PartsInit == part \in {"cuts", "rollback", "worn"} /\ TelemetryInit

PartsNext ==
    /\ UNCHANGED part
    /\ TelemetryNext
    /\ \/ part = "cuts" /\ Within(1, 2, 0, MaxTime - 1)
       \/ part = "rollback" /\ Within(0, 2, MaxOld, MaxTime - 1)
       \/ part = "worn" /\ Within(MaxFaults, 1, 0, MaxTime - 2)

PartsSpec == PartsInit /\ [][PartsNext]_<<vars, part>>
=============================================================================
