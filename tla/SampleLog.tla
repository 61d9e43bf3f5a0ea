------------------------------ MODULE SampleLog ------------------------------
(***************************************************************************)
(* What the telemetry journal promises: a set of samples, known by their   *)
(* time stamps, that survives restarts.  Samples arrive in the order of    *)
(* time.  To make room, samples are given up that are among the Batch      *)
(* oldest, some of these or all, and the newest one never is.              *)
(***************************************************************************)
EXTENDS Naturals, FiniteSets

CONSTANTS Times, Batch

VARIABLE kept

SampleInit == kept = {}

Add(t) ==
    /\ \A k \in kept : k < t
    /\ kept' = kept \union {t}

(* The samples up to t.                                                    *)
UpTo(t) == {k \in kept : k <= t}

GiveUp(gone) ==
    /\ \A t \in gone : Cardinality(UpTo(t)) <= Batch
    /\ \E k \in kept \ gone : gone \subseteq UpTo(k)
    /\ kept' = kept \ gone

SampleNext ==
    \/ \E t \in Times : Add(t)
    \/ \E gone \in SUBSET kept : GiveUp(gone)

SampleSpec == SampleInit /\ [][SampleNext]_kept
=============================================================================
