------------------------------ MODULE MCLedgers ------------------------------
(***************************************************************************)
(* The two ledgers of the heat pump controller for TLC.  They share a task *)
(* and no state, so a behaviour is one of the run ledger or one of the     *)
(* energy ledger; part says which, and what that has to face: listings of  *)
(* the runs, or a clock that is set back and several readings at one time; *)
(* restarts, failing writes, or changes of zone and clock.                 *)
(***************************************************************************)
EXTENDS RunLedger, EnergyLedger

VARIABLE part

allVars == <<part, vars, ledgerVars>>

LedgersInit ==
    /\ part \in {"runs", "shifts", "crash", "faults", "zones"}
    /\ RunInit /\ LedgerInit
    /\ part # "zones" => zone = 0

Listings == ((prev # now /\ PollStep) \/ OtherStep) /\ shifts' = 0

Shifts == RunNext /\ seen' = NoList /\ now' <= 5

Crash == LedgerStep \/ EnergyRestart

Faults == (LedgerStep \/ LedgerFault \/ EnergyRestart) /\ starts' <= 2

Zoned == (LedgerStep \/ ClockChange) /\ starts' = 1 /\ quiet' <= 1 /\ time' <= 14

LedgersNext ==
    \/ part = "runs" /\ Listings /\ UNCHANGED <<part, ledgerVars>>
    \/ part = "shifts" /\ Shifts /\ UNCHANGED <<part, ledgerVars>>
    \/ part = "crash" /\ Crash /\ UNCHANGED <<part, vars>>
    \/ part = "faults" /\ Faults /\ UNCHANGED <<part, vars>>
    \/ part = "zones" /\ Zoned /\ UNCHANGED <<part, vars>>

LedgersSpec == LedgersInit /\ [][LedgersNext]_allVars

-----------------------------------------------------------------------------
(* What is stored of a run only grows: the copy of the open run taken      *)
(* ahead of a restart never overwrites a later one.  A listing misses only *)
(* what its two reads could not see.  What getEnergyTotals reports never   *)
(* falls while the device runs.                                            *)
LedgersGrow == StoredGrows /\ ListingMissesNone /\ TotalNeverFalls
=============================================================================
