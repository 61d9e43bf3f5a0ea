------------------------- MODULE SafeRestartProofs -------------------------
(***************************************************************************)
(* Proofs about the bus master and the safe restart composed from it, for  *)
(* any sets of tasks.                                                      *)
(***************************************************************************)
EXTENDS SafeRestart, TLAPS

-----------------------------------------------------------------------------
(* The bus master, for any number of writers and restarters                *)

(* The initial state satisfies the inductive invariant.                    *)
LEMMA BusInitInv == BusInit => BusInv
  <1> SUFFICES ASSUME BusInit PROVE BusInv
    OBVIOUS
  <1> USE TasksAssumption DEF BusInit, Tasks, Free, Poll
  <1>1. /\ pc = [t \in Tasks |-> IF t = Poll THEN "none" ELSE "idle"]
        /\ pc[Poll] = "none"
        /\ \A w \in Writers : pc[w] = "idle"
        /\ \A r \in Restarters : pc[r] = "idle"
    OBVIOUS
  <1>2. pc \in [Tasks -> PollPhases \cup WriterPhases \cup RestarterPhases]
    BY <1>1 DEF PollPhases, WriterPhases, RestarterPhases
  <1>3. BusTypeOK
    BY <1>1, <1>2 DEF BusTypeOK, PollPhases, WriterPhases, RestarterPhases
  <1>4. MutexInv
    BY <1>1 DEF MutexInv, HoldsBus
  <1>5. ActivationInv /\ ReleaseInv
    BY <1>1 DEF ActivationInv, ReleaseInv
  <1>6. LateInv /\ TruncatedOnlyIfForced
    BY <1>1 DEF LateInv, TruncatedOnlyIfForced
  <1> QED
    BY <1>3, <1>4, <1>5, <1>6 DEF BusInv

(* Every step of the boot sequence, the poll task, a writer or a           *)
(* restarter, and the reboot itself, preserves the inductive invariant.    *)
LEMMA BusNextInv == BusInv /\ [BusNext]_busVars => BusInv'
  <1> SUFFICES ASSUME BusInv, [BusNext]_busVars PROVE BusInv'
    OBVIOUS
  <1> USE TasksAssumption
      DEF BusInv, BusTypeOK, MutexInv, ActivationInv, ReleaseInv, LateInv,
          TruncatedOnlyIfForced, HoldsBus, Tasks, Free, Poll, PollPhases, WriterPhases,
          RestarterPhases, Running, Served, Goto, history, flags
  <1>1. CASE DriveDeLowEarly
    BY <1>1 DEF DriveDeLowEarly
  <1>2. CASE MasterInit
    BY <1>2 DEF MasterInit
  <1>3. CASE Start
    <2>1. BusTypeOK'
      BY <1>3 DEF Start
    <2>2. MutexInv'
      BY <1>3 DEF Start
    <2>3. ActivationInv'
      BY <1>3 DEF Start
    <2>4. ReleaseInv'
      BY <1>3 DEF Start
    <2>5. LateInv' /\ TruncatedOnlyIfForced'
      BY <1>3 DEF Start
    <2> QED
      BY <2>1, <2>2, <2>3, <2>4, <2>5
  <1>4. CASE CreatePollTask
    <2>1. BusTypeOK'
      BY <1>4 DEF CreatePollTask
    <2>2. MutexInv'
      BY <1>4 DEF CreatePollTask
    <2>3. ActivationInv'
      BY <1>4 DEF CreatePollTask
    <2>4. ReleaseInv'
      BY <1>4 DEF CreatePollTask
    <2>5. LateInv' /\ TruncatedOnlyIfForced'
      BY <1>4 DEF CreatePollTask
    <2> QED
      BY <2>1, <2>2, <2>3, <2>4, <2>5
  <1>5. CASE PollTake
    BY <1>5 DEF PollTake
  <1>6. CASE PollIngest
    BY <1>6 DEF PollIngest
  <1>7. CASE PollGive
    BY <1>7 DEF PollGive
  <1>8. ASSUME NEW t \in {Poll} \cup Writers, TxDone(t) \/ TxNext(t) PROVE BusInv'
    <2>1. BusTypeOK'
      BY <1>8 DEF TxDone, TxNext
    <2>2. MutexInv'
      BY <1>8 DEF TxDone, TxNext
    <2>3. ActivationInv'
      BY <1>8 DEF TxDone, TxNext
    <2>4. ReleaseInv'
      BY <1>8 DEF TxDone, TxNext
    <2>5. LateInv' /\ TruncatedOnlyIfForced'
      BY <1>8 DEF TxDone, TxNext
    <2> QED
      BY <2>1, <2>2, <2>3, <2>4, <2>5
  <1>9. ASSUME NEW w \in Writers, WriteCall(w) PROVE BusInv'
    BY <1>9 DEF WriteCall
  <1>10. ASSUME NEW w \in Writers, WriteTake(w) PROVE BusInv'
    BY <1>10 DEF WriteTake
  <1>11. ASSUME NEW w \in Writers, WriteRecheck(w) PROVE BusInv'
    <2>1. /\ w \in Tasks /\ bus = w
          /\ UNCHANGED <<main, s_initialized, s_active, s_blocked, s_shutdown, pin,
                         quiet, forced, truncated, lateTx>>
      BY <1>11 DEF WriteRecheck
    <2>2. CASE s_shutdown
      <3>1. bus' = Free /\ pc' = [pc EXCEPT ![w] = "idle"]
        BY <1>11, <2>2 DEF WriteRecheck
      <3>2. BusTypeOK' /\ ActivationInv' /\ ReleaseInv'
        BY <2>1, <3>1
      <3>3. MutexInv' /\ LateInv' /\ TruncatedOnlyIfForced'
        BY <2>1, <3>1
      <3> QED
        BY <3>2, <3>3
    <2>3. CASE ~s_shutdown
      <3>1. bus' = bus /\ pc' = [pc EXCEPT ![w] = "go"] /\ quiet /\ lateTx = 0
        BY <1>11, <2>3 DEF WriteRecheck
      <3>2. BusTypeOK' /\ ActivationInv' /\ ReleaseInv'
        BY <2>1, <3>1
      <3>3. MutexInv' /\ LateInv' /\ TruncatedOnlyIfForced'
        BY <2>1, <3>1
      <3> QED
        BY <3>2, <3>3
    <2> QED
      BY <2>2, <2>3
  <1>12. ASSUME NEW w \in Writers, WriteTx(w) PROVE BusInv'
    <2>1. BusTypeOK'
      BY <1>12 DEF WriteTx
    <2>2. MutexInv'
      BY <1>12 DEF WriteTx
    <2>3. ActivationInv'
      BY <1>12 DEF WriteTx
    <2>4. ReleaseInv'
      BY <1>12 DEF WriteTx
    <2>5. LateInv' /\ TruncatedOnlyIfForced'
      <3>1. /\ pc[w] = "go" /\ pc' = [pc EXCEPT ![w] = "tx"]
            /\ lateTx' = lateTx + (IF s_shutdown THEN 1 ELSE 0)
            /\ UNCHANGED <<s_shutdown, forced, truncated>>
        BY <1>12 DEF WriteTx
      <3>2. lateTx = 0
        BY <3>1
      <3>3. \A v \in Writers : pc'[v] # "go"
        BY <3>1
      <3>4. lateTx' <= 1 /\ (~s_shutdown' => lateTx' = 0)
        BY <3>1, <3>2
      <3> QED
        BY <3>1, <3>3, <3>4
    <2> QED
      BY <2>1, <2>2, <2>3, <2>4, <2>5
  <1>13. ASSUME NEW w \in Writers, WriteGive(w) PROVE BusInv'
    BY <1>13 DEF WriteGive
  <1>14. ASSUME NEW r \in Restarters, BeginShutdown(r) PROVE BusInv'
    BY <1>14 DEF BeginShutdown
  <1>15. ASSUME NEW r \in Restarters, QuiesceBegin(r) PROVE BusInv'
    BY <1>15 DEF QuiesceBegin
  <1>16. ASSUME NEW r \in Restarters, QuiesceTake(r) PROVE BusInv'
    BY <1>16 DEF QuiesceTake
  <1>17. ASSUME NEW r \in Restarters, QuiesceTimeout(r) PROVE BusInv'
    BY <1>17 DEF QuiesceTimeout
  <1>18. ASSUME NEW r \in Restarters, ReleaseBus(r) PROVE BusInv'
    BY <1>18 DEF ReleaseBus, OnWire
  <1>19. ASSUME NEW r \in Restarters, Reset(r) PROVE BusInv'
    BY <1>19 DEF Reset
  <1>20. CASE PowerOn
    <2>1. BusInit'
      BY <1>20 DEF PowerOn, BusInit
    <2> QED
      BY <2>1, BusInitInv, PTL
  <1>21. CASE UNCHANGED busVars
    BY <1>21 DEF busVars
  <1> QED
    BY <1>1, <1>2, <1>3, <1>4, <1>5, <1>6, <1>7, <1>8, <1>9, <1>10, <1>11, <1>12, <1>13,
       <1>14, <1>15, <1>16, <1>17, <1>18, <1>19, <1>20, <1>21
    DEF BusNext, BootStep, PollStep, WriterStep, RestarterStep

(* For any number of writers and restarters the bus master keeps its       *)
(* inductive invariant in every reachable state.                           *)
THEOREM BusInvariant == BusSpec => []BusInv
  <1>1. BusInit => BusInv
    BY BusInitInv
  <1>2. BusInv /\ [BusNext]_busVars => BusInv'
    BY BusNextInv
  <1> QED
    BY <1>1, <1>2, PTL DEF BusSpec

(* Type correctness of the bus master.                                     *)
THEOREM BusTypeCorrect == BusSpec => []BusTypeOK
  <1>1. BusInv => BusTypeOK
    BY DEF BusInv
  <1> QED
    BY <1>1, BusInvariant, PTL

(* The half-duplex bus is driven by one transaction at a time.             *)
THEOREM BusOneTransaction == BusSpec => []OneTransaction
  <1>1. BusInv => OneTransaction
    BY DEF BusInv, MutexInv, HoldsBus, OneTransaction, InTransaction
  <1> QED
    BY <1>1, BusInvariant, PTL

(* No frame reaches the wire before the preflight found the bus idle.      *)
THEOREM BusSoleMaster == BusSpec => []SoleMaster
  <1>1. BusInv => SoleMaster
    BY TasksAssumption
    DEF BusInv, BusTypeOK, ActivationInv, SoleMaster, OnWire, Tasks, RestarterPhases
  <1> QED
    BY <1>1, BusInvariant, PTL

(* After a reboot is committed at most one more control write goes out.    *)
THEOREM BusAtMostOneLateWrite == BusSpec => []AtMostOneLateWrite
  <1>1. BusInv => AtMostOneLateWrite
    BY DEF BusInv, LateInv, AtMostOneLateWrite
  <1> QED
    BY <1>1, BusInvariant, PTL

(* A restarter that obtained the mutex resets the device with a quiet bus. *)
THEOREM BusCleanHandoff == BusSpec => []CleanHandoff
  <1>1. BusInv => CleanHandoff
    <2> SUFFICES ASSUME BusInv, NEW r \in Restarters,
                        pc[r] = "released", r \notin forced, s_initialized
                 PROVE  pin = "low" /\ \A t \in Tasks : ~InTransaction(t)
      BY DEF CleanHandoff
    <2>1. bus = r /\ pin = "low"
      BY DEF BusInv, MutexInv, ReleaseInv
    <2>2. ASSUME NEW t \in Tasks, InTransaction(t) PROVE FALSE
      <3>1. bus = t
        BY <2>2 DEF BusInv, MutexInv, HoldsBus, InTransaction
      <3>2. pc[r] \in {"go", "tx", "rx", "ingest"}
        BY <2>1, <2>2, <3>1 DEF InTransaction
      <3> QED
        BY <3>2
    <2> QED
      BY <2>1, <2>2
  <1> QED
    BY <1>1, BusInvariant, PTL

(* Only a wait that timed out lets a restarter cut a frame.                *)
THEOREM BusTruncatedOnlyIfForced == BusSpec => []TruncatedOnlyIfForced
  <1>1. BusInv => TruncatedOnlyIfForced
    BY DEF BusInv
  <1> QED
    BY <1>1, BusInvariant, PTL

(* After a hand-off, forced or not, the transceiver stays silent.          *)
THEOREM BusSilentAfterRelease == BusSpec => []SilentAfterRelease
  <1>1. BusInv => SilentAfterRelease
    BY DEF BusInv, ReleaseInv, SilentAfterRelease, OnWire
  <1> QED
    BY <1>1, BusInvariant, PTL

-----------------------------------------------------------------------------
(* The safe restart                                                        *)

(* Every step of the composed system is a step of the bus master or leaves *)
(* its variables alone.                                                    *)
THEOREM SafeRestartImplementsBusMaster == Spec => ImplementsBusMaster
  <1>1. Init => BusInit
    BY DEF Init
  <1>2. [Next]_vars => [BusNext]_busVars
    <2> SUFFICES ASSUME [Next]_vars PROVE BusNext \/ UNCHANGED busVars
      OBVIOUS
    <2>1. CASE BusStep
      BY <2>1
      DEF BusStep, QuietBusStep, BusNext, PollStep, RestarterStep
    <2>2. ASSUME NEW t \in JournalTasks, JournalStep(t) PROVE UNCHANGED busVars
      BY <2>2 DEF JournalStep, EventWant, EventTake, EventGate, FlashBegin, EventOpEnd
    <2>3. ASSUME NEW t \in RawWriters, RawStep(t) PROVE UNCHANGED busVars
      BY <2>3 DEF RawStep, RawWant, FlashBegin, RawOpEnd
    <2>4. CASE RecorderStep
      BY <2>4
      DEF RecorderStep, RecorderStart, RecorderWake, RecorderGate, RecorderTake, RecorderHeld,
          FlashBegin, RecorderOpEnd, RecorderClearHandle, RecorderSignal
    <2>5. ASSUME NEW r \in SafeTasks, SafeStep(r) PROVE Reset(r) \/ UNCHANGED busVars
      BY <2>5
      DEF SafeStep, FlushLedger, FlashBegin, RestarterOpEnd, StopRecorder, JoinRecorder,
          BeginReboot, DrainTelemetry, LockFlash, SafeReset
    <2>6. ASSUME NEW r \in FactoryTasks, FactoryStep(r) PROVE Reset(r) \/ UNCHANGED busVars
      BY <2>6
      DEF FactoryStep, StopRecorder, JoinRecorder, PrepareTelemetryReset, PrepareEventReset,
          FlashBegin, RestarterOpEnd, FactoryReset
    <2>7. ASSUME NEW r \in Restarters, Reset(r) PROVE BusNext
      BY <2>7 DEF BusNext, RestarterStep
    <2>8. CASE Reboot
      BY <2>8 DEF Reboot, BusNext
    <2>9. CASE UNCHANGED vars
      BY <2>9 DEF vars
    <2> QED
      BY <2>1, <2>2, <2>3, <2>4, <2>5, <2>6, <2>7, <2>8, <2>9, FlashTasksAssumption
      DEF Next, SafeTasks
  <1> QED
    BY <1>1, <1>2, PTL DEF Spec, ImplementsBusMaster, BusSpec

(* The initial state satisfies the inductive invariant.                    *)
LEMMA FlashInitInv == FlashInit => FlashInv
  <1> SUFFICES ASSUME FlashInit PROVE FlashInv
    OBVIOUS
  <1> USE FlashTasksAssumption DEF FlashInit, FlashTasks, JournalTasks, Recorder, Poll, Free
  <1>1. /\ fpc = [t \in FlashTasks |-> IF t = Recorder THEN "none" ELSE "idle"]
        /\ fpc[Recorder] = "none"
        /\ \A t \in FlashTasks : fpc[t] \in {"none", "idle"}
    OBVIOUS
  <1>2. FlashTypeOK
    BY <1>1 DEF FlashTypeOK, FlashPhases
  <1>3. FlashLockInv /\ JournalMutexInv /\ ResetGateInv
    BY <1>1 DEF FlashLockInv, JournalMutexInv, ResetGateInv
  <1> QED
    BY <1>2, <1>3 DEF FlashInv

(* Moving one task to another phase keeps the type of fpc.                 *)
LEMMA FGotoType ==
  ASSUME fpc \in [FlashTasks -> FlashPhases], NEW t \in FlashTasks,
         \E p \in FlashPhases : FGoto(t, p)
  PROVE  fpc' \in [FlashTasks -> FlashPhases]
  BY DEF FGoto

(* Every step of a flash user, of a restarter and of the bus preserves it. *)
LEMMA FlashNextInv == FlashInv /\ [Next]_vars => FlashInv'
  <1> SUFFICES ASSUME FlashInv, [Next]_vars PROVE FlashInv'
    OBVIOUS
  <1> USE FlashTasksAssumption
      DEF FlashTasks, JournalTasks, SafeTasks, Recorder, Poll, Free, FGoto, recorderCtl, gates
  <1>1. ASSUME NEW t \in JournalTasks, EventWant(t) PROVE FlashInv'
    <2>1. FlashTypeOK'
      BY <1>1 DEF EventWant, FlashInv, FlashTypeOK, FlashPhases
    <2>2. FlashLockInv'
      BY <1>1 DEF EventWant, FlashInv, FlashTypeOK, FlashLockInv
    <2>3. JournalMutexInv'
      BY <1>1 DEF EventWant, FlashInv, FlashTypeOK, JournalMutexInv
    <2>4. ResetGateInv'
      BY <1>1 DEF EventWant, FlashInv, FlashTypeOK, JournalMutexInv, ResetGateInv
    <2> QED
      BY <2>1, <2>2, <2>3, <2>4 DEF FlashInv
  <1>2. ASSUME NEW t \in JournalTasks, EventTake(t) PROVE FlashInv'
    <2>1. FlashTypeOK'
      BY <1>2 DEF EventTake, FlashInv, FlashTypeOK, FlashPhases
    <2>2. FlashLockInv'
      BY <1>2 DEF EventTake, FlashInv, FlashTypeOK, FlashLockInv
    <2>3. JournalMutexInv'
      BY <1>2 DEF EventTake, FlashInv, FlashTypeOK, JournalMutexInv
    <2>4. ResetGateInv'
      BY <1>2 DEF EventTake, FlashInv, FlashTypeOK, JournalMutexInv, ResetGateInv
    <2> QED
      BY <2>1, <2>2, <2>3, <2>4 DEF FlashInv
  <1>3. ASSUME NEW t \in JournalTasks, EventGate(t) PROVE FlashInv'
    <2>1. FlashTypeOK'
      BY <1>3 DEF EventGate, FlashInv, FlashTypeOK, FlashPhases
    <2>2. FlashLockInv'
      BY <1>3 DEF EventGate, FlashInv, FlashTypeOK, FlashLockInv
    <2>3. JournalMutexInv'
      BY <1>3 DEF EventGate, FlashInv, FlashTypeOK, JournalMutexInv
    <2>4. ResetGateInv'
      <3>1. CASE s_storage_ready /\ ~s_reboot_pending
        BY <1>3, <3>1 DEF EventGate, FlashInv, FlashTypeOK, ResetGateInv
      <3>2. CASE ~(s_storage_ready /\ ~s_reboot_pending)
        BY <1>3, <3>2 DEF EventGate, FlashInv, FlashTypeOK, ResetGateInv
      <3> QED
        BY <3>1, <3>2
    <2> QED
      BY <2>1, <2>2, <2>3, <2>4 DEF FlashInv
  <1>4. ASSUME NEW t \in JournalTasks, EventOpEnd(t) PROVE FlashInv'
    <2>1. FlashTypeOK'
      BY <1>4 DEF EventOpEnd, FlashInv, FlashTypeOK, FlashPhases
    <2>2. FlashLockInv'
      BY <1>4 DEF EventOpEnd, FlashInv, FlashTypeOK, FlashLockInv
    <2>3. JournalMutexInv'
      BY <1>4 DEF EventOpEnd, FlashInv, FlashTypeOK, JournalMutexInv
    <2>4. ResetGateInv'
      BY <1>4 DEF EventOpEnd, FlashInv, FlashTypeOK, JournalMutexInv, ResetGateInv
    <2> QED
      BY <2>1, <2>2, <2>3, <2>4 DEF FlashInv
  <1>5. ASSUME NEW t \in RawWriters, RawWant(t) PROVE FlashInv'
    <2>1. FlashTypeOK'
      BY <1>5 DEF RawWant, FlashInv, FlashTypeOK, FlashPhases
    <2>2. FlashLockInv'
      BY <1>5 DEF RawWant, FlashInv, FlashTypeOK, FlashLockInv
    <2>3. JournalMutexInv'
      BY <1>5 DEF RawWant, FlashInv, FlashTypeOK, JournalMutexInv
    <2>4. ResetGateInv'
      BY <1>5 DEF RawWant, FlashInv, FlashTypeOK, JournalMutexInv, ResetGateInv
    <2> QED
      BY <2>1, <2>2, <2>3, <2>4 DEF FlashInv
  <1>6. ASSUME NEW t \in RawWriters, RawOpEnd(t) PROVE FlashInv'
    <2>1. FlashTypeOK'
      BY <1>6 DEF RawOpEnd, FlashInv, FlashTypeOK, FlashPhases
    <2>2. FlashLockInv'
      BY <1>6 DEF RawOpEnd, FlashInv, FlashTypeOK, FlashLockInv
    <2>3. JournalMutexInv'
      BY <1>6 DEF RawOpEnd, FlashInv, FlashTypeOK, JournalMutexInv
    <2>4. ResetGateInv'
      BY <1>6 DEF RawOpEnd, FlashInv, FlashTypeOK, JournalMutexInv, ResetGateInv
    <2> QED
      BY <2>1, <2>2, <2>3, <2>4 DEF FlashInv
  <1>7. ASSUME NEW t \in FlashTasks, FlashBegin(t) PROVE FlashInv'
    <2>1. FlashTypeOK'
      BY <1>7 DEF FlashBegin, FlashInv, FlashTypeOK, FlashPhases
    <2>2. FlashLockInv'
      BY <1>7 DEF FlashBegin, FlashInv, FlashTypeOK, FlashLockInv
    <2>3. JournalMutexInv'
      BY <1>7 DEF FlashBegin, FlashInv, FlashTypeOK, JournalMutexInv
    <2>4. ResetGateInv'
      BY <1>7 DEF FlashBegin, FlashInv, FlashTypeOK, JournalMutexInv, ResetGateInv
    <2> QED
      BY <2>1, <2>2, <2>3, <2>4 DEF FlashInv
  <1>8. CASE RecorderStart
    <2>1. FlashTypeOK'
      BY <1>8 DEF RecorderStart, FlashInv, FlashTypeOK, FlashPhases
    <2>2. FlashLockInv'
      BY <1>8 DEF RecorderStart, FlashInv, FlashTypeOK, FlashLockInv
    <2>3. JournalMutexInv'
      BY <1>8 DEF RecorderStart, FlashInv, FlashTypeOK, JournalMutexInv
    <2>4. ResetGateInv'
      BY <1>8 DEF RecorderStart, FlashInv, FlashTypeOK, JournalMutexInv, ResetGateInv
    <2> QED
      BY <2>1, <2>2, <2>3, <2>4 DEF FlashInv
  <1>9. CASE RecorderWake
    <2>1. FlashTypeOK'
      <3>1. \E p \in FlashPhases : FGoto(Recorder, p)
        BY <1>9 DEF RecorderWake, FlashPhases
      <3>2. fpc' \in [FlashTasks -> FlashPhases]
        BY <3>1, FGotoType DEF FlashInv, FlashTypeOK
      <3> QED
        BY <1>9, <3>2 DEF RecorderWake, FlashInv, FlashTypeOK
    <2>2. FlashLockInv'
      BY <1>9 DEF RecorderWake, FlashInv, FlashTypeOK, FlashLockInv
    <2>3. JournalMutexInv'
      BY <1>9 DEF RecorderWake, FlashInv, FlashTypeOK, JournalMutexInv
    <2>4. ResetGateInv'
      BY <1>9 DEF RecorderWake, FlashInv, FlashTypeOK, JournalMutexInv, ResetGateInv
    <2> QED
      BY <2>1, <2>2, <2>3, <2>4 DEF FlashInv
  <1>10. CASE RecorderGate
    <2>1. FlashTypeOK'
      <3>1. \E p \in FlashPhases : FGoto(Recorder, p)
        BY <1>10 DEF RecorderGate, FlashPhases
      <3>2. fpc' \in [FlashTasks -> FlashPhases]
        BY <3>1, FGotoType DEF FlashInv, FlashTypeOK
      <3> QED
        BY <1>10, <3>2 DEF RecorderGate, FlashInv, FlashTypeOK
    <2>2. FlashLockInv'
      BY <1>10 DEF RecorderGate, FlashInv, FlashTypeOK, FlashLockInv
    <2>3. JournalMutexInv'
      BY <1>10 DEF RecorderGate, FlashInv, FlashTypeOK, JournalMutexInv
    <2>4. ResetGateInv'
      BY <1>10 DEF RecorderGate, FlashInv, FlashTypeOK, JournalMutexInv, ResetGateInv
    <2> QED
      BY <2>1, <2>2, <2>3, <2>4 DEF FlashInv
  <1>11. CASE RecorderTake
    <2>1. FlashTypeOK'
      BY <1>11 DEF RecorderTake, FlashInv, FlashTypeOK, FlashPhases
    <2>2. FlashLockInv'
      BY <1>11 DEF RecorderTake, FlashInv, FlashTypeOK, FlashLockInv
    <2>3. JournalMutexInv'
      BY <1>11 DEF RecorderTake, FlashInv, FlashTypeOK, JournalMutexInv
    <2>4. ResetGateInv'
      BY <1>11 DEF RecorderTake, FlashInv, FlashTypeOK, JournalMutexInv, ResetGateInv
    <2> QED
      BY <2>1, <2>2, <2>3, <2>4 DEF FlashInv
  <1>12. CASE RecorderHeld
    <2>1. FlashTypeOK'
      <3>1. \E p \in FlashPhases : FGoto(Recorder, p)
        BY <1>12 DEF RecorderHeld, FlashPhases
      <3>2. fpc' \in [FlashTasks -> FlashPhases]
        BY <3>1, FGotoType DEF FlashInv, FlashTypeOK
      <3> QED
        BY <1>12, <3>2 DEF RecorderHeld, FlashInv, FlashTypeOK
    <2>2. FlashLockInv'
      BY <1>12 DEF RecorderHeld, FlashInv, FlashTypeOK, FlashLockInv
    <2>3. JournalMutexInv'
      BY <1>12 DEF RecorderHeld, FlashInv, FlashTypeOK, JournalMutexInv
    <2>4. ResetGateInv'
      BY <1>12 DEF RecorderHeld, FlashInv, FlashTypeOK, JournalMutexInv, ResetGateInv
    <2> QED
      BY <2>1, <2>2, <2>3, <2>4 DEF FlashInv
  <1>13. CASE RecorderOpEnd
    <2>1. FlashTypeOK'
      <3>1. \E p \in FlashPhases : FGoto(Recorder, p)
        BY <1>13 DEF RecorderOpEnd, FlashPhases
      <3>2. fpc' \in [FlashTasks -> FlashPhases]
        BY <3>1, FGotoType DEF FlashInv, FlashTypeOK
      <3> QED
        BY <1>13, <3>2 DEF RecorderOpEnd, FlashInv, FlashTypeOK
    <2>2. FlashLockInv'
      BY <1>13 DEF RecorderOpEnd, FlashInv, FlashTypeOK, FlashLockInv
    <2>3. JournalMutexInv'
      BY <1>13 DEF RecorderOpEnd, FlashInv, FlashTypeOK, JournalMutexInv
    <2>4. ResetGateInv'
      BY <1>13 DEF RecorderOpEnd, FlashInv, FlashTypeOK, JournalMutexInv, ResetGateInv
    <2> QED
      BY <2>1, <2>2, <2>3, <2>4 DEF FlashInv
  <1>14. CASE RecorderClearHandle
    <2>1. FlashTypeOK'
      BY <1>14 DEF RecorderClearHandle, FlashInv, FlashTypeOK, FlashPhases
    <2>2. FlashLockInv'
      BY <1>14 DEF RecorderClearHandle, FlashInv, FlashTypeOK, FlashLockInv
    <2>3. JournalMutexInv'
      BY <1>14 DEF RecorderClearHandle, FlashInv, FlashTypeOK, JournalMutexInv
    <2>4. ResetGateInv'
      BY <1>14 DEF RecorderClearHandle, FlashInv, FlashTypeOK, JournalMutexInv, ResetGateInv
    <2> QED
      BY <2>1, <2>2, <2>3, <2>4 DEF FlashInv
  <1>15. CASE RecorderSignal
    <2>1. FlashTypeOK'
      BY <1>15 DEF RecorderSignal, FlashInv, FlashTypeOK, FlashPhases
    <2>2. FlashLockInv'
      BY <1>15 DEF RecorderSignal, FlashInv, FlashTypeOK, FlashLockInv
    <2>3. JournalMutexInv'
      BY <1>15 DEF RecorderSignal, FlashInv, FlashTypeOK, JournalMutexInv
    <2>4. ResetGateInv'
      BY <1>15 DEF RecorderSignal, FlashInv, FlashTypeOK, JournalMutexInv, ResetGateInv
    <2> QED
      BY <2>1, <2>2, <2>3, <2>4 DEF FlashInv
  <1>16. ASSUME NEW r \in Restarters, StopRecorder(r) PROVE FlashInv'
    <2>1. FlashTypeOK'
      BY <1>16 DEF StopRecorder, FlashInv, FlashTypeOK, FlashPhases
    <2>2. FlashLockInv'
      BY <1>16 DEF StopRecorder, FlashInv, FlashTypeOK, FlashLockInv
    <2>3. JournalMutexInv'
      BY <1>16 DEF StopRecorder, FlashInv, FlashTypeOK, JournalMutexInv
    <2>4. ResetGateInv'
      BY <1>16 DEF StopRecorder, FlashInv, FlashTypeOK, JournalMutexInv, ResetGateInv
    <2> QED
      BY <2>1, <2>2, <2>3, <2>4 DEF FlashInv
  <1>17. ASSUME NEW r \in Restarters, JoinRecorder(r) PROVE FlashInv'
    <2>1. FlashTypeOK'
      BY <1>17 DEF JoinRecorder, FlashInv, FlashTypeOK, FlashPhases
    <2>2. FlashLockInv'
      BY <1>17 DEF JoinRecorder, FlashInv, FlashTypeOK, FlashLockInv
    <2>3. JournalMutexInv'
      BY <1>17 DEF JoinRecorder, FlashInv, FlashTypeOK, JournalMutexInv
    <2>4. ResetGateInv'
      BY <1>17 DEF JoinRecorder, FlashInv, FlashTypeOK, JournalMutexInv, ResetGateInv
    <2> QED
      BY <2>1, <2>2, <2>3, <2>4 DEF FlashInv
  <1>18. ASSUME NEW r \in Restarters, RestarterOpEnd(r) PROVE FlashInv'
    <2>1. FlashTypeOK'
      BY <1>18 DEF RestarterOpEnd, FlashInv, FlashTypeOK, FlashPhases
    <2>2. FlashLockInv'
      BY <1>18 DEF RestarterOpEnd, FlashInv, FlashTypeOK, FlashLockInv
    <2>3. JournalMutexInv'
      BY <1>18 DEF RestarterOpEnd, FlashInv, FlashTypeOK, JournalMutexInv
    <2>4. ResetGateInv'
      BY <1>18 DEF RestarterOpEnd, FlashInv, FlashTypeOK, JournalMutexInv, ResetGateInv
    <2> QED
      BY <2>1, <2>2, <2>3, <2>4 DEF FlashInv
  <1>19. ASSUME NEW r \in SafeTasks, FlushLedger(r) PROVE FlashInv'
    <2>1. FlashTypeOK'
      <3>1. \E p \in FlashPhases : FGoto(r, p)
        BY <1>19 DEF FlushLedger, FlashPhases
      <3>2. fpc' \in [FlashTasks -> FlashPhases]
        BY <3>1, FGotoType DEF FlashInv, FlashTypeOK
      <3> QED
        BY <1>19, <3>2 DEF FlushLedger, FlashInv, FlashTypeOK
    <2>2. FlashLockInv'
      BY <1>19 DEF FlushLedger, FlashInv, FlashTypeOK, FlashLockInv
    <2>3. JournalMutexInv'
      BY <1>19 DEF FlushLedger, FlashInv, FlashTypeOK, JournalMutexInv
    <2>4. ResetGateInv'
      BY <1>19 DEF FlushLedger, FlashInv, FlashTypeOK, JournalMutexInv, ResetGateInv
    <2> QED
      BY <2>1, <2>2, <2>3, <2>4 DEF FlashInv
  <1>20. ASSUME NEW r \in SafeTasks, BeginReboot(r) PROVE FlashInv'
    <2>1. FlashTypeOK'
      BY <1>20 DEF BeginReboot, FlashInv, FlashTypeOK, FlashPhases
    <2>2. FlashLockInv'
      BY <1>20 DEF BeginReboot, FlashInv, FlashTypeOK, FlashLockInv
    <2>3. JournalMutexInv'
      BY <1>20 DEF BeginReboot, FlashInv, FlashTypeOK, JournalMutexInv
    <2>4. ResetGateInv'
      BY <1>20 DEF BeginReboot, FlashInv, FlashTypeOK, JournalMutexInv, ResetGateInv
    <2> QED
      BY <2>1, <2>2, <2>3, <2>4 DEF FlashInv
  <1>21. ASSUME NEW r \in SafeTasks, DrainTelemetry(r) PROVE FlashInv'
    <2>1. FlashTypeOK'
      BY <1>21 DEF DrainTelemetry, FlashInv, FlashTypeOK, FlashPhases
    <2>2. FlashLockInv'
      BY <1>21 DEF DrainTelemetry, FlashInv, FlashTypeOK, FlashLockInv
    <2>3. JournalMutexInv'
      BY <1>21 DEF DrainTelemetry, FlashInv, FlashTypeOK, JournalMutexInv
    <2>4. ResetGateInv'
      BY <1>21 DEF DrainTelemetry, FlashInv, FlashTypeOK, JournalMutexInv, ResetGateInv
    <2> QED
      BY <2>1, <2>2, <2>3, <2>4 DEF FlashInv
  <1>22. ASSUME NEW r \in SafeTasks, LockFlash(r) PROVE FlashInv'
    <2>1. FlashTypeOK'
      BY <1>22 DEF LockFlash, FlashInv, FlashTypeOK, FlashPhases
    <2>2. FlashLockInv'
      BY <1>22 DEF LockFlash, FlashInv, FlashTypeOK, FlashLockInv
    <2>3. JournalMutexInv'
      BY <1>22 DEF LockFlash, FlashInv, FlashTypeOK, JournalMutexInv
    <2>4. ResetGateInv'
      BY <1>22 DEF LockFlash, FlashInv, FlashTypeOK, JournalMutexInv, ResetGateInv
    <2> QED
      BY <2>1, <2>2, <2>3, <2>4 DEF FlashInv
  <1>23. ASSUME NEW r \in FactoryTasks, PrepareTelemetryReset(r) PROVE FlashInv'
    <2>1. FlashTypeOK'
      BY <1>23 DEF PrepareTelemetryReset, FlashInv, FlashTypeOK, FlashPhases
    <2>2. FlashLockInv'
      BY <1>23 DEF PrepareTelemetryReset, FlashInv, FlashTypeOK, FlashLockInv
    <2>3. JournalMutexInv'
      BY <1>23 DEF PrepareTelemetryReset, FlashInv, FlashTypeOK, JournalMutexInv
    <2>4. ResetGateInv'
      BY <1>23 DEF PrepareTelemetryReset, FlashInv, FlashTypeOK, JournalMutexInv, ResetGateInv
    <2> QED
      BY <2>1, <2>2, <2>3, <2>4 DEF FlashInv
  <1>24. ASSUME NEW r \in FactoryTasks, PrepareEventReset(r) PROVE FlashInv'
    <2>1. FlashTypeOK'
      BY <1>24 DEF PrepareEventReset, FlashInv, FlashTypeOK, FlashPhases
    <2>2. FlashLockInv'
      BY <1>24 DEF PrepareEventReset, FlashInv, FlashTypeOK, FlashLockInv
    <2>3. JournalMutexInv'
      BY <1>24 DEF PrepareEventReset, FlashInv, FlashTypeOK, JournalMutexInv
    <2>4. ResetGateInv'
      BY <1>24 DEF PrepareEventReset, FlashInv, FlashTypeOK, JournalMutexInv, ResetGateInv
    <2> QED
      BY <2>1, <2>2, <2>3, <2>4 DEF FlashInv
  <1>25. CASE UNCHANGED flashVars
    <2>1. FlashTypeOK'
      BY <1>25 DEF flashVars, FlashInv, FlashTypeOK, FlashPhases
    <2>2. FlashLockInv'
      BY <1>25 DEF flashVars, FlashInv, FlashTypeOK, FlashLockInv
    <2>3. JournalMutexInv'
      BY <1>25 DEF flashVars, FlashInv, FlashTypeOK, JournalMutexInv
    <2>4. ResetGateInv'
      BY <1>25 DEF flashVars, FlashInv, FlashTypeOK, JournalMutexInv, ResetGateInv
    <2> QED
      BY <2>1, <2>2, <2>3, <2>4 DEF FlashInv
  <1>26. CASE Reboot
    <2>1. FlashInit'
      BY <1>26 DEF Reboot, FlashInit
    <2> QED
      BY <2>1, FlashInitInv, PTL
  <1> QED
    BY <1>1, <1>2, <1>3, <1>4, <1>5, <1>6, <1>7, <1>8, <1>9, <1>10, <1>11, <1>12, <1>13, <1>14, <1>15, <1>16, <1>17, <1>18, <1>19, <1>20, <1>21, <1>22, <1>23, <1>24, <1>25, <1>26
    DEF Next, BusStep, JournalStep, RawStep, RecorderStep, SafeStep, FactoryStep, SafeReset,
        FactoryReset, vars

(* For any tasks the flash-side protocol keeps its inductive invariant.    *)
THEOREM FlashInvariant == Spec => []FlashInv
  <1>1. Init => FlashInv
    BY FlashInitInv DEF Init
  <1>2. FlashInv /\ [Next]_vars => FlashInv'
    BY FlashNextInv
  <1> QED
    BY <1>1, <1>2, PTL DEF Spec

(* The control points, mutexes and flags of the flash-side tasks keep their*)
(* types.                                                                  *)
THEOREM FlashTypeCorrect == Spec => []FlashTypeOK
  <1>1. FlashInv => FlashTypeOK
    BY DEF FlashInv
  <1> QED
    BY <1>1, FlashInvariant, PTL

(* A safe restart never resets the device under a flash operation.         *)
THEOREM SafeRestartFlashIdle == Spec => []SafeResetFlashIdle
  <1>1. FlashInv => SafeResetFlashIdle
    <2> SUFFICES ASSUME FlashInv, NEW r \in SafeTasks, fpc[r] = "locked",
                        NEW t \in FlashTasks, fpc[t] = "op"
                 PROVE  FALSE
      BY DEF SafeResetFlashIdle
    <2>1. r \in FlashTasks
      BY DEF SafeTasks, FlashTasks
    <2>2. flash = r /\ flash = t
      BY <2>1 DEF FlashInv, FlashLockInv
    <2> QED
      BY <2>2
  <1> QED
    BY <1>1, FlashInvariant, PTL

(* A factory reset erases the history partition with no writer under way.  *)
THEOREM FactoryEraseExclusive == Spec => []EraseExclusive
  <1>1. FlashInv => EraseExclusive
    BY DEF FlashInv, ResetGateInv, EraseExclusive, JournalTouchesFlash
  <1> QED
    BY <1>1, FlashInvariant, PTL

=============================================================================
