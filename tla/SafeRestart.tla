---------------------------- MODULE SafeRestart ----------------------------
(***************************************************************************)
(* The two ways the firmware reboots itself on purpose,                    *)
(* system_safe_restart() (main/system_restart.cpp) and factory_reset_task  *)
(* (main/factory_reset.cpp), composed with the bus master they quiesce and *)
(* with everything that programs flash meanwhile: the telemetry recorder   *)
(* (main/telemetry_history.cpp), tasks that record events                  *)
(* (main/event_log.cpp), the poll task, which records events from inside a *)
(* bus transaction, and tasks that write NVS or the debug log.             *)
(*                                                                         *)
(* A flash operation is "req" (waiting for the SPI-flash operation lock of *)
(* ESP-IDF) and then "op" (programming or erasing). What is written is the *)
(* subject of module EventJournal.                                         *)
(***************************************************************************)
EXTENDS BusMaster

CONSTANTS
    EventTasks,     \* tasks other than the poll task that call event_log_record()
    RawWriters,     \* tasks that commit NVS keys or flush the debug log
    FactoryTasks    \* the restarters that run factory_reset_task

Recorder == "recorder"

ASSUME FlashTasksAssumption ==
    /\ FactoryTasks \subseteq Restarters
    /\ EventTasks \cap (RawWriters \cup Restarters) = {}
    /\ RawWriters \cap Restarters = {}
    /\ {Recorder, Poll, Free} \cap (EventTasks \cup RawWriters \cup Restarters) = {}

SafeTasks    == Restarters \ FactoryTasks
JournalTasks == {Poll} \cup EventTasks
FlashTasks   == {Recorder} \cup JournalTasks \cup RawWriters \cup Restarters

VARIABLES
    fpc,             \* control point of every task on its flash path
    flash,           \* holder of the SPI-flash operation lock
    event_mutex,     \* holder of event_log.cpp's s_mutex
    tel_mutex,       \* holder of s_telemetry_mutex
    s_task,          \* the recorder's task handle is set
    s_stop_requested,
    s_stopped,       \* binary semaphore given by the exiting recorder
    s_reboot_pending,
    s_factory_reset_pending,
    s_storage_ready

flashVars == <<fpc, flash, event_mutex, tel_mutex, s_task, s_stop_requested, s_stopped,
               s_reboot_pending, s_factory_reset_pending, s_storage_ready>>
vars == <<busVars, flashVars>>

gates == <<s_reboot_pending, s_factory_reset_pending, s_storage_ready>>
recorderCtl == <<s_task, s_stop_requested, s_stopped>>

FlashInit ==
    /\ fpc = [t \in FlashTasks |-> IF t = Recorder THEN "none" ELSE "idle"]
    /\ flash = Free
    /\ event_mutex = Free
    /\ tel_mutex = Free
    /\ s_task = FALSE
    /\ s_stop_requested = FALSE
    /\ s_stopped = FALSE
    /\ s_reboot_pending = FALSE
    /\ s_factory_reset_pending = FALSE
    /\ s_storage_ready = TRUE

Init == BusInit /\ FlashInit

FGoto(t, phase) == fpc' = [fpc EXCEPT ![t] = phase]

-----------------------------------------------------------------------------
(* spi_flash_op_lock(), taken around every program or erase operation *)
FlashBegin(t) ==
    /\ Running
    /\ fpc[t] = "req"
    /\ flash = Free
    /\ flash' = t
    /\ FGoto(t, "op")
    /\ UNCHANGED <<busVars, event_mutex, tel_mutex, recorderCtl, gates>>

-----------------------------------------------------------------------------
(* event_log_record() *)

(* The poll task records events while it ingests a window.                 *)
EventWant(t) ==
    /\ Served
    /\ t = Poll => pc[Poll] = "ingest"
    /\ fpc[t] = "idle"
    /\ FGoto(t, "want")
    /\ UNCHANGED <<busVars, flash, event_mutex, tel_mutex, recorderCtl, gates>>

EventTake(t) ==
    /\ Running
    /\ fpc[t] = "want"
    /\ event_mutex = Free
    /\ event_mutex' = t
    /\ FGoto(t, "gate")
    /\ UNCHANGED <<busVars, flash, tel_mutex, recorderCtl, gates>>

(* Mutant: s_storage_ready is not consulted.                               *)
EventGateAlwaysReady(t) ==
    /\ Running
    /\ fpc[t] = "gate"
    /\ IF ~s_reboot_pending
       THEN FGoto(t, "req") /\ UNCHANGED event_mutex
       ELSE FGoto(t, "idle") /\ event_mutex' = Free
    /\ UNCHANGED <<busVars, flash, tel_mutex, recorderCtl, gates>>

(* s_storage_ready, then the s_reboot_pending test at the top of           *)
(* history_storage_append_event() and of history_storage_replace_events(). *)
EventGate(t) ==
    /\ Running
    /\ fpc[t] = "gate"
    /\ IF s_storage_ready /\ ~s_reboot_pending
       THEN FGoto(t, "req") /\ UNCHANGED event_mutex
       ELSE FGoto(t, "idle") /\ event_mutex' = Free
    /\ UNCHANGED <<busVars, flash, tel_mutex, recorderCtl, gates>>

(* A flash operation of the journal ended: the compaction has another one  *)
(* to do, or the append failed and the compaction starts (with its own     *)
(* test of the gate), or the event is stored or given up.                  *)
EventOpEnd(t) ==
    /\ Running
    /\ fpc[t] = "op"
    /\ flash' = Free
    /\ \/ FGoto(t, "req") /\ UNCHANGED event_mutex
       \/ FGoto(t, "gate") /\ UNCHANGED event_mutex
       \/ FGoto(t, "idle") /\ event_mutex' = Free
    /\ UNCHANGED <<busVars, tel_mutex, recorderCtl, gates>>

-----------------------------------------------------------------------------
(* NVS commits and debug-log snapshots: no gate at all *)
RawWant(t) ==
    /\ Served
    /\ fpc[t] = "idle"
    /\ FGoto(t, "req")
    /\ UNCHANGED <<busVars, flash, event_mutex, tel_mutex, recorderCtl, gates>>

RawOpEnd(t) ==
    /\ Running
    /\ fpc[t] = "op"
    /\ flash' = Free
    /\ FGoto(t, "idle")
    /\ UNCHANGED <<busVars, event_mutex, tel_mutex, recorderCtl, gates>>

-----------------------------------------------------------------------------
(* telemetry_history.cpp: recorder_task *)

(* telemetry_history_init(), called by app_main after the bus start. It    *)
(* clears s_stop_requested, also one set by a restart that came first. The *)
(* new task asks for the latest timestamp before it waits, which may       *)
(* initialise the ring: no gate is looked at on the way to the mutex.      *)
RecorderStart ==
    /\ main = "up"
    /\ fpc[Recorder] = "none"
    /\ s_task' = TRUE
    /\ s_stop_requested' = FALSE
    /\ FGoto(Recorder, "want")
    /\ UNCHANGED <<busVars, flash, event_mutex, tel_mutex, s_stopped, gates>>

(* The 30 s wait ended (by time or by the notification): leave the loop,   *)
(* or persist the energy ledger (to NVS) if there is anything to persist,  *)
(* and go on to the sample. Without a synced clock the task waits again.   *)
RecorderWake ==
    /\ Running
    /\ fpc[Recorder] = "wait"
    /\ IF s_stop_requested
       THEN FGoto(Recorder, "exit")
       ELSE FGoto(Recorder, "req") \/ FGoto(Recorder, "append")
    /\ UNCHANGED <<busVars, flash, event_mutex, tel_mutex, recorderCtl, gates>>

(* history_storage_append_telemetry(): the gate, before the mutex. The     *)
(* sample may also be dropped because the clock did not advance.           *)
RecorderGate ==
    /\ Running
    /\ fpc[Recorder] = "append"
    /\ \/ ~s_reboot_pending /\ FGoto(Recorder, "want")
       \/ FGoto(Recorder, "wait")
    /\ UNCHANGED <<busVars, flash, event_mutex, tel_mutex, recorderCtl, gates>>

RecorderTake ==
    /\ Running
    /\ fpc[Recorder] = "want"
    /\ tel_mutex = Free
    /\ tel_mutex' = Recorder
    /\ FGoto(Recorder, "held")
    /\ UNCHANGED <<busVars, flash, event_mutex, recorderCtl, gates>>

(* telemetry_initialize_locked() refuses once a factory reset is pending;  *)
(* the reboot gate is not looked at again. A ring already initialised      *)
(* needs no flash operation to give its latest timestamp.                  *)
RecorderHeld ==
    /\ Running
    /\ fpc[Recorder] = "held"
    /\ \/ ~s_factory_reset_pending /\ FGoto(Recorder, "req") /\ UNCHANGED tel_mutex
       \/ FGoto(Recorder, "wait") /\ tel_mutex' = Free
    /\ UNCHANGED <<busVars, flash, event_mutex, recorderCtl, gates>>

(* With the telemetry mutex held the operation belongs to the append or to *)
(* the initialisation (each takes several); otherwise it was the ledger's. *)
RecorderOpEnd ==
    /\ Running
    /\ fpc[Recorder] = "op"
    /\ flash' = Free
    /\ IF tel_mutex = Recorder
       THEN \/ FGoto(Recorder, "req") /\ UNCHANGED tel_mutex
            \/ FGoto(Recorder, "wait") /\ tel_mutex' = Free
       ELSE FGoto(Recorder, "append") /\ UNCHANGED tel_mutex
    /\ UNCHANGED <<busVars, event_mutex, recorderCtl, gates>>

(* s_task = nullptr, and then the semaphore.                               *)
RecorderClearHandle ==
    /\ Running
    /\ fpc[Recorder] = "exit"
    /\ s_task' = FALSE
    /\ FGoto(Recorder, "signal")
    /\ UNCHANGED <<busVars, flash, event_mutex, tel_mutex, s_stop_requested, s_stopped, gates>>

RecorderSignal ==
    /\ Running
    /\ fpc[Recorder] = "signal"
    /\ s_stopped' = TRUE
    /\ FGoto(Recorder, "dead")
    /\ UNCHANGED <<busVars, flash, event_mutex, tel_mutex, s_task, s_stop_requested, gates>>

-----------------------------------------------------------------------------
(* Restarters: what both kinds do *)

(* telemetry_history_stop(): request the stop and, if there is a task,     *)
(* wait up to 5 s for its semaphore. The safe restart stops the recorder   *)
(* after the bus hand-off, the factory reset right after begin_shutdown(). *)
StopRecorder(r) ==
    /\ Running
    /\ IF r \in FactoryTasks
       THEN pc[r] = "committed" /\ fpc[r] = "idle"
       ELSE pc[r] = "released" /\ fpc[r] = "flushed"
    /\ s_stop_requested' = TRUE
    /\ FGoto(r, IF s_task THEN "joining" ELSE "stopped")
    /\ UNCHANGED <<busVars, flash, event_mutex, tel_mutex, s_task, s_stopped, gates>>

(* Mutant: the semaphore is awaited without a timeout.                     *)
JoinRecorderForever(r) ==
    /\ Running
    /\ fpc[r] = "joining"
    /\ s_stopped
    /\ s_stopped' = FALSE
    /\ FGoto(r, "stopped")
    /\ UNCHANGED <<busVars, flash, event_mutex, tel_mutex, s_task, s_stop_requested, gates>>

(* The semaphore is taken, or the wait timed out and it was not given.     *)
JoinRecorder(r) ==
    /\ Running
    /\ fpc[r] = "joining"
    /\ s_stopped' = FALSE
    /\ FGoto(r, "stopped")
    /\ UNCHANGED <<busVars, flash, event_mutex, tel_mutex, s_task, s_stop_requested, gates>>

(* The flash operation of a restarter ended: today's energy total is saved *)
(* (safe restart), or one more range is erased (factory reset).            *)
RestarterOpEnd(r) ==
    /\ Running
    /\ fpc[r] = "op"
    /\ flash' = Free
    /\ IF r \in FactoryTasks
       THEN FGoto(r, "req") \/ FGoto(r, "erased")
       ELSE FGoto(r, "flushed")
    /\ UNCHANGED <<busVars, event_mutex, tel_mutex, recorderCtl, gates>>

-----------------------------------------------------------------------------
(* system_safe_restart() *)

(* flushEnergyLedger(): with nothing to write, or when one of its bounded  *)
(* waits fails, no flash operation follows.                                *)
FlushLedger(r) ==
    /\ Served
    /\ pc[r] \in {"idle", "committed"}
    /\ fpc[r] = "idle"
    /\ FGoto(r, "req") \/ FGoto(r, "flushed")
    /\ UNCHANGED <<busVars, flash, event_mutex, tel_mutex, recorderCtl, gates>>

(* history_storage_begin_reboot(): close the gate,                         *)
BeginReboot(r) ==
    /\ Running
    /\ fpc[r] = "stopped"
    /\ s_reboot_pending' = TRUE
    /\ FGoto(r, "draining")
    /\ UNCHANGED <<busVars, flash, event_mutex, tel_mutex, recorderCtl,
                   s_factory_reset_pending, s_storage_ready>>

(* and wait up to 2 s for the holder of the telemetry mutex.               *)
DrainTelemetry(r) ==
    /\ Running
    /\ fpc[r] = "draining"
    /\ FGoto(r, "drained")
    /\ UNCHANGED <<busVars, flash, event_mutex, tel_mutex, recorderCtl, gates>>

(* Mutant: the lock is taken and released again before the reset.          *)
LockFlashAndRelease(r) ==
    /\ Running
    /\ fpc[r] = "drained"
    /\ flash = Free
    /\ FGoto(r, "locked")
    /\ UNCHANGED <<busVars, flash, event_mutex, tel_mutex, recorderCtl, gates>>

(* spi_flash_op_lock(), never released.                                    *)
LockFlash(r) ==
    /\ Running
    /\ fpc[r] = "drained"
    /\ flash = Free
    /\ flash' = r
    /\ FGoto(r, "locked")
    /\ UNCHANGED <<busVars, event_mutex, tel_mutex, recorderCtl, gates>>

(* Scheduler suspended, interrupts off, esp_rom_software_reset_system().   *)
SafeReset(r) ==
    /\ fpc[r] = "locked"
    /\ Reset(r)
    /\ UNCHANGED flashVars

-----------------------------------------------------------------------------
(* factory_reset_task *)

(* history_storage_prepare_factory_reset(), under the telemetry mutex.     *)
PrepareTelemetryReset(r) ==
    /\ Running
    /\ fpc[r] = "stopped"
    /\ tel_mutex = Free
    /\ s_factory_reset_pending' = TRUE
    /\ FGoto(r, "prepared")
    /\ UNCHANGED <<busVars, flash, event_mutex, tel_mutex, recorderCtl,
                   s_reboot_pending, s_storage_ready>>

(* event_log_prepare_factory_reset(), under the event-log mutex. What      *)
(* follows erases the debug-log, history and NVS partitions.               *)
PrepareEventReset(r) ==
    /\ Running
    /\ fpc[r] = "prepared"
    /\ event_mutex = Free
    /\ s_storage_ready' = FALSE
    /\ FGoto(r, "req")
    /\ UNCHANGED <<busVars, flash, event_mutex, tel_mutex, recorderCtl,
                   s_reboot_pending, s_factory_reset_pending>>

(* esp_restart(), which does not take the flash operation lock.            *)
FactoryReset(r) ==
    /\ fpc[r] = "erased"
    /\ Reset(r)
    /\ UNCHANGED flashVars

-----------------------------------------------------------------------------
(* The bus steps, where their caller is on the flash side                  *)
QuietBusStep ==
    \/ BootStep
    \/ PollTake \/ TxDone(Poll) \/ TxNext(Poll) \/ PollIngest
    \/ fpc[Poll] = "idle" /\ PollGive
    \/ \E w \in Writers : WriterStep(w)
    \/ \E r \in Restarters :
        \/ fpc[r] = "idle" /\ BeginShutdown(r)
        \/ r \in SafeTasks /\ fpc[r] = "flushed" /\ QuiesceBegin(r)
        \/ r \in FactoryTasks /\ fpc[r] = "erased" /\ pc[r] = "committed" /\ QuiesceBegin(r)
        \/ QuiesceTake(r) \/ QuiesceTimeout(r) \/ ReleaseBus(r)

BusStep == QuietBusStep /\ UNCHANGED flashVars

JournalStep(t) == EventWant(t) \/ EventTake(t) \/ EventGate(t) \/ FlashBegin(t) \/ EventOpEnd(t)

RawStep(t) == RawWant(t) \/ FlashBegin(t) \/ RawOpEnd(t)

RecorderStep ==
    \/ RecorderStart \/ RecorderWake \/ RecorderGate \/ RecorderTake \/ RecorderHeld
    \/ FlashBegin(Recorder) \/ RecorderOpEnd \/ RecorderClearHandle \/ RecorderSignal

SafeStep(r) ==
    \/ FlushLedger(r) \/ FlashBegin(r) \/ RestarterOpEnd(r) \/ StopRecorder(r)
    \/ JoinRecorder(r) \/ BeginReboot(r) \/ DrainTelemetry(r) \/ LockFlash(r) \/ SafeReset(r)

FactoryStep(r) ==
    \/ StopRecorder(r) \/ JoinRecorder(r) \/ PrepareTelemetryReset(r)
    \/ PrepareEventReset(r) \/ FlashBegin(r) \/ RestarterOpEnd(r) \/ FactoryReset(r)

Reboot ==
    /\ PowerOn
    /\ fpc' = [t \in FlashTasks |-> IF t = Recorder THEN "none" ELSE "idle"]
    /\ flash' = Free
    /\ event_mutex' = Free
    /\ tel_mutex' = Free
    /\ s_task' = FALSE
    /\ s_stop_requested' = FALSE
    /\ s_stopped' = FALSE
    /\ s_reboot_pending' = FALSE
    /\ s_factory_reset_pending' = FALSE
    /\ s_storage_ready' = TRUE

Next ==
    \/ BusStep
    \/ \E t \in JournalTasks : JournalStep(t)
    \/ \E t \in RawWriters : RawStep(t)
    \/ RecorderStep
    \/ \E r \in SafeTasks : SafeStep(r)
    \/ \E r \in FactoryTasks : FactoryStep(r)
    \/ Reboot

Spec == Init /\ [][Next]_vars

(***************************************************************************)
(* Fairness, no more than a safe restart needs. A flash operation ends and *)
(* a restarter goes on with what it started. The wait for the flash lock   *)
(* has no timeout and is strongly fair: holders keep it for a bounded      *)
(* number of flash operations and FreeRTOS wakes waiters by priority. No   *)
(* write and no restart is assumed to be requested, and nothing is assumed *)
(* of a factory reset.                                                     *)
(***************************************************************************)
OpEnds ==
    /\ \A t \in JournalTasks : WF_vars(EventOpEnd(t))
    /\ \A t \in RawWriters : WF_vars(RawOpEnd(t))
    /\ WF_vars(RecorderOpEnd)
    /\ \A r \in Restarters : WF_vars(RestarterOpEnd(r))

RestarterFairness(r) ==
    /\ WF_vars((QuiesceTake(r) \/ QuiesceTimeout(r)) /\ UNCHANGED flashVars)
    /\ WF_vars(ReleaseBus(r) /\ UNCHANGED flashVars)
    /\ WF_vars(StopRecorder(r) \/ JoinRecorder(r))
    /\ SF_vars(FlashBegin(r))

SafeFairness ==
    /\ OpEnds
    /\ \A r \in SafeTasks :
        /\ RestarterFairness(r)
        /\ WF_vars(pc[r] = "committed" /\ FlushLedger(r))
        /\ WF_vars(fpc[r] = "flushed" /\ QuiesceBegin(r) /\ UNCHANGED flashVars)
        /\ WF_vars(BeginReboot(r) \/ DrainTelemetry(r) \/ SafeReset(r))
        /\ SF_vars(LockFlash(r))

SafeFairSpec == Spec /\ SafeFairness

-----------------------------------------------------------------------------
FlashPhases ==
    {"none", "idle", "want", "gate", "req", "op", "wait", "append", "held", "exit", "signal",
     "dead", "flushed", "joining", "stopped", "draining", "drained", "locked", "prepared",
     "erased"}

(* Types of the flash-side state.                                          *)
FlashTypeOK ==
    /\ fpc \in [FlashTasks -> FlashPhases]
    /\ flash \in {Free} \cup FlashTasks
    /\ event_mutex \in {Free} \cup JournalTasks
    /\ tel_mutex \in {Free, Recorder}
    /\ s_task \in BOOLEAN
    /\ s_stop_requested \in BOOLEAN
    /\ s_stopped \in BOOLEAN
    /\ s_reboot_pending \in BOOLEAN
    /\ s_factory_reset_pending \in BOOLEAN
    /\ s_storage_ready \in BOOLEAN

(* "That guarantees no flash program/erase is in progress when we pull the *)
(* trigger" (system_restart.cpp): at a safe restart flash is idle, although *)
(* the gates alone do not stop NVS, debug-log and event writers.           *)
SafeResetFlashIdle ==
    \A r \in SafeTasks : fpc[r] = "locked" => \A t \in FlashTasks : fpc[t] # "op"

JournalTouchesFlash ==
    \/ \E t \in JournalTasks : fpc[t] \in {"req", "op"}
    \/ tel_mutex = Recorder /\ fpc[Recorder] \in {"req", "op"}

(* From the moment the factory reset starts to erase, no event or          *)
(* telemetry writer is on its way to the history partition: a record       *)
(* programmed into it then would survive the reset.                        *)
EraseExclusive ==
    \A r \in FactoryTasks : fpc[r] \in {"req", "op", "erased"} => ~JournalTouchesFlash

(* Rebooting is one more user of the bus master: every behaviour here is a *)
(* behaviour of BusMaster, so what holds of every hand-off there holds of  *)
(* system_safe_restart() and of factory_reset_task.                        *)
ImplementsBusMaster == BusSpec

(* "ESP-IDF's esp_restart() does not take the flash operation lock, so     *)
(* callers must ensure flash is idle first" (system_restart.h).            *)
FlashIdleAtEveryReset == main = "off" => \A t \in FlashTasks : fpc[t] # "op"

(* A safe restart that was asked for happens: no wait of the recorder, the *)
(* gates, the flash lock or another restarter keeps it from the            *)
(* reset.                                                                  *)
RebootHappens ==
    \A r \in SafeTasks : (pc[r] # "idle" \/ fpc[r] # "idle") ~> main = "off"

-----------------------------------------------------------------------------
(***************************************************************************)
(* The inductive invariant behind SafeResetFlashIdle and EraseExclusive.   *)
(***************************************************************************)
(* Whoever runs a flash operation, or is about to reset, owns the lock.    *)
FlashLockInv ==
    \A t \in FlashTasks : fpc[t] \in {"op", "locked"} => flash = t

(* Writers of the journals own their mutex.                                *)
JournalMutexInv ==
    /\ \A t \in JournalTasks : fpc[t] \in {"gate", "req", "op"} => event_mutex = t
    /\ tel_mutex = Recorder => fpc[Recorder] \in {"held", "req", "op"}

(* Under its mutex each gate of the factory reset is closed for good.      *)
ResetGateInv ==
    /\ s_factory_reset_pending =>
         ~(tel_mutex = Recorder /\ fpc[Recorder] \in {"req", "op"})
    /\ ~s_storage_ready => \A t \in JournalTasks : fpc[t] \notin {"req", "op"}
    /\ \A r \in FactoryTasks :
         /\ fpc[r] \in {"prepared", "req", "op", "erased"} => s_factory_reset_pending
         /\ fpc[r] \in {"req", "op", "erased"} => ~s_storage_ready

FlashInv ==
    /\ FlashTypeOK
    /\ FlashLockInv
    /\ JournalMutexInv
    /\ ResetGateInv

=============================================================================
