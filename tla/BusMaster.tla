----------------------------- MODULE BusMaster -----------------------------
(***************************************************************************)
(* The active RS485 bus master (main/tuya/macon_master.cpp) over its UART  *)
(* transport (main/tuya/macon_uart_transport.cpp): the boot sequence that  *)
(* decides whether this device may drive the bus, the poll task, control   *)
(* writes issued by UI/REST/Home Assistant tasks, and the hand-off of the  *)
(* bus before a reset.                                                     *)
(*                                                                         *)
(* One transaction of the arctic-macon library is a request frame ("tx")   *)
(* followed by a wait for the answer ("rx"), possibly several times        *)
(* (window reads, write verification); the bytes are abstracted away.      *)
(* Delays and timeouts are nondeterministic: a bounded wait may end in     *)
(* success whenever success is possible and in a timeout whenever the      *)
(* awaited condition is false.                                             *)
(***************************************************************************)
EXTENDS Naturals

CONSTANTS
    Writers,      \* tasks that issue control writes
    Restarters    \* tasks that commit to a reboot and quiesce the bus

Free == "free"    \* value of the bus mutex when nobody holds it
Poll == "poll"    \* the poll task

ASSUME TasksAssumption ==
    /\ Writers \cap Restarters = {}
    /\ Free \notin Writers \cup Restarters
    /\ Poll \notin Writers \cup Restarters

Tasks == {Poll} \cup Writers \cup Restarters

VARIABLES
    main,           \* progress of app_main through the bus start-up; "off" = in reset
    s_initialized,  \* transport, bus mutex and library master exist
    s_active,       \* this device is the bus master
    s_blocked,      \* preflight saw another master
    s_shutdown,     \* a reboot is committed
    pin,            \* RS485 DE pin: floating, GPIO driven low, or routed to UART RTS
    bus,            \* holder of s_bus_mutex
    pc,             \* control point of every task
    \* History variables: they record what happened, nothing reads them.
    quiet,          \* the preflight of this boot found the bus idle
    forced,         \* restarters whose wait for the bus mutex timed out
    truncated,      \* restarters that dropped DE under a frame on the wire
    lateTx          \* control writes put on the wire after s_shutdown

busVars == <<main, s_initialized, s_active, s_blocked, s_shutdown, pin, bus, pc,
             quiet, forced, truncated, lateTx>>

PollPhases      == {"none", "idle", "tx", "rx", "ingest"}
WriterPhases    == {"idle", "want", "recheck", "go", "tx", "rx"}
RestarterPhases == {"idle", "committed", "waiting", "release", "released"}

(* A task is inside a bus transaction in these phases.                     *)
InTransaction(t) == pc[t] \in {"go", "tx", "rx", "ingest"}

(* A frame is really on the wire: the UART is sending and owns the DE pin. *)
OnWire(t) == pc[t] = "tx" /\ pin = "uart"

BusInit ==
    /\ main = "boot"
    /\ s_initialized = FALSE
    /\ s_active = FALSE
    /\ s_blocked = FALSE
    /\ s_shutdown = FALSE
    /\ pin = "float"
    /\ bus = Free
    /\ pc = [t \in Tasks |-> IF t = Poll THEN "none" ELSE "idle"]
    /\ quiet = FALSE
    /\ forced = {}
    /\ truncated = {}
    /\ lateTx = 0

Running == main # "off"

(* UI and network come up after app_main has been through init(), so no    *)
(* other task calls the bus API before that.                               *)
Served == main \in {"start", "create", "up"}

Goto(t, phase) == pc' = [pc EXCEPT ![t] = phase]

history == <<quiet, forced, truncated, lateTx>>
flags   == <<s_initialized, s_active, s_blocked, s_shutdown>>

-----------------------------------------------------------------------------
(* app_main *)

(* First statement of app_main: the DE pin floats through a reset.         *)
DriveDeLowEarly ==
    /\ main = "boot"
    /\ main' = "init"
    /\ pin' = "low"
    /\ UNCHANGED <<flags, bus, pc, history>>

(* init(): the transport pins DE low, installs the UART and routes DE to   *)
(* RTS, then the mutex and the library master are created. It may fail     *)
(* before or after the pin is routed; a demo or listen-only build never    *)
(* calls it.                                                               *)
MasterInit ==
    /\ main = "init"
    /\ \/ /\ s_initialized' = TRUE
          /\ pin' = "uart"
          /\ main' = "start"
       \/ /\ pin' \in {"low", "uart"}
          /\ main' = "up"
          /\ UNCHANGED s_initialized
    /\ UNCHANGED <<s_active, s_blocked, s_shutdown, bus, pc, history>>

(* Mutant: s_active is set before the outcome of the preflight is known.   *)
StartEager ==
    /\ main = "start"
    /\ s_initialized
    /\ ~s_active
    /\ s_active' = TRUE
    /\ \/ /\ s_blocked' = TRUE
          /\ main' = "up"
          /\ UNCHANGED quiet
       \/ /\ s_blocked' = FALSE
          /\ quiet' = TRUE
          /\ main' = "create"
    /\ UNCHANGED <<s_initialized, s_shutdown, pin, bus, pc, forced, truncated, lateTx>>

(* start(): listen for another master, and only on a quiet bus go active.  *)
(* s_active is set before the poll task is created.                        *)
Start ==
    /\ main = "start"
    /\ s_initialized
    /\ ~s_active
    /\ \/ /\ s_blocked' = TRUE
          /\ main' = "up"
          /\ UNCHANGED <<s_active, quiet>>
       \/ /\ s_blocked' = FALSE
          /\ s_active' = TRUE
          /\ quiet' = TRUE
          /\ main' = "create"
    /\ UNCHANGED <<s_initialized, s_shutdown, pin, bus, pc, forced, truncated, lateTx>>

(* start(), continued: xTaskCreate(poll_task), undone when it fails.       *)
CreatePollTask ==
    /\ main = "create"
    /\ main' = "up"
    /\ \/ Goto(Poll, "idle") /\ UNCHANGED s_active
       \/ s_active' = FALSE /\ UNCHANGED pc
    /\ UNCHANGED <<s_initialized, s_blocked, s_shutdown, pin, bus, history>>

-----------------------------------------------------------------------------
(* Transactions, shared by the poll task and the writers *)

(* The request frame is out (or the transport gave up on it).              *)
TxDone(t) ==
    /\ Running
    /\ pc[t] = "tx"
    /\ Goto(t, "rx")
    /\ UNCHANGED <<main, flags, pin, bus, history>>

(* The library sends the next frame of the same transaction.               *)
TxNext(t) ==
    /\ Running
    /\ pc[t] = "rx"
    /\ Goto(t, "tx")
    /\ UNCHANGED <<main, flags, pin, bus, history>>

(* Mutant: the result of the mutex take is ignored.                        *)
PollTakeUnchecked ==
    /\ Running
    /\ pc[Poll] = "idle"
    /\ bus' = Poll
    /\ Goto(Poll, "tx")
    /\ UNCHANGED <<main, flags, pin, history>>

(* poll_task: take the bus and read a window. It does not look at          *)
(* s_shutdown: polling goes on until the bus is taken away.                *)
PollTake ==
    /\ Running
    /\ pc[Poll] = "idle"
    /\ bus = Free
    /\ bus' = Poll
    /\ Goto(Poll, "tx")
    /\ UNCHANGED <<main, flags, pin, history>>

(* The window read ended, with or without an answer: liveIngestEndCycle()  *)
(* runs with the bus still held.                                           *)
PollIngest ==
    /\ Running
    /\ pc[Poll] = "rx"
    /\ Goto(Poll, "ingest")
    /\ UNCHANGED <<main, flags, pin, bus, history>>

PollGive ==
    /\ Running
    /\ pc[Poll] = "ingest"
    /\ bus' = Free
    /\ Goto(Poll, "idle")
    /\ UNCHANGED <<main, flags, pin, history>>

-----------------------------------------------------------------------------
(* Control writes: set_*_setpoint, set_working_mode, write_register *)

(* acquire_for_write(), the tests made before the mutex is awaited. A call *)
(* that fails them returns false and changes nothing.                      *)
WriteCall(w) ==
    /\ Served
    /\ pc[w] = "idle"
    /\ s_active
    /\ ~s_shutdown
    /\ Goto(w, "want")
    /\ UNCHANGED <<main, flags, pin, bus, history>>

WriteTake(w) ==
    /\ Running
    /\ pc[w] = "want"
    /\ bus = Free
    /\ bus' = w
    /\ Goto(w, "recheck")
    /\ UNCHANGED <<main, flags, pin, history>>

(* Mutant: s_shutdown is not looked at again after the wait.               *)
WriteNoRecheck(w) ==
    /\ Running
    /\ pc[w] = "recheck"
    /\ Goto(w, "go")
    /\ UNCHANGED <<main, flags, pin, bus, history>>

(* acquire_for_write(), the second look at s_shutdown with the mutex held. *)
WriteRecheck(w) ==
    /\ Running
    /\ pc[w] = "recheck"
    /\ IF s_shutdown
       THEN bus' = Free /\ Goto(w, "idle")
       ELSE Goto(w, "go") /\ UNCHANGED bus
    /\ UNCHANGED <<main, flags, pin, history>>

WriteTx(w) ==
    /\ Running
    /\ pc[w] = "go"
    /\ Goto(w, "tx")
    /\ lateTx' = lateTx + (IF s_shutdown THEN 1 ELSE 0)
    /\ UNCHANGED <<main, flags, pin, bus, quiet, forced, truncated>>

(* Mutant: an early return (a failed write) leaves the mutex taken.        *)
WriteLeaksMutex(w) ==
    /\ Running
    /\ pc[w] = "rx"
    /\ Goto(w, "idle")
    /\ UNCHANGED <<main, flags, pin, bus, history>>

(* The transaction ended: acknowledged, failed or timed out.               *)
WriteGive(w) ==
    /\ Running
    /\ pc[w] = "rx"
    /\ bus' = Free
    /\ Goto(w, "idle")
    /\ UNCHANGED <<main, flags, pin, history>>

-----------------------------------------------------------------------------
(* Reboot *)

(* begin_shutdown() called on its own, ahead of the restart (a successful  *)
(* OTA, a Home Assistant restart command, a factory reset).                *)
BeginShutdown(r) ==
    /\ Served
    /\ pc[r] = "idle"
    /\ s_shutdown' = TRUE
    /\ Goto(r, "committed")
    /\ UNCHANGED <<main, s_initialized, s_active, s_blocked, pin, bus, history>>

(* quiesce_for_restart(): begin_shutdown() again, then wait for the mutex. *)
QuiesceBegin(r) ==
    /\ Served
    /\ pc[r] \in {"idle", "committed"}
    /\ s_shutdown' = TRUE
    /\ Goto(r, "waiting")
    /\ UNCHANGED <<main, s_initialized, s_active, s_blocked, pin, bus, history>>

(* Mutant: the mutex is given back once it has been obtained.              *)
QuiesceGivesBack(r) ==
    /\ Running
    /\ pc[r] = "waiting"
    /\ s_initialized => bus = Free
    /\ Goto(r, "release")
    /\ UNCHANGED <<main, flags, pin, bus, history>>

(* The mutex is obtained, and never given back; without a mutex (init()    *)
(* failed or was never called) there is nothing to wait for.               *)
QuiesceTake(r) ==
    /\ Running
    /\ pc[r] = "waiting"
    /\ IF s_initialized
       THEN bus = Free /\ bus' = r
       ELSE UNCHANGED bus
    /\ Goto(r, "release")
    /\ UNCHANGED <<main, flags, pin, history>>

(* "Bus still busy - releasing anyway".                                    *)
QuiesceTimeout(r) ==
    /\ Running
    /\ pc[r] = "waiting"
    /\ s_initialized
    /\ bus # Free
    /\ forced' = forced \cup {r}
    /\ Goto(r, "release")
    /\ UNCHANGED <<main, flags, pin, bus, quiet, truncated, lateTx>>

(* release_bus(): after a bounded wait for the transmitter, drive_de_low() *)
(* detaches the pin from the UART for good.                                *)
ReleaseBus(r) ==
    /\ Running
    /\ pc[r] = "release"
    /\ pin' = "low"
    /\ truncated' = IF \E t \in Tasks : OnWire(t) THEN truncated \cup {r} ELSE truncated
    /\ Goto(r, "released")
    /\ UNCHANGED <<main, flags, bus, quiet, forced, lateTx>>

(* The reset itself; what the caller does between the hand-off of the bus  *)
(* and this point is the subject of module SafeRestart.                    *)
Reset(r) ==
    /\ Running
    /\ pc[r] = "released"
    /\ main' = "off"
    /\ UNCHANGED <<flags, pin, bus, pc, history>>

(* The device boots again: RAM and pin state start over.                   *)
PowerOn ==
    /\ main = "off"
    /\ main' = "boot"
    /\ s_initialized' = FALSE
    /\ s_active' = FALSE
    /\ s_blocked' = FALSE
    /\ s_shutdown' = FALSE
    /\ pin' = "float"
    /\ bus' = Free
    /\ pc' = [t \in Tasks |-> IF t = Poll THEN "none" ELSE "idle"]
    /\ quiet' = FALSE
    /\ forced' = {}
    /\ truncated' = {}
    /\ lateTx' = 0

-----------------------------------------------------------------------------
BootStep == DriveDeLowEarly \/ MasterInit \/ Start \/ CreatePollTask

PollStep == PollTake \/ TxDone(Poll) \/ TxNext(Poll) \/ PollIngest \/ PollGive

WriterStep(w) ==
    \/ WriteCall(w) \/ WriteTake(w) \/ WriteRecheck(w) \/ WriteTx(w)
    \/ TxDone(w) \/ TxNext(w) \/ WriteGive(w)

RestarterStep(r) ==
    \/ BeginShutdown(r) \/ QuiesceBegin(r) \/ QuiesceTake(r) \/ QuiesceTimeout(r)
    \/ ReleaseBus(r) \/ Reset(r)

BusNext ==
    \/ BootStep
    \/ PollStep
    \/ \E w \in Writers : WriterStep(w)
    \/ \E r \in Restarters : RestarterStep(r)
    \/ PowerOn

BusSpec == BusInit /\ [][BusNext]_busVars

(***************************************************************************)
(* Fairness. app_main and a committed restarter run to the end (each of    *)
(* their waits is bounded). A frame leaves the UART and a transaction has  *)
(* a deadline, so a transaction ends even though it may send several       *)
(* frames (strong fairness). A writer waiting for the mutex gets it if it  *)
(* keeps becoming free: the poll task sleeps 800 ms between cycles, and    *)
(* FreeRTOS mutexes wake the waiters in priority order.                    *)
(***************************************************************************)
BusFairness ==
    /\ WF_busVars(BootStep)
    /\ WF_busVars(PowerOn)
    /\ WF_busVars(TxDone(Poll))
    /\ SF_busVars(PollIngest)
    /\ WF_busVars(PollGive)
    /\ \A w \in Writers :
        /\ SF_busVars(WriteTake(w))
        /\ WF_busVars(WriteRecheck(w) \/ WriteTx(w) \/ TxDone(w))
        /\ SF_busVars(WriteGive(w))
    /\ \A r \in Restarters :
        /\ WF_busVars(pc[r] = "committed" /\ QuiesceBegin(r))
        /\ WF_busVars(QuiesceTake(r) \/ QuiesceTimeout(r))
        /\ WF_busVars(ReleaseBus(r))
        /\ WF_busVars(Reset(r))

BusFairSpec == BusSpec /\ BusFairness

-----------------------------------------------------------------------------
(* Types of the state: every task is at one of its own control points.     *)
BusTypeOK ==
    /\ main \in {"off", "boot", "init", "start", "create", "up"}
    /\ s_initialized \in BOOLEAN
    /\ s_active \in BOOLEAN
    /\ s_blocked \in BOOLEAN
    /\ s_shutdown \in BOOLEAN
    /\ pin \in {"float", "low", "uart"}
    /\ bus \in {Free} \cup Tasks
    /\ pc \in [Tasks -> PollPhases \cup WriterPhases \cup RestarterPhases]
    /\ pc[Poll] \in PollPhases
    /\ \A w \in Writers : pc[w] \in WriterPhases
    /\ \A r \in Restarters : pc[r] \in RestarterPhases
    /\ quiet \in BOOLEAN
    /\ forced \subseteq Restarters
    /\ truncated \subseteq Restarters
    /\ lateTx \in Nat

(* "the half-duplex UART is only ever driven by one transaction at a time" *)
(* (macon_master_iface.h): no two tasks are inside a transaction.          *)
OneTransaction ==
    \A t, u \in Tasks : InTransaction(t) /\ InTransaction(u) => t = u

(* A frame only ever reaches the wire after this boot's preflight found    *)
(* the bus idle: with the OEM controller connected the device stays        *)
(* silent, whatever writes are requested while start() is still running.   *)
SoleMaster == \A t \in Tasks : OnWire(t) => quiet /\ ~s_blocked

(* Once a reboot is committed at most one more control write reaches the   *)
(* wire, the one that owned the bus at that moment: begin_shutdown() races *)
(* every write that was accepted but still waits behind a poll.            *)
AtMostOneLateWrite == lateTx <= 1

(* A restarter that obtained the mutex hands over a clean bus: from its    *)
(* release to the reset DE stays low and nobody is inside a transaction.   *)
CleanHandoff ==
    \A r \in Restarters :
        pc[r] = "released" /\ r \notin forced /\ s_initialized =>
            pin = "low" /\ \A t \in Tasks : ~InTransaction(t)

(* Only a restarter whose wait timed out can cut a frame on the wire.      *)
TruncatedOnlyIfForced == truncated \subseteq forced

(* After any hand-off, forced or not, the transceiver never drives the bus *)
(* again before the reset, although a poll task that was not stopped goes  *)
(* on sending into the UART.                                               *)
SilentAfterRelease ==
    (\E r \in Restarters : pc[r] = "released") => \A t \in Tasks : ~OnWire(t)

(* Nobody waits for the bus for ever, whatever poll, writers and other     *)
(* restarters do: a committed restart gets to the reset, and a control     *)
(* write returns to its caller, unless the device resets first.            *)
WaitsEnd ==
    /\ \A r \in Restarters : pc[r] \in {"committed", "waiting"} ~> main = "off"
    /\ \A w \in Writers : pc[w] = "want" ~> (pc[w] = "idle" \/ main = "off")

-----------------------------------------------------------------------------
(***************************************************************************)
(* The inductive invariant behind the safety properties above.             *)
(***************************************************************************)
HoldsBus(t) == pc[t] \in {"recheck", "go", "tx", "rx", "ingest"}

(* The mutex protocol: whoever is past the take owns the mutex, and a      *)
(* restarter that got it keeps it.                                         *)
MutexInv ==
    /\ \A t \in Tasks : HoldsBus(t) => bus = t
    /\ \A r \in Restarters :
        pc[r] \in {"release", "released"} /\ r \notin forced /\ s_initialized => bus = r

(* Bus users exist only after a quiet preflight of an initialized master.  *)
ActivationInv ==
    /\ quiet => s_initialized /\ ~s_blocked /\ main \notin {"boot", "init", "start"}
    /\ main = "create" => quiet
    /\ s_active => quiet
    /\ pc[Poll] # "none" => quiet
    /\ \A w \in Writers : pc[w] # "idle" => quiet

(* Restarters act only after init(), so the pin they pull low stays low.   *)
ReleaseInv ==
    /\ main \in {"boot", "init"} => \A r \in Restarters : pc[r] = "idle"
    /\ \A r \in Restarters : pc[r] = "released" => pin = "low"

(* The one write that may still go out is the one already past the recheck. *)
LateInv ==
    /\ lateTx <= 1
    /\ ~s_shutdown => lateTx = 0
    /\ lateTx = 1 => \A w \in Writers : pc[w] # "go"

BusInv ==
    /\ BusTypeOK
    /\ MutexInv
    /\ ActivationInv
    /\ ReleaseInv
    /\ LateInv
    /\ TruncatedOnlyIfForced

=============================================================================
