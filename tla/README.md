# Verification of arctic-controller

TLA+ models of the firmware of the Arctic heat pump controller (ESP32-P4, FreeRTOS;
sources under `src/main`), the TLC runs that check them and TLAPS proofs of their
main safety properties. `PROJECT.json` holds the machine-readable part: components,
runs, mutants (plausible bugs every property must catch), the map from definitions to
source lines, findings, hazards and theorems.

Check one run with `tlc -workers 2 -config MCBusMaster.cfg MCBusMaster`, one proof
with `tlapm SafeRestartProofs.tla`.

## 1. Inventory

The device is the active master of an RS485 bus to a heat pump. It shows and logs what
it reads, accepts commands from touchscreen, REST API and Home Assistant, keeps events,
telemetry and energy totals in flash, and updates itself over the air. It must never
leave the bus driven, never lose its journals to a reset and never end up with an image
that cannot boot or be reached.

| Component | State | Operations | What makes it correct |
|---|---|---|---|
| Bus master (`tuya/macon_master.cpp`, `macon_uart_transport.cpp`) | `s_active`, `s_blocked`, `s_shutdown`, bus mutex, DE pin | init, preflight/start, poll task, control writes, begin_shutdown, quiesce | one transaction at a time; silent if another master is present; clean hand-off before a reset |
| Safe restart (`system_restart.cpp`) | none of its own | flush ledger, quiesce bus, stop recorder, gate, flash lock, reset | no flash operation and no frame is cut by the reset; it always gets there |
| Factory reset (`factory_reset.cpp`) | none of its own | gate journals, erase partitions, quiesce bus, restart | nobody writes what is being erased |
| Telemetry recorder (`telemetry_history.cpp`) | task handle, stop flag, semaphore | 30 s loop, stop and join | stops before a restart |
| Event log and journal (`event_log.cpp`, `history_storage.cpp` 1-423) | RAM ring; two flash banks | record, time-sync backfill, clear, compaction, recovery | stored events survive power cuts and failed writes |
| Telemetry journal (`history_storage.cpp` 425-925) | ring of sectors with generations, next slot and sequence number | recover, append, rotate, upgrade the format, query | only the oldest samples are ever lost; recovery continues after the newest one, whoever wrote it |
| OTA (`ota_manager.cpp`, `ota_commit.cpp`, upload handler of `api_server.cpp`) | two slots and otadata; update lock; commit flags; NVS latch | download, upload, flash, switch, commit, rollback | always bootable; unreachable images rolled back |
| Web servers (service task in `wifi_manager.cpp`, life cycle in `api_server.cpp`) | request and completion generations, flags, handles, mode | start, restart, probe, fall back to HTTP, shut down for an update | no request is lost or answered with an old result; nothing runs after the shutdown |
| Web server safety net (`wifi_supervisor.cpp`) | episode clock, probe failures, reboot count in RTC memory | restart, probe, repair, fall back, reboot | reboots only after a real outage, a bounded number back to back, and gets over it |
| Link supervision (`wifi_supervisor.cpp`, `wifi_manager.cpp`, `wifi_drops.cpp`, `wifi_roam.cpp`) | link state, association outage, gateway outage | reconnect, ping, bounce, roam, reboot | a lost link or a wedged stack never stays; no reboot without an outage |
| Integration token, setup pairing (`auth_manager.cpp`, `setup_pairing.cpp`) | token hash in RAM and NVS, generation, mutex; window, code, attempts | issue, rotate, revoke, open, claim, authorize | a retired token never works again; a code is good once |
| Home Assistant commands (`api_server.cpp`) | record of command ids | power, mode, setpoints, restart | carried out once, acknowledged only if carried out |
| Home Assistant push (`ha_websocket.cpp`, `ha_integration.cpp`) | client table, revisions, sockets | handshake, push, heartbeat, close, stop and start | every socket has one entry; clients get the latest state |
| Energy ledger (`energy_ledger.h`, `energy_store.cpp`) | open day, closed day, checkpoint, lifetime totals | book, close a day, commit, checkpoint | no energy is counted twice; little is lost |
| Run ledger (`run_ledger.h`, `run_store.cpp`) | open run, queue, runs of a day in NVS | track, store, list | a run is stored and listed once, with all its readings |
| Login sessions | credentials and sessions | login, change, evict | a change ends old sessions |
| Heat pump controller | state, register image | ingest, set | shown values follow the bus |
| Persistent debug log | slot ring | snapshot, recover | one slot at most is lost |
| Other HTTP handlers, UI, TLS, time, weather, sensors | mostly configuration | translate requests | not a protocol of their own |

Components interact through FreeRTOS tasks (poll, recorder, UI, HTTP workers, OTA,
factory reset, supervisor, API service, Wi-Fi events, push), mutexes (bus, event log,
telemetry, state, token, client table), atomics used as gates (`s_shutdown`,
`s_reboot_pending`, `s_stop_requested`) or mailboxes (requests to the API service) and the
global flash lock.
Hard behaviours: a restart can be requested by several tasks at once and races every
writer; waits time out and the late result still arrives; flash and NVS operations are cut
or fail; a new image may boot without network; socket numbers are used again while a task
works on a copy of the table; the token changes under a command; the day, the zone and the
clock change under the ledgers. `PROJECT.json` lists these as hazards with the property that covers each.

## 2. Plan

Done: `BusMaster`, `SafeRestart` (composes the bus with the flash writers), `DurableLog`
(abstract) with `EventJournal`, `OtaUpdate`, `ApiService`, `ApiSafetyNet`, `LinkSupervisor`,
`SampleLog` (abstract) with `TelemetryJournal` and `TelemetryQuery`, `HaControl`, `HaPush`,
`EnergyLedger`, `RunLedger`, all checked with TLC; proofs of the safety properties of all of
them and of both refinements. To come, in this order:

1. The statistics of Wi-Fi drops and the events made from them; login sessions.
2. The heat pump's register image, if the register layout (a submodule) becomes available.

## 3. Modules

### BusMaster
`main` follows `app_main` through `drive_de_low_early`, `init`, `start`, task creation;
`pc` holds the control point of every task. A transaction of the external library is
`tx` (frame in the UART), `rx`, repeated, then for the poll task `ingest`. The DE pin is
a variable, since `release_bus` takes it away from a UART that may still be sending.
Every bounded wait has a success and a timeout action. History variables (`quiet`,
`forced`, `truncated`, `lateTx`) are only read by properties. Restart requests are
admitted from the end of `init()` on, which includes the preflight (a superset of what
the UI allows). Frame contents and `BusStats` are left out.

### SafeRestart
Extends `BusMaster` with the tasks that write flash: event-log callers (the poll task
while it ingests, and others), the recorder, raw writers that no gate stops (NVS commits,
debug log), safe restarters and the factory-reset task. `fpc` is a task's control point
on the flash side: `req` waits for the flash lock, `op` is an operation in progress.
Gates are tested where the code tests them, which for events is before the flash lock and
outside any lock the restart waits on. `RecorderStart` clears a stop request that came
first, as `telemetry_history_init` does, and the recorder's first call, for the latest time stamp,
may initialise the ring (an erase) behind no gate at all.

### DurableLog and EventJournal
`DurableLog` promises: a log of at most `Ring` events in RAM, a durable copy, and a
restart that resumes from the durable copy. `EventJournal` is the code: ring buffer,
two banks of `Slots` records with headers, append, compaction as erase, copy, header,
commit word, replay with upserts, backfill of timestamps: `todo` is the set of ring places
still to be stamped. A record is its id and
whether it has a time; flash cells are erased, a record, or torn. A power cut may happen
at every flash operation: a record or header in the writing is then absent, torn or there, and the
header and the records of a bank being erased are each gone or as they were. In each boot
`MaxFaults` operations may fail instead. Two variables are only read by properties: `sound` (no flash
operation has failed in any boot) and `tail`, which is `"failed"` after an append failed and
until a compaction completes, and `"broken"` when that compaction fails too (section 7). The mapping is `mem <- Contents` (the ring in order), `disk <- Disk`
(what a restart would replay), see the INSTANCE at the end of the module.

### OtaUpdate
Slots with image quality (`partial`, `mute` = boots without network, `sound`) and otadata
state; the bootloader and `esp_ota_*` are external and follow the ESP-IDF rollback
rules. The update lock is `ota` (`ota_status.state`), `upd` the progress of the download
task and of each upload. `CommitEval` is one whole `ota_commit_eval`. otadata reads,
NVS reads and writes and the marking may fail, `MaxFaults` times in all. A second
download started while a finished one waits for its restart takes over `ota_status`; that
it could fetch a whole image before that restart is excluded. Erase of NVS and restart of
a factory reset are one step.

### ApiService
The task that starts, restarts and probes the web servers, at the grain of its atomics:
`svc.pc` goes through reading the generation, taking the flags, the work, publishing the
result and the same for probes, since requesters may write between any two of them. The
requesters are the event task (`GOT_IP`), the supervisor's `wifi_mgr_api_*` calls with
their timeouts, and the download task, which shuts the servers down for good. The life
cycle functions of `api_server.cpp` hold one recursive lock from beginning to end, so each
is one step; `api_server_init_mdns` takes no lock and is a step of its own.

### ApiSafetyNet
The same supervisor's watch over the servers, over many boots. `rtc` is the no-init RTC
memory, garbage after power-on; `watch` is `ApiWatch`, its time stamps kept as ages and cut
off at the largest value they are compared with. Calls that block on the service task take
two steps, and their result is arbitrary: what `ApiService` promises about it is not used.
Another component may restart the device at any time.

### LinkSupervisor
The supervisor's loop, the event handlers of `wifi_manager.cpp`, the driver as an
environment (joins, drops), the user's connects and disconnects, bounces and the steps of a
roam. Time passes in `Tick` only, while the task waits. The link state is read at the top of
the loop and used later, as in the code. One assumption: a join takes longer than the rest
of `connect_internal()` after `esp_wifi_connect()` (section 7).

### SampleLog, TelemetryJournal and TelemetryQuery
`SampleLog` promises a set of samples that only grows at its newest end and gives up samples
only among its oldest, a sector's worth, and never the newest: a cut erase may lose any of
these and spare the others. `TelemetryJournal` is the ring of sectors, one step per flash operation: write
of a record, its second attempt in the next sector, rotation as erase, header and commit,
recovery from sector headers and samples. Two variables are only read by properties:
`failRow`, the record writes that failed in a row (up to `RowLimit`, the records of all
sectors but one), and `stray`, an append was reported failed but its sample can be read. `PowerCut` leaves any part of the operation
under way: of an erase, each slot is as it was, torn or erased, whatever became of the others and of
the header (`HalfErased`). `MaxFaults` operations report an error. `OldFirmware` (external) is a
rolled-back program that appends in the older format, whose sectors may hold more records than
those of the new one (127 and 101 in the code) or fewer. `GenMod` stands for 2^32, so that the wrap of
generations is reached. The mapping is `kept <- Kept`, the samples a query can see.
`TelemetryQuery` adds the query as a function of a journal, a pass over the sectors and a
`qsort` that may choose any sorted order, and checks it in every state.

### HaControl
Token, pairing window, command record and the commands themselves. The integration server
runs one request at a time, the user's side (web UI or screen) another; the token mutex is
held from the check of a control write to its end. A write to NVS may fail, and the next
start then finds either value. A token is the number of its issue, a code the number of its
window, so that "the same secret again" is visible.

### HaPush
The client table, the push task on its copy of the table, the server's task (handshakes,
frames, queued closes), stop and start, revisions given by two tasks. The server runs for a while
without the push channel: after `ha_websocket_stop()` cleared `s_server` (`Detach`) until
`httpd_ssl_stop()` returns (`Stopped`), and from the registration of its routes (`Starting`) to
`ha_websocket_start()` (`Started`); `activeClientCount()` then frees every entry. A WebSocket that
connected or was open during that time is marked `stray`, for properties only (section 7). Sockets
are numbers that are used again at once. A snapshot is the version of the state it shows.

### EnergyLedger and RunLedger
The poll task books readings, the recorder task commits closed days, checkpoints the open
one and stores finished runs; the steps between the state mutex and NVS are separate. One
unit of energy is booked per tick of connected time, which makes double counting and loss
exact. Restarts, failing writes, a state mutex that is not obtained in time, zone changes and a
clock set back are actions of both. The clock is right from the start (the code books nothing
before the first time sync).

The energy ledger computes its days as `localDay` does, midnight to midnight: a zone is less than a
day from UTC, and the dates in `Summer` begin with local time `Gain` ahead; it changes at
`ChangeTick` of the day before the first of them and of the last, so that one day is shorter and one
longer; `restore` takes every day for 24 h. `booked` is
what the pump used as far as readings count it, `wasted` the part of it that was booked to a day
already in the totals, `failed` whether anything failed in this boot; they are only read by
properties.

A run is its date, first and last reading. Its own clock and offset are those of `Shift`, which
sets the clock back or moves local time (a zone, or summer time). `LockMissed` is a wait for the
state mutex in vain, with the run stored last still queued. A new day ages out the `SweepDays`
days before those that are kept. A listing is a read of the store and a read of queue and open run;
its request is for all days, and the reads of the single days are one step. `twice` has the readings
at which a second run began, and is only read by properties: two runs with one start are one run to
the store and to a listing (section 7).

### The MC modules
An MC module with several components or several fault models has a variable `part`, fixed
in the initial state, that says which instance runs; the variables of the others stand
still. This is a disjoint union of the state spaces, not a product: the components of one
such module do not interact through state that the models have. `part` also keeps fault
models apart where a property holds under one of them only. The properties of an MC module
are those of its components under `part`; some are conjunctions of several named parts that
make up one promise. `MCWebServers`, `MCHomeAssistant`, `MCLedgers` and `MCTelemetry` extend their components, which
have no name in common, so that run and proof are about the same definitions; there `part`
also bounds what the environment does. `MCEventJournal` extends its component too and has no
part; it cuts off behaviours with a failing operation at `MaxFailingId` events. The other modules with parts use instances, whose
parameters are checked by the ASSUMEs of the MC module.

## 4. Runs

| Run | Instance | Result |
|---|---|---|
| `bus` | 2 writers, 2 restarters, 7 k states | one transaction at a time, sole master, one late write at most, clean hand-off; restarts and writes complete |
| `safe_restart` | 1 writer, 1 safe restart, 1 factory reset, 1 event task, 1 raw writer, 1.6 M states | reset with idle flash, exclusive erase |
| `safe_restart_live` | 2 safe restarts | the reboot happens |
| `journal` | ring 2, bank 3; 5 ids, or 2 ids and up to 2 faults per boot; 3 generations; 120 k states | stored events survive, nothing is forgotten; until the first fault a refinement of DurableLog |
| `telemetry` | 3 sectors of 2 slots, times up to 6; 2 power cuts and 1 fault, or 2 cuts and 3 samples of old firmware, whose sectors hold 3; or 1 cut and 2 faults; queries with buffers up to 2 in every state; 248 k states | position fits the flash, newest sample kept, queries right; a refinement of SampleLog |
| `ota` | 2 uploads, 1 download, 2 faults, 19 k states | always bootable, one flasher, mute images not kept; without a fault a reachable image commits |
| `web_servers` | 2 start requests and 1 probe; budget of 1 reboot; 290 k states | requests served in spite of timeouts, no server where none may be, reboots bounded and forgiven |
| `link` | 1 bounce, reboot after 3 checks, 310 k states | reboots only after an outage; a lost link or a wedged stack escalates |
| `home_assistant` | 2 tokens, 2 windows, 3 boots; 4 commands on 2 ids with a record of 2; 2 sockets, 2 clients, 2 sessions, a stop or two of the server; 153 k states | tokens, codes, commands and sockets as in section 1; requests end, clients converge |
| `ledgers` | runs: day of 3 ticks, queue of 1, 2 boots; with listings, or with a change of clock or offset; energy: days of 5 ticks and one of 4, 3 boots, or failing writes and 2 boots, or 2 changes of zone or clock; 2.3 M states | nothing stored, listed or counted twice, a listing misses only what moved between its reads, loss bounded, totals fall only with a dropped day |
| `factory_flash`, `ota_latch` | smallest instances | violations, see section 7 |

Bounds. Two tasks of a kind are the first number at which they can compete; where there is a
proof it removes that bound. A ring of 2 wraps and a bank of 3 fills in the middle of a
backfill and forces a compaction; three generations are one turn of the two banks and the
start of the next. Two events are enough for an append over the slot of a failed one. Three
sectors are the fewest with an oldest, a newest and one between. Ages in the supervisor are in units of its check
interval and thresholds are ordered as in the code, their ratios made smaller. The record of
command ids has 2 slots and sees 4 commands, so that it turns over twice. The energy ledger starts on the last tick of a day of 5 and
sees one more midnight; save interval, period and longest booked interval are 2, 1 and 1, so
that a checkpoint can fall due twice within a day; that day is the one on which summer time begins, a tick
short, so that a restored day can be open too long. Of the runs, `runs` has listings, `shifts` has
a clock that is set back by a tick or an offset that changes, and several readings in one tick. The
parts of both ledgers (`crash`, `faults` and `zones` are the energy ledger's)
only keep the state space small: the properties hold, and are proved, for all faults
together, each stating in itself what it takes (`LossBounded`: nothing failed in this boot,
nobody changed the clock). Runs that say `CHECK_DEADLOCK FALSE` do so
because their bounds end every behaviour, or because a device without power may stay so.

Fairness. Weak fairness for tasks FreeRTOS schedules: start-up, a committed restarter, the
end of a flash operation, the main loop, the API service task, the supervisor (`web_servers`),
the push task, the web server's task. Strong fairness where a wait without timeout competes
for a lock whose holders keep it for a bounded time only, since FreeRTOS hands a mutex to the
waiting task of highest priority (bus mutex, flash lock, token mutex), for the last step of
loops that are finite in the code, and in `link` for the supervisor and the clock, which
events may wake or postpone but not stop. No request, no network and no update is assumed to
happen. `CommitsOnceReachable` assumes that the device stays up and online from some time on,
`NetRecovers` that the fault goes away, the link stays and no update shuts the servers down,
`WedgeEscalates` that radio, user and gateway change no more (`calm`). That a factory reset completes is not checked.

## 5. Proofs

Each proof module states an inductive invariant, one step per action, and derives the
properties for every value of the constants.

- `SafeRestartProofs`, the bus: `BusInv` = types, ownership of the mutex at every point
  between take and give (and by an unforced restarter for ever), bus users only after a quiet
  preflight, DE low after a release, and the bound on late writes, which is inductive
  only with "after the one late write nobody is past the recheck". Assumes
  `TasksAssumption` (task sets disjoint). The flash: every step of `SafeRestart` is a step or
  a stutter of the bus, hence `BusSpec`. `FlashInv` = types, `op` and `locked` own the flash
  lock, the mutex protocols of the two journals, and "an erasing factory reset found both
  journals idle and gated".
- `EventJournalProofs`: `BankInv` relates headers, active bank and generation to the
  phase of the compaction; from it the bank in use is the one a restart chooses. `JournalInv`
  adds what the cells hold. `PhaseInv` ties the program counter to the bank in use, the work
  left and the tail. `RamInv`: the ring holds different ids, all given out. `SlotInv`: records fill a bank
  from its first slot on, and the program's position is behind the last one. `CopyInv`: a compaction
  has copied so much of the ring, in order. `SuffixInv`: while the bank is whole and has room, the
  ring is the end of what a restart would replay (`JournalDurable`). `SoundInv`: as long as nothing
  failed, ring and replay are equal between two operations. What a replay yields is a recursive
  function over the slots of a bank; lemmas, by induction over the slots, say what it is after a
  slot is programmed behind the others. `JournalImplementsDurableLog`
  goes step by step, `JournalNeverForgets` is an action property. Assumes `JournalAssumption`:
  a bank has more slots than the ring has places.
- `TelemetryProofs`: `RingInv` = types, what the operation under way has established, and that the
  rest of the active sector is free. `Thinned` is what any part of an erase makes of a sector: some of its samples, and no others.
  `NewestInv`: the newest acknowledged sample can be read in a
  sector behind which only failing writes have used slots (`NewestAt`, `Spent`), as long as these
  have not used up every other sector. `SequenceInv`: each sample was numbered before the next one, unless the append under way
  left it behind and tries again with the same number (`Numbered`); with `RingInv` it gives
  `PositionFitsFlash`. `OrderInv` orders the samples of the sectors around the ring as long as no
  older firmware wrote, the ring was not used up by failing writes and no failed
  append can be read; from it and `NewestInv` each step appends a newest sample or drops some of
  the oldest sector's, which is the refinement of `SampleLog`. Queries: an induction over the pass says that the
  buffer holds the newest of the samples seen so far; that a sorting permutation exists,
  which the model takes by CHOOSE, is proved by counting the samples before each. Assumes
  `TelemetryAssumption` (two sectors, a record in each, generations that do not wrap within a turn of
  the ring; nothing relates the record counts of the two formats) and `CapacityAssumption`.
- `OtaUpdateProofs`: `OtaInv` = types, the selected slot is complete and the one behind
  an unproven image is complete and proven, what the running program may write, and what
  the lock says about each updater; `NetworkInv` for the commit property.
- `WebServerProofs`, the service task: `ApiInv`. `RestartServed` and `OkIsFresh` speak of the moment a caller
  returns; what carries them there is that generations are posted, taken in hand and
  completed in this order (`GenerationsInOrder`), that an owed restart is in the posted flags
  or in the flags in hand (`OwedIsFlagged`), that the generation of the request is ahead of
  what is completed for as long as it is owed (`OwedIsAhead`), and that a success that does
  not count belongs to an older generation (`OldResultIsOlder`). A timeout makes the caller forget
  a generation, never the service, which is why no case for it is needed.
  The safety net: `NetInv`, over boots. `BudgetInv` follows the number of reboots in a
  row through RTC memory, whose contents are arbitrary after power-on, and needs at every
  control point whether the count there is one of ours. `OutageInv` ties the record of the
  outage to the watch and its clock to the last success.
- `LinkSupervisorProofs`: `LinkInv`. The reboot compares a clock that the task advances by
  whole checks, so it may run ahead of the loss of the link; `AssocInv` bounds by how much,
  and by less while a link the task knows of is up; it is inductive only with `RadioInv`, what
  an association that is up says about events on their way. `ReachInv` is the same for the
  gateway. `RebootOnlyAfterOutage`, an action property, follows for every step.
- `HomeAssistantProofs`, the commands: `HaControlInv`. Tokens: `MutexInv` and `TokenInv` say what RAM and NVS
  hold between two writes, in particular that a token on its way to NVS is not retired; a
  failed write leaves either value, so nothing relates the two otherwise. Codes: `WindowInv`.
  Commands: `RecordInv` numbers the commands; the record of `CacheSize` slots holds those of the last
  `CacheSize` that were accepted (`KeptInv`), and the one in progress repeats none of these
  (`NewInv`). Assumes `HaControlParameters`: the bounds are naturals, the record has a slot, there is a first boot.
  The push: `HaPushInv`. `EntryInv` is what `SocketsRegistered` needs: one entry at
  most per socket, none during a handshake, and while the channel runs one for every other open
  WebSocket that is not `stray` (`Owed`), with the number of the connection that is open now. The push task works on a copy that may be older
  than the table; `NumberInv` says that a connection number is given once, so an entry of the
  copy and one of the table with equal numbers are the same connection (`SameConnection`).
  Assumes `HaPushParameters`: the bounds are naturals, and "no socket" is not a socket.
- `LedgerProofs`, the runs: `RunInv`. The recorder stores a copy of a run after it has let go of the
  mutex. `CopyInv` says what the copy can be by then: a run that ended, stored or given up
  before it is taken off the queue, or a beginning of the open run that is no shorter than what is
  stored of it. `LiveInv` makes the start of a run its name within a boot, `PartInv` relates
  it to what an earlier step stored, `SeenInv` says the same of what a listing has read; each but for
  the starts in `twice`. `SteadyInv` shows that there are none as long as neither clock nor offset
  changed. `StoredGrows` and `ListingMissesNone` are action properties; the second says what a
  listing can miss. Assumes
  `RunLedgerAssumption`: lengths are positive and the clock starts on the first day it can show.
  The energy: `EnergyInv`. The same day may be open, waiting, in persistEnergyLedger's copy,
  in the checkpoint and in the totals at once. `DateInv` orders their dates; `CountInv` says
  of each of these copies that the totals with it (`Found`), and the totals with the day that
  waits and then it (`Carried`), are no more than was booked. Both are needed: the second is
  what the first becomes when the commit goes through before the checkpoint is written.
  What `getEnergyTotals` reports is `Carried` of the open day, which no step lowers but
  the one that drops a day (`ReportedNeverFalls`, an action property). The loss: `LossInv`,
  for a boot without failures and a clock that is left alone. `SpanInv`: the open day is
  that of its date and no later than the clock's (`OpenSpan`; the end of a restored one is known up
  to `Gain`), and a day restored after its commit is open for no longer than its span is too
  long (`Overrun`), which bounds `wasted`. `CheckpointInv`: nothing booked but `wasted` (`Counted`) is missing from
  the ledger, and every checkpoint is a part of the day to be committed next (`Current`).
  `RecentInv`: there is a moment `b` such that all that NVS lacks was booked after it
  (`Since`), and the recorder's period and the save interval bound how long ago it was; while a
  pass of the recorder is under way, the same holds of what NVS will hold after it
  (`PassTotal`) and the moment of its copy. Assumes `EnergyLedgerAssumption`: intervals are
  positive, zones and summer time are less than a day, the clock starts at the end of its second day.
  `LedgersOnlyGrow` puts the three action properties together for the ledgers side by side.

Two of the modules prove what a recursive function computes. The library's induction rule
takes an operator as parameter, so each such proof takes the smallest counterexample
instead (`WFMin` and `NatLessThanWellFounded` of `WellFoundedInduction`), and gets the
function's defining equation from a lemma on recursive functions over the naturals.

The proofs have no bound on tasks, requests, tokens, commands, delays or sizes beyond those
assumptions; they do keep the abstractions of section 3. The inductive invariants were run
through TLC on the instances of section 4 before they were proved. While `RunInv` was
proved, `GivenUp` turned out to call a shorter copy of a run "given up" when the longer one replaced it;
it is now exact, which makes `RunsKept` stronger. While `JournalInv` was proved, the case of
two failing operations in one boot came up, which the model had left out, and while
`NewestInv` was, that of a row of failing writes and of a sample that is readable although its append
failed; all three are now in the models, and in section 7. While `LossInv` was proved, the bound
first written for `LossBounded` turned out to be too small by one interval between readings: what a
reading books reaches back to the reading before it, which may precede the checkpoint; and
"the writes succeed" turned out not to be enough, because a day that closes while another
waits is dropped (section 7). Both are now in the definition, and with days of unequal length so is
the hour that a restored day can be open too long.

Types of the bus, of the flash side and of the update model, `TruncatedOnlyIfForced`,
`SilentAfterRelease`, `ActiveBankChosen` and the refinement of `BusMaster` by `SafeRestart`
are proved and therefore no longer part of a run.

Only model-checked is liveness (`WaitsEnd`, `RebootHappens`, `CommitsOnceReachable`, `NetRecovers`,
`RequestsServed`, `LinkLossEscalates`, `WedgeEscalates`, `EverythingAnswered`,
`ClientsConverge`): fairness and ENABLED are outside the prover's reach.

## 6. Not modelled

Whole components (see the entries with status `not_modelled` or `partly`):

- The mapping of register windows to the heat pump's state, with its hazard that an
  acknowledged write changes the shown setpoint before the register image
  (`heatpump_controller.cpp:1400`): it needs the register layout of the arctic-macon
  submodule, which is not in the tree.
- User name, password and login sessions: logins and changes run on the one web server
  task, so there is no concurrency to explore; the write order to NVS is a list of keys.
- The choice of an access point, scans, and the drop statistics (`wifi_roam_policy.h`,
  parts of `wifi_drops.cpp`): pure functions with host tests.
- Screens, fonts, sensors, weather, location, time, TLS, boot statistics, notices: rendering,
  numeric code or configuration. Most of the repository's lines are of this kind or are
  vendored (ESP-Hosted, LVGL port) and generated (protobuf code, font bitmaps, tables): there
  is no state machine in them to model. Most request handlers of `api_server.cpp` translate
  one request to one call of a component.
- The passive listener, a build variant that never drives the bus.

Of the modelled parts: wrap of 32-bit event ids, the firmware-changed event, test-only entry
points, diagnostic counters, progress reporting, the text of log messages. In the event
journal: a commit word that is programmed although the write reports an error, and an erase of a
bank of which power loss leaves some records and not others (header and records are each gone
or untouched). After the reboot gate has closed events live in RAM only; `EventJournal`
leaves the gate out, `SafeRestart` has it. Telemetry queries of the API and of the screens may
initialise the ring if the recorder's own initialisation failed; they take the same mutex, and are no
further task of `SafeRestart`. In the ledgers: hourly buckets, thermal and
outdoor sums, the aging of month blobs, the migration of the old daily total; `localDay`'s cache,
which is replaced when date or offset change; zones that differ in their summer time rules; listings
of a part of the days. The eight entries of a listing hold the four of `s_run_queue` and the open
run, so that the model has no limit there. In the Home
Assistant modules: the contents of snapshots and messages, and waits for the mutex of the client
table in vain (250 and 500 ms; it is held for short loops over eight entries only, never over I/O); and
the first start of the push channel after boot (section 7). Progress of a factory reset.

## 7. Findings

With a run that shows them:

- `factory_flash`: `factory_reset.cpp:70` calls `esp_restart()` with flash writers
  possibly active, against `system_restart.h:16-17`.
- `ota_latch`: after a UI-only commit the commissioned latch is never set in that boot,
  against `ota_commit.h:24-25` and `:59`.

Observed while modelling, without a run of their own; the models have this behaviour unless
noted, and the properties are stated so that they hold with it:

- `history_storage.cpp:371`: an event write in flight outlives
  `history_storage_begin_reboot()`, against `system_restart.cpp:38-39`; the flash lock taken
  next still protects the reset (`SafeResetFlashIdle`, proved).
- `history_storage.cpp:371` with `event_log.cpp:179`: when an append fails, leaving its slot
  programmed, and the compaction after it fails too, the next append goes over the same slot and is
  acknowledged; it and the later events of this boot are then not read at the next start, unless a
  compaction completed before it (`tail = "broken"`). It takes two failing operations in one boot.
- `history_storage.cpp:785`: when both record writes of an append report an error but one
  of the records can be read, the append fails and the last time stamp does not advance; an
  older sample can be accepted after it, and a time and a sequence number given out twice (`stray`).
- `history_storage.cpp:785`: when as many record writes fail in a row as all sectors but one have
  records, the next rotation erases the newest acknowledged sample (`failRow`).
- `ota_commit.cpp:115`: a failed `esp_ota_mark_app_valid_cancel_rollback()` is reported as
  committed and not retried; `CommitsOnceReachable` therefore excludes it.
- `heatpump_controller.cpp:1164`: the new day is checkpointed although the commit of the
  closed one failed; a reset then loses that day, against `energy_store.h:6-7`.
- `energy_ledger.h:273`: `restore()` takes the stored day for 24 h. On the short day on which summer
  time begins a reset between `store_commit_day()` and `store_save_today()` restores the day that was just
  committed, with an end an hour too late, unless a reading of its own date corrects it; what is booked
  until then goes to a day already in the totals and is discarded, up to an hour, against
  `energy_store.h:6-7` (`wasted`; nothing has failed and nobody changed the clock).
- `run_ledger.h:80` with `run_store.cpp:93`: after the clock is set back by less than the age of a run,
  the next run can begin at the same second as that one. The store keeps one of the two under the same date,
  possibly the shorter, and a listing shows one (`twice`).
- `heatpump_controller.cpp:570`: a day that closes while the one before it still waits is
  dropped, and the reported total falls. It does not take two days of failing commits: when
  the first reading after a restart closes the restored day shortly before midnight, the next
  one closes before the recorder's next pass.
- `api_server.cpp:493`: `api_server_init_mdns()` does not look at `s_shut_down`, so mDNS can
  come back while an update is flashed, against `ota_manager.cpp:659-661`.
- `wifi_supervisor.cpp:283`: the boot grace time is not applied to a running server whose
  probes fail (`:114-115`); `:291`: a reboot can precede the fall back to HTTP (`:106-107`);
  `:198`: another software restart within half a second of the decision counts as a
  safety-net reboot (`:119-121`); `:611`: the reboot may follow the last bounce at the next
  check, without the gap of `:90`.
- `wifi_manager.cpp:527`: `CONNECTING` is stored after `esp_wifi_connect()`; a join that is
  faster than that would be overwritten (excluded by an assumption, see `LinkSupervisor`).
- `ha_websocket.cpp:317`: a connection that took over a socket number can get a snapshot
  before its `hello`, against `docs/home-assistant-integration.md:243-246`.
- `api_server.cpp:3314`: an id that has left the record of 32 commands is carried out again,
  against `docs/home-assistant-integration.md:57-58`.
- `api_server.cpp:3803`: a heating setpoint is validated and then always refused, since there
  is no branch that writes it, against `docs/home-assistant-integration.md:44-50` and `:220-221`.
- `api_server.cpp:7250`: a run that is stored between the two reads of a listing is in
  neither, against `:7206-7207`. `ListedOnce` says that a run is listed once at most;
  `ListingMissesNone` says that this is the only way to miss one.
- `ha_websocket.cpp:366`: `activeClientCount()` frees every entry while `s_server` is null, and the
  server accepts WebSockets from the registration of `/api/v1/events` on (`api_server.cpp:841`),
  before `ha_websocket_start()`. Of two clients that connect in between, the handshake of the second
  frees the entry of the first, which stays connected and is never served (`stray`), what
  `ha_websocket.cpp:528-537` was written against. At the first start after boot the table's mutex does
  not exist yet at that time.
