---------------------------- MODULE EventJournal ----------------------------
(***************************************************************************)
(* The event log: the RAM ring of main/event_log.cpp and the dual-bank     *)
(* flash journal of main/history_storage.cpp that makes it survive a       *)
(* reset.  Every operation runs under event_log's s_mutex from beginning   *)
(* to end, so the operations do not interleave; what interleaves with them *)
(* is a loss of power between any two flash operations or in the middle of *)
(* one, and a flash operation that reports an error.                       *)
(*                                                                         *)
(* A step is one flash operation.  The state before the step is the state  *)
(* in which the operation is under way; PowerCut and the error branches    *)
(* leave the flash in any of the states a part of the operation can        *)
(* produce (PartialFlash).  An event is its id and whether it has a time   *)
(* stamp; the boot an event belongs to is read off its id, because a boot  *)
(* hands out ids from firstId on and everything it restored is older.      *)
(***************************************************************************)
EXTENDS Integers, Sequences

CONSTANTS
    Ring,       \* EVENT_LOG_MAX_ENTRIES
    Slots,      \* EVENT_RECORDS_PER_BANK
    MaxId,      \* bound on event ids
    MaxGen,     \* bound on bank generations
    MaxFaults   \* bound on failing flash operations per boot

ASSUME JournalAssumption ==
    /\ Ring \in Nat \ {0} /\ Slots \in Nat /\ Ring < Slots
    /\ MaxId \in Nat /\ MaxGen \in Nat \ {0} /\ MaxFaults \in Nat

Banks  == {0, 1}
NoBank == -1

Entries == [id : 1..MaxId, timed : BOOLEAN]
Erased  == [id |-> 0, timed |-> FALSE]    \* all 0xFF; also a zeroed RAM slot
Torn    == [id |-> -1, timed |-> FALSE]   \* fails record_valid

VARIABLES
    \* flash
    hdr,        \* bank headers: generation and commit word
    rec,        \* record slots of each bank
    \* event_log.cpp
    buf, head, count,   \* s_buffer and s_event_ids, s_head, s_count
    nextId,             \* s_next_event_id
    firstId,            \* stands for s_boot_id: the first id of this boot
    clock,              \* time() is past 2024
    ready,              \* s_storage_ready
    \* history_storage.cpp
    active, gen,        \* s_active_bank, s_generation
    nextRec,            \* s_next_record
    \* the operation under way
    pc,         \* which flash operation is running, "idle" between operations
    todo,       \* ring indices still to be back-filled
    compact,    \* the back-fill gave up appending
    written,    \* records copied into the replacement bank
    \* environment and history
    faults,     \* flash errors so far in this boot
    stored,     \* every flash operation of the last operation reported ESP_OK
    sound,      \* no flash operation has failed yet, in any boot
    tail        \* an append of this boot "failed" and waits for its compaction,
                \* which failed as well: "broken"; else "whole"

flash   == <<hdr, rec>>
ramLog  == <<buf, head, count, nextId, firstId>>
journal == <<active, gen, nextRec>>
history == <<sound, tail>>
vars    == <<hdr, rec, buf, head, count, nextId, firstId, clock, ready, active, gen,
             nextRec, pc, todo, compact, written, faults, stored, sound, tail>>

-----------------------------------------------------------------------------
(* Reading the flash: history_storage_init and history_storage_load_events *)

HeaderValid(b) == hdr[b].committed

(* The bank a boot picks: the valid one, of two the younger, bank 0 on a   *)
(* tie.                                                                    *)
Chosen ==
    CASE HeaderValid(0) /\ HeaderValid(1) -> IF hdr[1].gen > hdr[0].gen THEN 1 ELSE 0
      [] HeaderValid(0) /\ ~HeaderValid(1) -> 0
      [] ~HeaderValid(0) /\ HeaderValid(1) -> 1
      [] OTHER -> NoBank

(* Records of a bank before the first slot that is erased or fails its     *)
(* checks.                                                                 *)
ValidCount(cells) ==
    CHOOSE n \in 0..Slots :
        /\ \A s \in 1..n : cells[s].id > 0
        /\ n < Slots => cells[n + 1].id <= 0

DamagedTail(cells) == ValidCount(cells) < Slots /\ cells[ValidCount(cells) + 1] = Torn

(* A record with a known id replaces the entry in place; a new one pushes  *)
(* out the oldest entry when the ring is full.                             *)
Upsert(log, r) ==
    IF \E i \in DOMAIN log : log[i].id = r.id
    THEN [i \in DOMAIN log |-> IF log[i].id = r.id THEN r ELSE log[i]]
    ELSE Append(IF Len(log) < Ring THEN log ELSE Tail(log), r)

(* The log after the first n slots of a bank.                              *)
Restored(cells) ==
    LET Log[n \in 0..Slots] == IF n = 0 THEN <<>> ELSE Upsert(Log[n - 1], cells[n])
    IN Log

Replay(cells) == Restored(cells)[ValidCount(cells)]

(* One past the largest id in the bank, evicted events included.           *)
NextIdOf(cells) ==
    CHOOSE n \in 1..(MaxId + 1) :
        /\ \A s \in 1..ValidCount(cells) : cells[s].id < n
        /\ n > 1 => \E s \in 1..ValidCount(cells) : cells[s].id = n - 1

(* The log the next boot would restore.                                    *)
Disk == IF Chosen = NoBank THEN <<>> ELSE Replay(rec[Chosen])

-----------------------------------------------------------------------------
(* The RAM ring                                                            *)

IndexOf(i) == (head + Ring - count + i) % Ring

(* Oldest first; the order in which history_storage_replace_events copies  *)
(* the ring and the reverse of the order event_log_get reports it.         *)
Contents == [i \in 1..count |-> buf[IndexOf(i - 1)]]

Newest == (head + Ring - 1) % Ring

(* What event_log_time_synced will stamp: the events of this boot without  *)
(* a time, unless their reconstructed time lies before 2024, which can     *)
(* only be true of the oldest ones.                                        *)
Unstamped(oldest) ==
    {x \in {IndexOf(i) : i \in 0..(count - 1)} :
        buf[x].id >= firstId /\ ~buf[x].timed /\ buf[x].id >= oldest}

(* It starts from the newest.                                              *)
Stamping == CHOOSE x \in todo : \A y \in todo : buf[y].id <= buf[x].id

-----------------------------------------------------------------------------
(* Flash operations                                                        *)

(* Programming clears bits: a slot that is not erased becomes garbage.     *)
Programmed(old, e) == IF old = Erased THEN e ELSE Torn

(* Mutant of Target: the active bank itself is rewritten in place.         *)
TargetInPlace == IF active = NoBank THEN 0 ELSE active

(* The bank being rewritten: the inactive one, bank 0 when formatting.     *)
Target == IF active = NoBank THEN 0 ELSE 1 - active

(* A journal append is under way, for this entry.                          *)
Appending ==
    /\ ready /\ nextRec < Slots
    /\ \/ pc = "append"
       \/ pc = "backfill" /\ todo # {} /\ ~compact

AppendEntry ==
    IF pc = "append" THEN buf[Newest] ELSE [buf[Stamping] EXCEPT !.timed = TRUE]

(* Every state a record write that stops half-way can leave behind.        *)
PartialRecord(b, s, e) ==
    {rec} \cup {[rec EXCEPT ![b][s] = x] : x \in {Torn, Programmed(rec[b][s], e)}}

BlankBank == [s \in 1..Slots |-> Erased]
NoHeader  == [gen |-> 0, committed |-> FALSE]

PartialFlash ==
    CASE Appending ->
            {hdr} \X PartialRecord(active, nextRec + 1, AppendEntry)
      [] pc = "erase" ->
            {hdr, [hdr EXCEPT ![Target] = NoHeader]}
                \X {rec, [rec EXCEPT ![Target] = BlankBank]}
      [] pc = "copy" /\ written < count ->
            {hdr} \X PartialRecord(Target, written + 1, Contents[written + 1])
      [] pc = "header" ->
            {hdr, [hdr EXCEPT ![Target].gen = gen + 1]} \X {rec}
      [] pc = "commit" ->
            {hdr, [hdr EXCEPT ![Target].committed = TRUE]} \X {rec}
      [] OTHER -> {<<hdr, rec>>}

(* An operation that reports an error leaves the same partial states,      *)
(* except that the one-word commit write then has not happened.            *)
FaultFlash == IF pc = "commit" THEN {<<hdr, rec>>} ELSE PartialFlash

(* The flash operation under way fails.                                    *)
Fault ==
    /\ faults < MaxFaults
    /\ faults' = faults + 1 /\ sound' = FALSE
    /\ \E f \in FaultFlash : hdr' = f[1] /\ rec' = f[2]

-----------------------------------------------------------------------------
(* Boot                                                                    *)

Room(id, g) == id <= MaxId /\ g < MaxGen

RamReset ==
    /\ buf' = [i \in 0..(Ring - 1) |-> Erased] /\ head' = 0 /\ count' = 0
    /\ nextId' = 1 /\ firstId' = 1
    /\ active' = NoBank /\ gen' = 0 /\ nextRec' = 0
    /\ ready' = FALSE /\ todo' = {} /\ compact' = FALSE /\ written' = 0
    /\ stored' = FALSE

Init ==
    /\ hdr = [b \in Banks |-> NoHeader]
    /\ rec = [b \in Banks |-> BlankBank]
    /\ buf = [i \in 0..(Ring - 1) |-> Erased] /\ head = 0 /\ count = 0
    /\ nextId = 1 /\ firstId = 1 /\ clock = FALSE
    /\ active = NoBank /\ gen = 0 /\ nextRec = 0
    /\ ready = FALSE /\ todo = {} /\ compact = FALSE /\ written = 0
    /\ pc = "off" /\ faults = 0 /\ stored = FALSE
    /\ sound = TRUE /\ tail = "whole"

(* history_storage_init with no valid bank: format bank 0.                 *)
PowerUpEmpty ==
    /\ pc = "off" /\ Chosen = NoBank
    /\ pc' = "erase"
    /\ clock' \in BOOLEAN
    /\ UNCHANGED <<flash, ramLog, journal, ready, todo, compact, written, faults,
                   history, stored>>

(* Mutant of PowerUpLoad: a damaged tail is skipped without compaction.    *)
PowerUpKeepsTail ==
    /\ pc = "off" /\ Chosen # NoBank
    /\ Room(NextIdOf(rec[Chosen]), hdr[Chosen].gen)
    /\ LET log == Disk IN
        /\ buf' = [i \in 0..(Ring - 1) |-> IF i < Len(log) THEN log[i + 1] ELSE Erased]
        /\ count' = Len(log) /\ head' = Len(log) % Ring
    /\ nextId' = NextIdOf(rec[Chosen]) /\ firstId' = NextIdOf(rec[Chosen])
    /\ active' = Chosen /\ gen' = hdr[Chosen].gen /\ nextRec' = ValidCount(rec[Chosen])
    /\ ready' = TRUE
    /\ pc' = "start"
    /\ clock' \in BOOLEAN
    /\ UNCHANGED <<flash, todo, compact, written, faults, history, stored>>

(* Load the chosen bank into the ring; a damaged tail forces a compaction  *)
(* before the storage counts as ready.                                     *)
PowerUpLoad ==
    /\ pc = "off" /\ Chosen # NoBank
    /\ Room(NextIdOf(rec[Chosen]), hdr[Chosen].gen)
    /\ LET log == Disk IN
        /\ buf' = [i \in 0..(Ring - 1) |-> IF i < Len(log) THEN log[i + 1] ELSE Erased]
        /\ count' = Len(log) /\ head' = Len(log) % Ring
    /\ nextId' = NextIdOf(rec[Chosen]) /\ firstId' = NextIdOf(rec[Chosen])
    /\ active' = Chosen /\ gen' = hdr[Chosen].gen /\ nextRec' = ValidCount(rec[Chosen])
    /\ ready' = ~DamagedTail(rec[Chosen])
    /\ pc' = IF DamagedTail(rec[Chosen]) THEN "erase" ELSE "start"
    /\ clock' \in BOOLEAN
    /\ UNCHANGED <<flash, todo, compact, written, faults, history, stored>>

-----------------------------------------------------------------------------
(* Operations                                                              *)

(* event_log_record up to its journal append; without storage that is all. *)
PushEvent ==
    /\ Room(nextId, gen)
    /\ buf' = [buf EXCEPT ![head] = [id |-> nextId, timed |-> clock]]
    /\ head' = (head + 1) % Ring
    /\ count' = IF count < Ring THEN count + 1 ELSE count
    /\ nextId' = nextId + 1
    /\ pc' = IF ready THEN "append" ELSE "idle"
    /\ stored' = FALSE
    /\ UNCHANGED <<flash, firstId, clock, ready, journal, todo, compact, written,
                   faults, history>>

(* event_log_init ends by recording EVENT_SYSTEM_START.                    *)
RecordStart == pc = "start" /\ PushEvent

Record == pc = "idle" /\ PushEvent

ClockSet ==
    /\ pc = "idle" /\ ~clock
    /\ clock' = TRUE
    /\ UNCHANGED <<flash, ramLog, ready, journal, pc, todo, compact, written, faults,
                   history, stored>>

(* event_log_time_synced: SNTP has set the clock.                          *)
TimeSynced ==
    /\ pc = "idle" /\ clock /\ gen < MaxGen
    /\ \E oldest \in firstId..nextId : todo' = Unstamped(oldest)
    /\ todo' # {}
    /\ pc' = "backfill"
    /\ stored' = FALSE
    /\ UNCHANGED <<flash, ramLog, clock, ready, journal, compact, written, faults,
                   history>>

Clear ==
    /\ pc = "idle" /\ gen < MaxGen
    /\ head' = 0 /\ count' = 0
    /\ buf' = [i \in 0..(Ring - 1) |-> Erased]
    /\ pc' = IF ready THEN "erase" ELSE "idle"
    /\ stored' = FALSE
    /\ UNCHANGED <<flash, nextId, firstId, clock, ready, journal, todo, compact,
                   written, faults, history>>

-----------------------------------------------------------------------------
(* history_storage_append_event for a recorded event                       *)

AppendOk ==
    /\ pc = "append" /\ Appending
    /\ rec' = [rec EXCEPT ![active][nextRec + 1] = Programmed(@, AppendEntry)]
    /\ nextRec' = nextRec + 1
    /\ pc' = "idle"
    /\ stored' = TRUE
    /\ UNCHANGED <<hdr, ramLog, clock, ready, active, gen, todo, compact, written,
                   faults, history>>

FailedTail == IF tail = "broken" THEN "broken" ELSE "failed"

(* Mutant of AppendFails: the error is only logged.                        *)
AppendFailsIgnored ==
    /\ pc = "append" /\ Appending
    /\ Fault
    /\ pc' = "idle"
    /\ tail' = FailedTail
    /\ UNCHANGED <<ramLog, clock, ready, journal, todo, compact, written, stored>>

AppendFails ==
    /\ pc = "append" /\ Appending
    /\ Fault
    /\ pc' = "erase"
    /\ tail' = FailedTail
    /\ UNCHANGED <<ramLog, clock, ready, journal, todo, compact, written, stored>>

(* ESP_ERR_NO_MEM: the bank is full, compact the ring instead.             *)
AppendNoRoom ==
    /\ pc = "append" /\ nextRec >= Slots
    /\ pc' = "erase"
    /\ UNCHANGED <<flash, ramLog, clock, ready, journal, todo, compact, written,
                   faults, history, stored>>

-----------------------------------------------------------------------------
(* One iteration of the back-fill loop: stamp the entry in RAM and, until  *)
(* an append fails, append its new version.                                *)

StampHead ==
    /\ pc = "backfill" /\ todo # {}
    /\ buf' = [buf EXCEPT ![Stamping].timed = TRUE]
    /\ todo' = todo \ {Stamping}
    /\ UNCHANGED <<head, count, nextId, firstId, clock, ready, active, gen, pc, written,
                   stored>>

BackfillOk ==
    /\ Appending /\ StampHead
    /\ rec' = [rec EXCEPT ![active][nextRec + 1] = Programmed(@, AppendEntry)]
    /\ nextRec' = nextRec + 1
    /\ UNCHANGED <<hdr, compact, faults, history>>

BackfillFails ==
    /\ Appending /\ StampHead
    /\ Fault
    /\ compact' = TRUE
    /\ tail' = FailedTail
    /\ UNCHANGED nextRec

(* The bank is full, or an earlier append failed, or there is no storage.  *)
BackfillRamOnly ==
    /\ ~Appending /\ StampHead
    /\ compact' = ready
    /\ UNCHANGED <<flash, nextRec, faults, history>>

BackfillEnd ==
    /\ pc = "backfill" /\ todo = {}
    /\ pc' = IF compact THEN "erase" ELSE "idle"
    /\ compact' = FALSE
    /\ stored' = (ready /\ ~compact)
    /\ UNCHANGED <<flash, ramLog, clock, ready, journal, todo, written, faults,
                   history>>

-----------------------------------------------------------------------------
(* history_storage_replace_events: erase the inactive bank, copy the ring, *)
(* write the header, write its commit word.  initialize_empty_bank takes   *)
(* the same steps on bank 0 with nothing to copy.                          *)

EraseBank ==
    /\ pc = "erase"
    /\ hdr' = [hdr EXCEPT ![Target] = NoHeader]
    /\ rec' = [rec EXCEPT ![Target] = BlankBank]
    /\ written' = 0
    /\ pc' = "copy"
    /\ UNCHANGED <<ramLog, clock, ready, journal, todo, compact, faults, history, stored>>

CopyRecord ==
    /\ pc = "copy" /\ written < count
    /\ rec' = [rec EXCEPT ![Target][written + 1] = Programmed(@, Contents[written + 1])]
    /\ written' = written + 1
    /\ UNCHANGED <<hdr, ramLog, clock, ready, journal, pc, todo, compact, faults,
                   history, stored>>

CopyDone ==
    /\ pc = "copy" /\ written = count
    /\ pc' = "header"
    /\ UNCHANGED <<flash, ramLog, clock, ready, journal, todo, compact, written,
                   faults, history, stored>>

WriteHeader ==
    /\ pc = "header"
    /\ hdr' = [hdr EXCEPT ![Target].gen = gen + 1]
    /\ pc' = "commit"
    /\ UNCHANGED <<rec, ramLog, clock, ready, journal, todo, compact, written,
                   faults, history, stored>>

(* The commit word switches banks; at boot it also makes the storage ready.*)
CommitBank ==
    /\ pc = "commit"
    /\ hdr' = [hdr EXCEPT ![Target].committed = TRUE]
    /\ active' = Target /\ gen' = gen + 1 /\ nextRec' = written
    /\ ready' = TRUE
    /\ pc' = IF ready THEN "idle" ELSE "start"
    /\ stored' = ready
    /\ written' = 0
    /\ tail' = "whole"
    /\ UNCHANGED <<rec, ramLog, clock, todo, compact, faults, sound>>

(* A failing step ends the job.  At run time the old bank stays in use and *)
(* the error is only logged; at boot persistence is off until the next     *)
(* boot and nothing is restored.                                           *)
JobFails ==
    /\ pc \in {"erase", "copy", "header", "commit"}
    /\ pc = "copy" => written < count
    /\ Fault
    /\ pc' = IF ready THEN "idle" ELSE "start"
    /\ count' = IF ready THEN count ELSE 0
    /\ head' = IF ready THEN head ELSE 0
    /\ written' = 0
    /\ stored' = FALSE
    /\ tail' = IF ready /\ tail # "whole" THEN "broken" ELSE tail
    /\ UNCHANGED <<buf, nextId, firstId, clock, ready, journal, todo, compact>>

-----------------------------------------------------------------------------
(* Loss of power, or any other reset, at any moment.                       *)
PowerCut ==
    /\ pc # "off"
    /\ \E f \in PartialFlash : hdr' = f[1] /\ rec' = f[2]
    /\ RamReset
    /\ pc' = "off" /\ faults' = 0 /\ clock' = FALSE /\ tail' = "whole"
    /\ UNCHANGED sound

Next ==
    \/ PowerUpEmpty \/ PowerUpLoad \/ PowerCut
    \/ RecordStart \/ Record \/ ClockSet \/ TimeSynced \/ Clear
    \/ AppendOk \/ AppendFails \/ AppendNoRoom
    \/ BackfillOk \/ BackfillFails \/ BackfillRamOnly \/ BackfillEnd
    \/ EraseBank \/ CopyRecord \/ CopyDone \/ WriteHeader \/ CommitBank \/ JobFails

JournalSpec == Init /\ [][Next]_vars

-----------------------------------------------------------------------------
(* Properties                                                              *)

(* Types of flash, RAM log and operation: indices stay inside ring and     *)
(* banks through every wrap of event_log_record and compaction.            *)
JournalTypeOK ==
    /\ hdr \in [Banks -> [gen : 0..MaxGen, committed : BOOLEAN]]
    /\ rec \in [Banks -> [1..Slots -> Entries \cup {Erased, Torn}]]
    /\ buf \in [0..(Ring - 1) -> Entries \cup {Erased}]
    /\ head \in 0..(Ring - 1) /\ count \in 0..Ring
    /\ nextId \in 1..(MaxId + 1) /\ firstId \in 1..(MaxId + 1)
    /\ clock \in BOOLEAN /\ ready \in BOOLEAN
    /\ active \in Banks \cup {NoBank} /\ gen \in 0..MaxGen /\ nextRec \in 0..Slots
    /\ pc \in {"off", "start", "idle", "append", "backfill", "erase", "copy", "header",
               "commit"}
    /\ todo \subseteq 0..(Ring - 1) /\ compact \in BOOLEAN /\ written \in 0..Ring
    /\ faults \in 0..MaxFaults /\ stored \in BOOLEAN
    /\ sound \in BOOLEAN /\ tail \in {"whole", "failed", "broken"}

(* As long as no flash operation has failed, the flash holds between       *)
(* operations exactly what the program reports: a reboot at that moment    *)
(* restores the same events in the same order, with the same time stamps,  *)
(* however often the ring and the bank have wrapped.                       *)
IdleSynced == sound /\ pc = "idle" => ready /\ Disk = Contents

EventsOf(log) == {log[i] : i \in DOMAIN log}

(* When every flash operation of an operation succeeded, every event the   *)
(* program reports is on flash in its latest version, whatever failed      *)
(* earlier in this boot or was cut short in earlier ones: unless an append *)
(* failed and the compaction that should repair it failed too.             *)
StoredEventsDurable ==
    pc = "idle" /\ ready /\ stored /\ tail # "broken" =>
        EventsOf(Contents) \subseteq EventsOf(Disk)

(* What the journal took survives: an event whose append was acknowledged  *)
(* is replayed by a restart, and without failures all the program reports. *)
JournalDurable == JournalTypeOK /\ StoredEventsDurable /\ IdleSynced

(* The running program appends to the bank the next boot will choose, or   *)
(* the boot would not see what was appended.                               *)
ActiveBankChosen ==
    active # NoBank => Chosen = active /\ gen = hdr[active].gen

(* What makes ActiveBankChosen inductive: two committed banks never share  *)
(* a generation, the bank in use is the youngest, and the bank being       *)
(* rewritten stays uncommitted, under the next generation, to the end.     *)
BankInv ==
    /\ hdr \in [Banks -> [gen : Nat, committed : BOOLEAN]]
    /\ active \in Banks \cup {NoBank} /\ gen \in Nat
    /\ HeaderValid(0) /\ HeaderValid(1) => hdr[0].gen # hdr[1].gen
    /\ active # NoBank =>
        /\ HeaderValid(active) /\ hdr[active].gen = gen
        /\ HeaderValid(1 - active) => hdr[1 - active].gen < gen
    /\ active = NoBank /\ pc # "off" => ~HeaderValid(0) /\ ~HeaderValid(1)
    /\ pc = "off" => active = NoBank
    /\ pc \in {"copy", "header", "commit"} => ~HeaderValid(Target)
    /\ pc = "commit" => hdr[Target].gen = gen + 1

IdsOf(log) == {log[i].id : i \in DOMAIN log}

(* No step, no failing flash operation and no loss of power makes the      *)
(* flash forget an event that the program still reports, but an append     *)
(* behind one that failed and was not repaired.                            *)
NeverForgets ==
    [][~(tail = "broken" /\ Appending) =>
            IdsOf(Disk) \cap IdsOf(Contents) \subseteq IdsOf(Disk')]_vars

Abstract == INSTANCE DurableLog
    WITH mem <- Contents, disk <- Disk, on <- pc # "off"

(* The journal implements the abstract durable log: as long as no flash    *)
(* operation fails, every step of event_log.cpp and history_storage.cpp    *)
(* and every loss of power is one of DurableLog, so that at every moment a *)
(* boot would restore the log from before or after the operation under way.*)
SoundImplementsDurableLog ==
    /\ Abstract!LogInit
    /\ [][sound' => [Abstract!LogNext]_<<Contents, Disk, pc # "off">>]_vars
=============================================================================
