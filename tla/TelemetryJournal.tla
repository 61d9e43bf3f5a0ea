-------------------------- MODULE TelemetryJournal --------------------------
(***************************************************************************)
(* The telemetry journal of history_storage.cpp: a ring of flash sectors,  *)
(* each with a header that is committed last, holding one record per       *)
(* sample.  All operations run under s_telemetry_mutex, so what interferes *)
(* with one is a loss of power between or inside its flash operations, a   *)
(* flash operation that reports an error, and firmware of an older record  *)
(* format that runs for a while in between.                                *)
(*                                                                         *)
(* A step is one flash operation; pc names the one under way.  A sample is *)
(* its time stamp and sequence number.  Generations wrap at GenMod, which  *)
(* stands for 2^32.                                                        *)
(***************************************************************************)
EXTENDS Integers

CONSTANTS
    Sectors,    \* s_telemetry_sector_count
    Slots,      \* TELEMETRY_RECORDS_PER_SECTOR
    OldSlots,   \* TELEMETRY_V1_RECORDS_PER_SECTOR
    GenMod,     \* generations are counted modulo this
    MaxTime,    \* bound on time stamps
    MaxFaults,  \* bound on flash operations that fail
    MaxCuts,    \* bound on losses of power
    MaxOld      \* bound on samples written by older firmware

ASSUME TelemetryAssumption ==
    /\ Sectors \in Nat \ {0, 1} /\ Slots \in Nat \ {0} /\ OldSlots \in Nat \ {0}
    /\ GenMod \in Nat /\ GenMod > 2 * Sectors + 2
    /\ {MaxTime, MaxFaults, MaxCuts, MaxOld} \subseteq Nat

Ring    == 0..(Sectors - 1)
Most    == IF OldSlots > Slots THEN OldSlots ELSE Slots
Places  == 0..(Most - 1)
Times   == 1..MaxTime
Erased  == [ts |-> 0, seq |-> 0]
Torn    == [ts |-> -1, seq |-> 0]     \* fails its CRC
Records == [ts : Times, seq : Nat \ {0}]

(* The records of all sectors but one.                                     *)
RowLimit == (Sectors - 1) * Slots

NoHeader == [fmt |-> "none", gen |-> 0, first |-> 0]

VARIABLES
    \* flash
    hdr,        \* sector headers; "half" is programmed but not committed
    rec,        \* the slots of each sector
    \* history_storage.cpp
    ready,      \* s_telemetry_initialized
    active,     \* s_telemetry_active_sector
    gen,        \* s_telemetry_generation
    nextSeq,    \* s_telemetry_next_sequence
    nextSlot,   \* s_telemetry_next_slot
    lastTs,     \* s_telemetry_last_timestamp
    \* the operation under way
    pc,         \* the flash operation, "idle" between operations, "off"
    want,       \* time stamp to append, 0 for a read
    attempts,   \* attempts left in history_storage_append_telemetry
    target,     \* sector and generation telemetry_commit_sector works on
    tgen,
    \* environment and history
    acked,      \* time stamps whose append returned ESP_OK
    faults, cuts, old,
    failRow,    \* record writes that failed in a row, up to RowLimit
    stray       \* an append was reported failed, yet its sample can be read

flash   == <<hdr, rec>>
history == <<failRow, stray>>
journal == <<ready, active, gen, nextSeq, nextSlot, lastTs>>
op      == <<pc, want, attempts, target, tgen>>
vars    == <<hdr, rec, ready, active, gen, nextSeq, nextSlot, lastTs, pc, want, attempts, target,
             tgen, acked, faults, cuts, old, failRow, stray>>

TelemetryTypeOK ==
    /\ hdr \in [Ring -> [fmt : {"none", "half", "v1", "v2"}, gen : 0..(GenMod - 1), first : Nat]]
    /\ rec \in [Ring -> [Places -> Records \union {Erased, Torn}]]
    /\ ready \in BOOLEAN /\ active \in Ring /\ gen \in 0..(GenMod - 1) /\ nextSeq \in Nat \ {0}
    /\ nextSlot \in 0..Most /\ lastTs \in Times \union {0}
    /\ pc \in {"off", "idle", "erase", "header", "commit", "record"}
    /\ want \in Times \union {0} /\ attempts \in 0..2
    /\ target \in Ring /\ tgen \in 0..(GenMod - 1)
    /\ acked \subseteq Times /\ {faults, cuts, old} \subseteq Nat
    /\ failRow \in 0..RowLimit /\ stray \in BOOLEAN

-----------------------------------------------------------------------------
(* Reading the flash                                                       *)

Readable(s) == hdr[s].fmt \in {"v1", "v2"}

(* telemetry_slots_in: the smaller records of format 1 are more.           *)
SlotsIn(s) == 0..((IF hdr[s].fmt = "v1" THEN OldSlots ELSE Slots) - 1)

(* telemetry_decode_slot over a whole sector                               *)
Samples(s) == IF Readable(s) THEN {rec[s][k] : k \in SlotsIn(s)} \ {Erased, Torn} ELSE {}

AllSamples == UNION {Samples(s) : s \in Ring}

Kept == {r.ts : r \in AllSamples}

MaxOf(S) == CHOOSE m \in S \union {0} : \A k \in S : k <= m

SectorNewest(s) == MaxOf({r.ts : r \in Samples(s)})

(* generation_newer: the signed difference is positive.                    *)
GenerationNewer(g, h) == (g - h) % GenMod \in 1..(GenMod \div 2 - 1)

NextGeneration(g) == IF (g + 1) % GenMod = 0 THEN 1 ELSE (g + 1) % GenMod

(* Mutant: the slot after the records that decode.                         *)
FreeSlotAfterValid(s) == MaxOf({k + 1 : k \in {j \in SlotsIn(s) : rec[s][j] \notin {Erased, Torn}}})

(* One past the last slot that is programmed, readable or not.             *)
FreeSlot(s) == MaxOf({k + 1 : k \in {j \in SlotsIn(s) : rec[s][j] # Erased}})

(* Mutant: the highest generation wins, as before format 2.                *)
TakesOverByGeneration(s, found, best) == ~found \/ GenerationNewer(hdr[s].gen, hdr[best].gen)

(* Does sector s displace the best sector found so far?                    *)
TakesOver(s, found, best) ==
    \/ ~found
    \/ SectorNewest(s) > SectorNewest(best)
    \/ SectorNewest(s) = SectorNewest(best) /\ GenerationNewer(hdr[s].gen, hdr[best].gen)

(* The scan of telemetry_initialize_locked over sectors 0..n-1.            *)
Scan[n \in 0..Sectors] ==
    IF n = 0 THEN [found |-> FALSE, best |-> 0, maxGen |-> 0]
    ELSE LET p == Scan[n - 1]
             s == n - 1
         IN IF ~Readable(s) THEN p
            ELSE [found |-> TRUE,
                  best |-> IF TakesOver(s, p.found, p.best) THEN s ELSE p.best,
                  maxGen |-> IF ~p.found \/ GenerationNewer(hdr[s].gen, p.maxGen)
                             THEN hdr[s].gen ELSE p.maxGen]

NextSequence ==
    MaxOf({1} \union {hdr[s].first : s \in {s \in Ring : Readable(s)}}
              \union {r.seq + 1 : r \in AllSamples})

(* Mutant: time stamps are not recovered.                                  *)
LastTimestampLost == 0

LastTimestamp == MaxOf(Kept)

-----------------------------------------------------------------------------
(* telemetry_initialize_locked, rotation and the record write              *)

NextSector(s) == (s + 1) % Sectors

(* telemetry_commit_sector is called.                                      *)
CommitSector(s, g) == pc' = "erase" /\ target' = s /\ tgen' = g

(* The part of history_storage_append_telemetry before a flash operation;  *)
(* a read is over once the journal is initialized.                         *)
AppendTo(a, g, slot, last, ts, tries) ==
    IF ts = 0 \/ ts <= last
    THEN pc' = "idle" /\ want' = 0 /\ attempts' = 0 /\ UNCHANGED <<target, tgen>>
    ELSE /\ want' = ts /\ attempts' = tries
         /\ IF slot >= Slots THEN CommitSector(NextSector(a), NextGeneration(g))
                             ELSE pc' = "record" /\ UNCHANGED <<target, tgen>>

(* Call is history_storage_append_telemetry (ts # 0), or a query or a      *)
(* request for the latest time stamp (ts = 0).                             *)
Call(ts) ==
    /\ pc = "idle" /\ ready
    /\ AppendTo(active, gen, nextSlot, lastTs, ts, 2)
    /\ UNCHANGED <<flash, journal, acked, faults, cuts, old, history>>

(* The first call after a start initializes the journal: on virgin flash   *)
(* it commits sector 0, behind an older format it rotates at once.         *)
CallInit(ts) ==
    /\ pc = "idle" /\ ~ready
    /\ LET scan == Scan[Sectors]
       IN /\ active' = scan.best /\ gen' = scan.maxGen /\ nextSeq' = NextSequence
          /\ nextSlot' = IF scan.found THEN FreeSlot(scan.best) ELSE 0
          /\ lastTs' = LastTimestamp
          /\ IF ~scan.found
             THEN /\ CommitSector(0, 1) /\ want' = ts /\ attempts' = 2 /\ UNCHANGED ready
             ELSE IF hdr[scan.best].fmt # "v2"
                  THEN /\ CommitSector(NextSector(scan.best), NextGeneration(scan.maxGen))
                       /\ want' = ts /\ attempts' = 2 /\ UNCHANGED ready
                  ELSE /\ ready' = TRUE
                       /\ AppendTo(scan.best, scan.maxGen, FreeSlot(scan.best), LastTimestamp, ts, 2)
    /\ UNCHANGED <<flash, acked, faults, cuts, old, history>>

EraseSector ==
    /\ pc = "erase"
    /\ hdr' = [hdr EXCEPT ![target] = NoHeader]
    /\ rec' = [rec EXCEPT ![target] = [k \in Places |-> Erased]]
    /\ pc' = "header"
    /\ UNCHANGED <<journal, want, attempts, target, tgen, acked, faults, cuts, old, history>>

NewHeader == [fmt |-> "half", gen |-> tgen, first |-> nextSeq]

WriteHeader ==
    /\ pc = "header"
    /\ hdr' = [hdr EXCEPT ![target] = NewHeader]
    /\ pc' = "commit"
    /\ UNCHANGED <<rec, journal, want, attempts, target, tgen, acked, faults, cuts, old, history>>

(* The commit word, and what the callers do next: finish initializing,     *)
(* or go on to the record.                                                 *)
WriteCommit ==
    /\ pc = "commit"
    /\ hdr' = [hdr EXCEPT ![target].fmt = "v2"]
    /\ active' = target /\ gen' = tgen /\ nextSlot' = 0 /\ ready' = TRUE
    /\ AppendTo(target, tgen, 0, lastTs, want, attempts)
    /\ UNCHANGED <<rec, nextSeq, lastTs, acked, faults, cuts, old, history>>

(* Programming clears bits: a slot that is not erased becomes garbage.     *)
Programmed(before, r) == IF before = Erased THEN r ELSE Torn

(* A record write succeeds or power goes: the row of failures ends, unless *)
(* it was too long already.                                                *)
RowEnds == IF failRow < RowLimit THEN 0 ELSE failRow

NewRecord == [ts |-> want, seq |-> nextSeq]

WriteRecord ==
    /\ pc = "record"
    /\ rec' = [rec EXCEPT ![active][nextSlot] = Programmed(@, NewRecord)]
    /\ nextSlot' = nextSlot + 1 /\ lastTs' = want /\ nextSeq' = nextSeq + 1
    /\ acked' = acked \union {want}
    /\ pc' = "idle" /\ want' = 0 /\ attempts' = 0
    /\ failRow' = RowEnds
    /\ UNCHANGED <<hdr, ready, active, gen, target, tgen, faults, cuts, old, stray>>

-----------------------------------------------------------------------------
(* Faults                                                                  *)

(* What a part of an erase leaves of the target: each slot as it was, torn *)
(* or erased, whatever became of the others and of the header.             *)
HalfErased ==
    {t \in [Places -> {Erased, Torn} \union {rec[target][k] : k \in Places}] :
        \A k \in Places :
            t[k] = rec[target][k] \/ (k \in SlotsIn(target) /\ t[k] \in {Erased, Torn})}

(* What a part of the flash operation under way can leave behind.          *)
PartialFlash ==
    CASE pc = "erase" ->
            {<<h, [rec EXCEPT ![target] = t]>> :
                h \in {hdr, [hdr EXCEPT ![target] = NoHeader]}, t \in HalfErased}
      [] pc = "header" ->
            {<<hdr, rec>>, <<[hdr EXCEPT ![target] = NewHeader], rec>>}
      [] pc = "commit" ->
            {<<hdr, rec>>, <<[hdr EXCEPT ![target].fmt = "v2"], rec>>}
      [] pc = "record" ->
            {<<hdr, [rec EXCEPT ![active][nextSlot] = v]>> :
                v \in {rec[active][nextSlot], Torn, Programmed(rec[active][nextSlot], NewRecord)}}
      [] OTHER -> {<<hdr, rec>>}

(* telemetry_commit_sector reports an error: the call fails.               *)
CommitFails ==
    /\ pc \in {"erase", "header", "commit"} /\ faults < MaxFaults
    /\ faults' = faults + 1
    /\ \E f \in PartialFlash : hdr' = f[1] /\ rec' = f[2]
    /\ pc' = "idle" /\ want' = 0 /\ attempts' = 0
    /\ stray' = (stray \/ want \in Kept')
    /\ UNCHANGED <<journal, target, tgen, acked, cuts, old, failRow>>

(* The record write reports an error: the slot is given up, and the next   *)
(* one tried once.                                                         *)
RecordFails ==
    /\ pc = "record" /\ faults < MaxFaults
    /\ faults' = faults + 1
    /\ \E f \in PartialFlash : hdr' = f[1] /\ rec' = f[2]
    /\ nextSlot' = nextSlot + 1
    /\ IF attempts = 2
       THEN AppendTo(active, gen, nextSlot + 1, lastTs, want, 1) /\ UNCHANGED stray
       ELSE /\ pc' = "idle" /\ want' = 0 /\ attempts' = 0
            /\ stray' = (stray \/ want \in Kept')
            /\ UNCHANGED <<target, tgen>>
    /\ failRow' = IF failRow < RowLimit THEN failRow + 1 ELSE failRow
    /\ UNCHANGED <<ready, active, gen, nextSeq, lastTs, acked, cuts, old>>

PowerCut ==
    /\ pc # "off" /\ cuts < MaxCuts
    /\ cuts' = cuts + 1
    /\ \E f \in PartialFlash : hdr' = f[1] /\ rec' = f[2]
    /\ pc' = "off"
    /\ ready' = FALSE /\ active' = 0 /\ gen' = 0 /\ nextSeq' = 1 /\ nextSlot' = 0 /\ lastTs' = 0
    /\ want' = 0 /\ attempts' = 0 /\ target' = 0 /\ tgen' = 0
    /\ failRow' = RowEnds
    /\ UNCHANGED <<acked, faults, old, stray>>

Start ==
    /\ pc = "off" /\ pc' = "idle"
    /\ UNCHANGED <<flash, journal, want, attempts, target, tgen, acked, faults, cuts, old, history>>

(* Firmware that knows only format 1 runs for one sample.  It goes on in   *)
(* its own youngest sector, takes the next one when that is full, and      *)
(* starts at sector 0 when it finds none.  Its clock has moved on.         *)
OldFirmware(ts) ==
    /\ pc = "off" /\ old < MaxOld /\ \A t \in Kept \union acked : t < ts
    /\ LET Own  == {s \in Ring : hdr[s].fmt = "v1"}
           a    == CHOOSE s \in Own : \A s2 \in Own : hdr[s2].gen <= hdr[s].gen
           s    == IF Own = {} THEN 0 ELSE IF FreeSlot(a) < OldSlots THEN a ELSE NextSector(a)
           new  == Own = {} \/ s # a
           seq  == MaxOf({1} \union {r.seq + 1 : r \in UNION {Samples(o) : o \in Own}})
           here == IF new THEN [k \in Places |-> Erased] ELSE rec[s]
       IN /\ hdr' = IF new THEN [hdr EXCEPT ![s] = [fmt |-> "v1", first |-> seq,
                                    gen |-> IF Own = {} THEN 1 ELSE NextGeneration(hdr[a].gen)]]
                    ELSE hdr
          /\ rec' = [rec EXCEPT ![s] = [here EXCEPT ![IF new THEN 0 ELSE FreeSlot(a)] =
                                            [ts |-> ts, seq |-> seq]]]
    /\ acked' = acked \union {ts} /\ old' = old + 1
    /\ UNCHANGED <<journal, op, faults, cuts, history>>

-----------------------------------------------------------------------------

TelemetryInit ==
    /\ hdr = [s \in Ring |-> NoHeader] /\ rec = [s \in Ring |-> [k \in Places |-> Erased]]
    /\ ready = FALSE /\ active = 0 /\ gen = 0 /\ nextSeq = 1 /\ nextSlot = 0 /\ lastTs = 0
    /\ pc = "off" /\ want = 0 /\ attempts = 0 /\ target = 0 /\ tgen = 0
    /\ acked = {} /\ faults = 0 /\ cuts = 0 /\ old = 0
    /\ failRow = 0 /\ stray = FALSE

TelemetryNext ==
    \/ \E ts \in Times \union {0} : Call(ts) \/ CallInit(ts)
    \/ EraseSector \/ WriteHeader \/ WriteCommit \/ WriteRecord
    \/ CommitFails \/ RecordFails \/ PowerCut \/ Start
    \/ \E ts \in Times : OldFirmware(ts)

TelemetrySpec == TelemetryInit /\ [][TelemetryNext]_vars

-----------------------------------------------------------------------------
(* Properties                                                              *)

(* A record is only ever programmed into an erased slot of a committed     *)
(* sector of the current format, whatever a power cut or a failed write    *)
(* left there before: NOR flash would merge the two.                       *)
WritesErasedSlot ==
    pc = "record" =>
        nextSlot < Slots /\ rec[active][nextSlot] = Erased /\ hdr[active].fmt = "v2"

(* Sequence numbers follow time, across restarts and after all records of  *)
(* a sector have been erased, unless older firmware wrote or an append was *)
(* reported failed although its sample can be read: that sample's time and *)
(* number are given out again.                                             *)
SequenceFollowsTime ==
    old = 0 /\ ~stray => \A r1, r2 \in AllSamples : r1.ts < r2.ts => r1.seq <= r2.seq

(* After every recovery and every append the program's position in the     *)
(* ring fits what is in flash: history_storage_append_telemetry programs   *)
(* erased slots only, and gives out sequence numbers in the order of time. *)
PositionFitsFlash == TelemetryTypeOK /\ WritesErasedSlot /\ SequenceFollowsTime

(* What can be read is never older than the newest sample whose append was *)
(* acknowledged, at every moment: in the middle of a rotation, after a     *)
(* crash, after a roll back to format 1 and forward again.  Only when so   *)
(* many record writes failed in a row that they used up every other sector *)
(* does the next rotation erase it.                                        *)
NewestKept == failRow < RowLimit => MaxOf(Kept) >= MaxOf(acked)

SL == INSTANCE SampleLog WITH kept <- Kept, Batch <- Slots

(* No older firmware has written, no append failed although its sample can *)
(* be read, and failing record writes never used up the ring.              *)
Orderly == old = 0 /\ ~stray /\ failRow < RowLimit

(* An orderly journal implements SampleLog: samples are added in the order *)
(* of time, an erase, whole or cut short, takes none but the oldest, as    *)
(* many as a sector holds, and a restart neither loses nor invents one.    *)
SampleLogImplemented ==
    /\ SL!SampleInit
    /\ [][Orderly /\ old' = old => SL!SampleNext \/ UNCHANGED Kept]_vars
=============================================================================
