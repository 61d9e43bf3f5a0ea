------------------------------ MODULE RunLedger ------------------------------
(***************************************************************************)
(* The summaries of compressor runs: RunTracker (run_ledger.h), the queue  *)
(* of finished runs and its persisting by the recorder task                *)
(* (heatpump_controller.cpp), the store of a day's runs (run_store.cpp),   *)
(* and the listing of the stored and the unstored ones (api_server.cpp).   *)
(*                                                                         *)
(* A run is its date, its first and its last reading; what was summed over *)
(* it follows from those.  A day's runs are a set: they are found by their *)
(* first reading, whatever their order.  The clock may be set back, and    *)
(* local time may move, by a change of zone or the beginning or the end of *)
(* summer time.                                                            *)
(***************************************************************************)
EXTENDS Integers, Sequences, FiniteSets, SequencesExt

CONSTANTS
    DayLen,         \* ticks in a day
    Offsets,        \* offsets of local time
    StepsBack,      \* by how much the clock may be set back
    MaxStep,        \* kMaxStepSeconds
    QueueLen,       \* kRunQueue
    PerDay,         \* kMaxRunsPerDay
    DaysKept,       \* kRunDaysKept
    SweepDays,      \* the days a new day ages out at a time, 60 in the code
    StoreFails,     \* whether store_append_run may fail
    Requests,       \* whether the runs are asked for
    MaxTime,        \* bound on the clock
    MaxShifts,      \* bound on changes of clock or offset
    MaxBoots        \* bound on starts

ASSUME RunLedgerAssumption ==
    /\ {DayLen, MaxStep, QueueLen, PerDay, DaysKept, SweepDays, MaxBoots} \subseteq Nat \ {0}
    /\ Offsets \subseteq Nat /\ 0 \in Offsets /\ StepsBack \subseteq Nat \ {0}
    /\ {StoreFails, Requests} \subseteq BOOLEAN
    /\ {MaxTime, MaxShifts} \subseteq Nat /\ DayLen <= MaxTime

VARIABLES
    now, offset,    \* the clock and the offset of local time
    run, prev,      \* the open run or NoRun; the reference reading, -1 without
    queue,          \* s_run_queue, oldest first
    stored,         \* the runs in NVS
    pc, force,      \* persistEnergyLedger: its step, whether a restart follows
    left, copy,     \* persistRuns: turns left; the run being stored
    seen, listing,  \* energy_runs_get_handler: what NVS held, what it listed
    boots, shifts,  \* starts, changes of clock or offset
    ended, given,   \* the runs that ended in this boot; those given up
    twice           \* readings at which a second run began

clocks  == <<now, offset, shifts>>
tracker == <<run, prev, queue>>
persist == <<pc, force, left, copy>>
reader  == <<seen, listing>>
vars    == <<now, offset, run, prev, queue, stored, pc, force, left, copy, seen, listing, boots,
             shifts, ended, given, twice>>

Runs   == [date : Nat, start : Nat, end : Nat]
NoRun  == [date |-> 0, start |-> 0, end |-> 0]
NoList == {NoRun}

TrackerTypeOK ==
    /\ now \in 0..MaxTime /\ offset \in Offsets /\ shifts \in 0..MaxShifts
    /\ run \in Runs /\ prev \in -1..MaxTime /\ twice \subseteq Nat
    /\ queue \in Seq(Runs) /\ Len(queue) <= QueueLen
    /\ boots \in 1..MaxBoots /\ ended \subseteq Runs /\ given \subseteq Runs

PersistTypeOK ==
    /\ pc \in {"idle", "take", "store", "pop", "open", "last"} /\ force \in BOOLEAN
    /\ left \in 0..QueueLen /\ copy \in Runs
    /\ seen \subseteq Runs /\ listing \subseteq Runs

StoreTypeOK ==
    /\ stored \subseteq Runs /\ IsFiniteSet(stored)
    /\ \A r \in stored : Cardinality({s \in stored : s.date = r.date}) <= PerDay

(* The queue and a day of the store stay within their arrays.              *)
RunTypeOK == TrackerTypeOK /\ PersistTypeOK /\ StoreTypeOK

-----------------------------------------------------------------------------
(* RunTracker::add and the queue                                           *)

(* finish: a run with nothing booked is not a run.                         *)
IsRun(r) == r.end > r.start

(* updateEnergyLedger: the oldest run gives way.                           *)
Enqueue(q, r) == Append(IF Len(q) = QueueLen THEN Tail(q) ELSE q, r)

(* localDay: the date of a reading.                                        *)
Today == (now + offset) \div DayLen

(* A run that begins now has the first reading of an earlier one: of one   *)
(* with readings booked, or with a trace under another date.               *)
Again(runs) == \E r \in runs : r.start = now /\ (IsRun(r) \/ r.date # Today)

WithinStep == prev >= 0 /\ now >= prev /\ now - prev <= MaxStep

Reading(running) ==
    LET booked == IF WithinStep THEN [run EXCEPT !.end = now] ELSE run
        ends   == run # NoRun /\ (~WithinStep \/ ~running)
        open   == run # NoRun /\ ~ends
        begins == ~open /\ running
        over   == IF ends /\ IsRun(booked) THEN {booked} ELSE {}
        traces == ended \union over \union stored \union (IF pc = "last" THEN {copy} ELSE {})
    IN /\ prev' = now
       /\ run' = CASE open -> booked
                   [] begins -> [date |-> Today, start |-> now, end |-> now]
                   [] OTHER -> NoRun
       /\ ended' = ended \union over
       /\ IF over # {}
          THEN /\ queue' = Enqueue(queue, booked)
               /\ given' = IF Len(queue) = QueueLen THEN given \union {Head(queue)} ELSE given
          ELSE UNCHANGED <<queue, given>>
       /\ twice' = IF begins /\ Again(traces) THEN twice \union {now} ELSE twice
       /\ UNCHANGED <<clocks, stored, persist, reader, boots>>

-----------------------------------------------------------------------------
(* store_append_run                                                        *)

OfDay(r) == {s \in stored : s.date = r.date}

(* The days a new day ages out.                                            *)
Aged(r) ==
    {s \in stored : /\ OfDay(r) = {} /\ s.date <= r.date - DaysKept
                    /\ s.date > r.date - DaysKept - SweepDays}

(* A run already stored is replaced, a full day keeps the runs it has, a   *)
(* new day ages out the old ones.                                          *)
StoreAppend(r, aged) ==
    LET same == {s \in OfDay(r) : s.start = r.start}
    IN IF same # {} \/ Cardinality(OfDay(r)) < PerDay
       THEN (stored \ (same \union aged)) \union {r}
       ELSE stored

(* Given up: the run, if its day is full, and the days that age out.       *)
GivenUp(r, aged) ==
    {s \in stored \union {r} : \A t \in StoreAppend(r, aged) : t.start # s.start}

(* A write that fails may have stored the run, but ages nothing out; an    *)
(* erase that fails is no failure.                                         *)
Store(r, done, failed) ==
    \E aged \in SUBSET Aged(r), ok \in BOOLEAN :
        /\ StoreFails \/ (ok /\ aged = Aged(r))
        /\ \/ ok \/ aged = {}
        /\ \/ stored' = StoreAppend(r, aged) /\ given' = given \union GivenUp(r, aged)
           \/ ~ok /\ UNCHANGED <<stored, given>>
        /\ pc' = IF ok THEN done ELSE failed

-----------------------------------------------------------------------------
(* persistRuns, then the open run when a restart follows; one caller at a  *)
(* time (s_persist_mutex)                                                  *)

PersistBegin(f) ==
    /\ pc = "idle" /\ pc' = "take" /\ force' = f /\ left' = QueueLen
    /\ f => boots < MaxBoots
    /\ UNCHANGED <<clocks, tracker, stored, copy, reader, boots, ended, given, twice>>

PersistTake ==
    /\ pc = "take"
    /\ IF left > 0 /\ queue # <<>>
       THEN pc' = "store" /\ copy' = Head(queue) /\ left' = left - 1
       ELSE pc' = "open" /\ UNCHANGED <<copy, left>>
    /\ UNCHANGED <<clocks, tracker, stored, force, reader, boots, ended, given, twice>>

PersistStore ==
    /\ pc = "store" /\ Store(copy, "pop", "open")
    /\ UNCHANGED <<clocks, tracker, force, left, copy, reader, boots, ended, twice>>

(* Mutant: the head is popped whichever run it is.                         *)
StillHeadBlind == queue # <<>>

(* Unless the queue overflowed meanwhile and dropped it already.           *)
StillHead == queue # <<>> /\ Head(queue).start = copy.start

PersistPop ==
    /\ pc = "pop" /\ pc' = "take"
    /\ queue' = IF StillHead THEN Tail(queue) ELSE queue
    /\ UNCHANGED <<clocks, run, prev, stored, force, left, copy, reader, boots, ended, given, twice>>

(* persistRuns and the open run give up when the state mutex is not        *)
(* obtained in time: the run stored last then stays queued.                *)
LockMissed ==
    /\ pc \in {"take", "pop", "open"}
    /\ pc' = IF pc = "open" THEN "idle" ELSE "open"
    /\ UNCHANGED <<clocks, tracker, stored, force, left, copy, reader, boots, ended, given, twice>>

(* current(): the run so far, copied under the lock and stored after it.   *)
OpenTake ==
    /\ pc = "open"
    /\ IF force /\ run # NoRun THEN pc' = "last" /\ copy' = run
                               ELSE pc' = "idle" /\ UNCHANGED copy
    /\ UNCHANGED <<clocks, tracker, stored, force, left, reader, boots, ended, given, twice>>

OpenStore ==
    /\ pc = "last" /\ Store(copy, "idle", "idle")
    /\ UNCHANGED <<clocks, tracker, force, left, copy, reader, boots, ended, twice>>

-----------------------------------------------------------------------------
(* energy_runs_get_handler: the stored runs, then the unstored ones        *)

ListStored ==
    /\ Requests /\ seen = NoList /\ seen' = stored /\ listing' = NoList
    /\ UNCHANGED <<clocks, tracker, stored, persist, boots, ended, given, twice>>

Merged(live) == {s \in seen : \A r \in live : r.start # s.start} \union live

(* getEnergyUnstoredRuns: the queue and the open run; each replaces a      *)
(* stored copy of it.                                                      *)
ListLive ==
    LET live == ToSet(queue) \union ({run} \ {NoRun})
    IN /\ seen # NoList /\ seen' = NoList
       /\ listing' = Merged(live)
       /\ UNCHANGED <<clocks, tracker, stored, persist, boots, ended, given, twice>>

-----------------------------------------------------------------------------
(* Time, restarts                                                          *)

Tick ==
    /\ now < MaxTime /\ now' = now + 1
    /\ UNCHANGED <<offset, shifts, tracker, stored, persist, reader, boots, ended, given, twice>>

(* The clock is set back, or local time moves.                             *)
Shift ==
    /\ shifts < MaxShifts /\ shifts' = shifts + 1
    /\ \/ \E d \in StepsBack : now - d >= DayLen /\ now' = now - d /\ UNCHANGED offset
       \/ \E o \in Offsets : o # offset /\ offset' = o /\ UNCHANGED now
    /\ UNCHANGED <<tracker, stored, persist, reader, boots, ended, given, twice>>

Restart ==
    /\ boots < MaxBoots /\ boots' = boots + 1
    /\ run' = NoRun /\ prev' = -1 /\ queue' = <<>>
    /\ pc' = "idle" /\ force' = FALSE /\ left' = 0 /\ copy' = NoRun
    /\ seen' = NoList /\ listing' = NoList /\ ended' = {} /\ given' = {}
    /\ UNCHANGED <<clocks, stored, twice>>

RunInit ==
    /\ now = DayLen /\ offset = 0 /\ shifts = 0 /\ run = NoRun /\ prev = -1 /\ queue = <<>>
    /\ stored = {} /\ twice = {}
    /\ pc = "idle" /\ force = FALSE /\ left = 0 /\ copy = NoRun
    /\ seen = NoList /\ listing = NoList /\ boots = 1 /\ ended = {} /\ given = {}

RecorderStep ==
    PersistTake \/ PersistStore \/ PersistPop \/ OpenTake \/ OpenStore \/ LockMissed

PollStep == \E running \in BOOLEAN : Reading(running)

OtherStep ==
    \/ \E f \in BOOLEAN : PersistBegin(f)
    \/ RecorderStep \/ ListStored \/ ListLive \/ Tick \/ Shift \/ Restart

RunNext == PollStep \/ OtherStep

RunSpec == RunInit /\ [][RunNext]_vars

-----------------------------------------------------------------------------
(* Properties                                                              *)

(* Every run that ended in this boot waits in the queue or is stored with  *)
(* all of its readings, unless it was given up: the oldest of a queue that *)
(* was full, a day that was full, a day aged out.  A run that overflowed   *)
(* while it was being stored takes no other run with it.                   *)
RunsKept ==
    \A r \in ended : r.start \in twice \/ r \in ToSet(queue) \/ r \in stored \/ r \in given

(* What is stored of a run only grows: the copy of the open run taken      *)
(* ahead of a restart never overwrites a later one.                        *)
StoredGrows ==
    [][\A r \in stored :
          \/ r.start \in twice
          \/ \E s \in stored' : s.date = r.date /\ s.start = r.start /\ s.end >= r.end
          \/ \E s \in stored' : s.date >= r.date + DaysKept]_vars

(* A day holds a run once, and so does the store.                          *)
StartsDiffer ==
    \A r, s \in stored : r.start = s.start /\ (r.date = s.date \/ r.start \notin twice) => r = s

(* No run is listed twice, although the one in progress was stored ahead   *)
(* of a restart that did not come yet, or was stored while it was listed.  *)
ListedOnce == \A r, s \in listing : r.start = s.start /\ r.start \notin twice => r = s

(* Runs are told apart by their first reading.  Two have the same one only *)
(* if the clock was set back or local time moved; of other runs:           *)
(* a finished compressor run is kept and no run is stored or listed twice, *)
(* however its persisting races new runs, listings, restarts and lost      *)
(* waits for the state mutex.                                              *)
RunsKeptOnce ==
    /\ RunTypeOK /\ RunsKept /\ StartsDiffer /\ ListedOnce
    /\ shifts = 0 => twice = {}

(* A listing misses a finished run only if it was stored after the listing *)
(* had read the store and left the queue before it read that.              *)
ListingMissesNone ==
    [][seen # NoList /\ seen' = NoList /\ boots' = boots =>
          \A r \in ended \ given :
              \/ r.start \in twice \/ \E l \in listing' : l.start = r.start
              \/ r \in stored /\ \A s \in seen : s.start # r.start]_vars

-----------------------------------------------------------------------------
(* The inductive invariant                                                 *)

(* The runs of this boot, and the open run being stored.                   *)
Live == ended \union ({run} \ {NoRun})

Storing == IF pc = "last" THEN {copy} ELSE {}

(* A run begins before it ends.                                            *)
Proper(r) == 0 < r.start /\ r.start <= r.end

ProperInv == DayLen <= now /\ \A r \in Live \union stored \union Storing : Proper(r)

(* As long as clock and offset did not change, readings are in order.      *)
SteadyInv ==
    shifts = 0 =>
        /\ twice = {} /\ offset = 0 /\ prev <= now
        /\ \A r \in Live \union stored \union Storing :
              r.end <= now /\ r.date = r.start \div DayLen

(* Runs of one boot begin at different readings.                           *)
LiveInv ==
    /\ \A r, s \in Live : r.start = s.start /\ r.start \notin twice => r = s
    /\ ToSet(queue) \subseteq ended
    /\ \A r \in ended : IsRun(r)
    /\ run # NoRun => run.end <= prev
    /\ run # NoRun /\ run.start \notin twice => run \notin ended

(* What is stored of a run is an earlier part of it or the whole.          *)
PartInv ==
    \A r \in Live, s \in stored :
        s.start = r.start /\ r.start \notin twice => s.date = r.date /\ s.end <= r.end

(* The run being stored is one that ended, or the open one as it was.      *)
CopyInv ==
    /\ pc \in {"store", "pop"} => copy \in ended
    /\ pc = "pop" /\ copy.start \notin twice => copy \in stored \union given
    /\ pc = "last" /\ copy.start \notin twice =>
          /\ \A r \in Live : r.start = copy.start => r.date = copy.date /\ copy.end <= r.end
          /\ \A s \in stored : s.start = copy.start => s.date = copy.date /\ s.end <= copy.end

SeenInv == \A r, s \in seen : r.start = s.start /\ r.start \notin twice => r = s

RunInv ==
    /\ RunTypeOK /\ ProperInv /\ SteadyInv /\ LiveInv /\ PartInv /\ CopyInv /\ SeenInv
    /\ RunsKept /\ StartsDiffer /\ ListedOnce
=============================================================================
