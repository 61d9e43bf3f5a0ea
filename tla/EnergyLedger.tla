---------------------------- MODULE EnergyLedger ----------------------------
(***************************************************************************)
(* The daily energy ledger: EnergyLedger::add and its day boundaries       *)
(* (energy_ledger.h), the hand-over of closed days to the recorder task    *)
(* and its checkpoints (heatpump_controller.cpp), and what NVS holds of    *)
(* both (energy_store.cpp).                                                *)
(*                                                                         *)
(* One unit of energy is booked per tick of connected time.  The poll task *)
(* adds readings, the recorder persists, the user changes the time zone,   *)
(* the clock is set back, a write to NVS fails, the device restarts.  The  *)
(* month blobs are one record of lifetime totals: a new month carries them *)
(* on.  Summer time makes one day of the year shorter and one longer.      *)
(***************************************************************************)
EXTENDS Integers

CONSTANTS
    DayTicks,       \* ticks in a day
    MaxInterval,    \* kMaxStepSeconds
    SaveInterval,   \* kSaveIntervalSeconds
    Period,         \* the recorder's period
    MaxGap,         \* the longest gap between two readings
    Zones,          \* offsets from UTC in winter
    Gain,           \* by how much summer time is ahead
    Summer,         \* dates that begin in summer time
    ChangeTick,     \* the tick of a day at which summer time begins or ends
    ClockSteps,     \* by how much the clock may be set back
    LastTime,       \* bound on the clock
    MaxZones,       \* bound on changes of zone or clock
    MaxStarts       \* bound on starts

(* The clock's first valid time, the end of its second day.                *)
FirstTime == 2 * DayTicks - 1

(* A zone is less than a day from UTC, and summer time too.                *)
ASSUME EnergyLedgerAssumption ==
    /\ {DayTicks, MaxInterval, SaveInterval, Period, MaxGap, MaxStarts} \subseteq Nat \ {0}
    /\ Zones \subseteq Int /\ (\A z \in Zones : -DayTicks < z /\ z < DayTicks)
    /\ Gain \in Nat /\ Gain < DayTicks /\ Summer \subseteq Nat /\ ChangeTick \in Nat
    /\ ClockSteps \subseteq Nat /\ {LastTime, MaxZones} \subseteq Nat /\ FirstTime <= LastTime

VARIABLES
    time, zone,     \* the clock and the local offset
    led,            \* the ledger: open day, its span, the reference reading
    saved,          \* saved_ and last_save_s_
    loaded,         \* s_ledger_loaded
    pending,        \* s_closed_day while s_closed_pending, else NoDay
    life,           \* s_lifetime
    nvsToday, nvsLife,  \* the checkpoint and the totals in NVS
    ppc, taken,     \* persistEnergyLedger: its step, and what it copied
    age, quiet,     \* ticks since the recorder last began, since the last reading
    changes, starts,    \* changes of zone or clock, starts
    booked,         \* energy booked, counted again from NVS at each start
    wasted,         \* the part of it booked to a day already committed
    lastDay,        \* date of the last day closed in this boot
    failed          \* whether a write, the state mutex or the hand-over of a day failed in this boot

clock == <<time, zone, changes, quiet>>
store == <<nvsToday, nvsLife>>
task  == <<ppc, taken, age>>
ghost == <<booked, wasted, lastDay, failed>>
ledgerVars == <<time, zone, led, saved, loaded, pending, life, nvsToday, nvsLife, ppc, taken, age,
                quiet, changes, starts, booked, wasted, lastDay, failed>>

NoDay  == [date |-> 0, off |-> 0, total |-> 0]
NoLed  == [open |-> FALSE, day |-> NoDay, from |-> 0, to |-> 0, exact |-> FALSE,
           prev |-> -1, on |-> FALSE]
NoCopy == [at |-> 0, closed |-> NoDay, save |-> FALSE, day |-> NoDay,
           life |-> [through |-> 0, total |-> 0]]
Totals == [through : Nat, total : Nat]
LocalOffsets == Zones \union {z + Gain : z \in Zones}

Days == [date : Nat, off : LocalOffsets, total : Nat] \union {NoDay}

Ledgers == [open : BOOLEAN, day : Days, from : Int, to : Int, exact : BOOLEAN,
            prev : -1..LastTime, on : BOOLEAN]

LedgerTypeOK ==
    /\ time \in 0..LastTime /\ zone \in Zones
    /\ led \in Ledgers
    /\ saved \in [day : Days, at : 0..LastTime]
    /\ loaded \in BOOLEAN /\ pending \in Days /\ life \in Totals
    /\ nvsToday \in Days /\ nvsLife \in Totals
    /\ ppc \in {"idle", "commit", "save", "apply"}
    /\ taken \in [at : 0..LastTime, closed : Days, save : BOOLEAN, day : Days, life : Totals]
    /\ age \in 0..Period /\ quiet \in 0..MaxGap /\ changes \in 0..MaxZones /\ starts \in 1..MaxStarts
    /\ booked \in Nat /\ wasted \in Nat /\ lastDay \in Nat /\ failed \in BOOLEAN

-----------------------------------------------------------------------------
(* EnergyLedger::add                                                       *)

Ahead(d) == IF d \in Summer THEN Gain ELSE 0

Midnight(d, z) == d * DayTicks - z - Ahead(d)

(* localDay: a day runs from its local midnight to the next one.           *)
DateAt(t, z) ==
    LET d == (t + z + Gain) \div DayTicks
    IN IF Midnight(d, z) <= t THEN d ELSE d - 1

StartOf(t, z) == Midnight(DateAt(t, z), z)
EndOf(t, z) == Midnight(DateAt(t, z) + 1, z)

OffsetAt(t, z) ==
    LET d == DateAt(t, z)
    IN z + Ahead(IF t - Midnight(d, z) >= ChangeTick THEN d + 1 ELSE d)

OpenDay(L) ==
    [L EXCEPT !.open = TRUE, !.day = [date |-> DateAt(time, zone), off |-> OffsetAt(time, zone),
                                        total |-> 0],
              !.from = StartOf(time, zone), !.to = EndOf(time, zone), !.exact = TRUE]

(* book: the interval [a, b) at the state of the reference reading.        *)
Energy(L, a, b) == IF b > a /\ L.on THEN b - a ELSE 0

Book(L, a, b) == [L EXCEPT !.day.total = @ + Energy(L, a, b)]

SetReference(L, on) == [L EXCEPT !.prev = time, !.on = on]

(* The span of a restored day becomes exact with a reading of its date.    *)
Spanned(L) ==
    IF ~L.exact /\ DateAt(time, zone) = L.day.date
    THEN [L EXCEPT !.from = StartOf(time, zone), !.to = EndOf(time, zone), !.exact = TRUE] ELSE L

(* A shift west lets the open day run on to the next local midnight.       *)
RunOn(L) ==
    IF time >= L.to /\ DateAt(time, zone) <= L.day.date
    THEN [L EXCEPT !.to = EndOf(time, zone)] ELSE L

(* The part of the interval that belongs to the day that opens.            *)
NewDayFrom(L) == IF L.prev > L.to THEN L.prev ELSE L.to

Behind(L) == time < L.from

(* The reference reading is close enough for the interval to be booked.    *)
InStep(L) == L.prev >= 0 /\ time >= L.prev /\ time - L.prev <= MaxInterval

(* One reading; fin is the day it closed.                                  *)
Add(led0, on) ==
    LET S     == Spanned(led0)
        L     == RunOn(S)
        over  == time >= L.to
        step  == InStep(L)
        Last  == IF step THEN Book(L, L.prev, L.to) ELSE L
        First == IF step THEN Book(OpenDay(L), NewDayFrom(L), time) ELSE OpenDay(L)
    IN CASE ~led0.open -> [led |-> SetReference(OpenDay(led0), on), fin |-> NoDay]
         [] led0.open /\ Behind(S) -> [led |-> [S EXCEPT !.prev = -1], fin |-> NoDay]
         [] led0.open /\ ~Behind(S) /\ over -> [led |-> SetReference(First, on), fin |-> Last.day]
         [] led0.open /\ ~Behind(S) /\ ~over ->
              [led |-> SetReference(IF step THEN Book(L, L.prev, time) ELSE L, on), fin |-> NoDay]

(* What the pump used since the last reading, as far as a reading counts.  *)
Used == IF InStep(led) /\ led.on THEN time - led.prev ELSE 0

(* What of it is booked to an open day that is in the totals already.      *)
Wasted ==
    IF led.open /\ led.day.date <= nvsLife.through /\ Used > 0
    THEN Energy(led, led.prev, IF time < led.to THEN time ELSE led.to) ELSE 0

(* updateEnergyLedger: a closed day is handed over unless one still waits. *)
EnergyReading(on) ==
    /\ loaded /\ quiet' = 0 /\ booked' = booked + Used /\ wasted' = wasted + Wasted
    /\ LET r == Add(led, on)
       IN /\ led' = r.led
          /\ pending' = IF r.fin # NoDay /\ pending = NoDay THEN r.fin ELSE pending
          /\ lastDay' = IF r.fin # NoDay THEN r.fin.date ELSE lastDay
          /\ failed' = (failed \/ (r.fin # NoDay /\ pending # NoDay))
    /\ UNCHANGED <<time, zone, changes, saved, loaded, life, store, task, starts>>

-----------------------------------------------------------------------------
(* persistEnergyLedger, on the recorder task or ahead of a restart         *)

PersistLoad ==
    /\ ppc = "idle" /\ ~loaded
    /\ loaded' = TRUE /\ life' = nvsLife /\ age' = 0
    /\ IF nvsToday = NoDay THEN UNCHANGED <<led, saved>>
       ELSE /\ led' = [NoLed EXCEPT !.open = TRUE, !.day = nvsToday,
                        !.from = nvsToday.date * DayTicks - nvsToday.off,
                        !.to = nvsToday.date * DayTicks - nvsToday.off + DayTicks]
            /\ saved' = [day |-> nvsToday, at |-> 0]
    /\ UNCHANGED <<clock, pending, store, ppc, taken, starts, ghost>>

(* Mutant: the open day is checkpointed once, then on demand only.         *)
SaveDueOnce(force) ==
    led.open /\ saved.day # led.day /\ (force \/ saved.day = NoDay \/ saved.day.date # led.day.date)

(* save_due                                                                *)
SaveDue(force) ==
    /\ led.open /\ saved.day # led.day
    /\ \/ force \/ saved.day = NoDay \/ saved.day.date # led.day.date
       \/ time - saved.at >= SaveInterval

(* A save is forced ahead of a restart.                                    *)
PersistEnergy(force) ==
    /\ ppc = "idle" /\ loaded /\ (force => starts < MaxStarts)
    /\ taken' = [at |-> time, closed |-> pending, save |-> SaveDue(force), day |-> led.day,
                 life |-> life]
    /\ ppc' = "commit" /\ age' = 0
    /\ UNCHANGED <<clock, led, saved, loaded, pending, life, store, starts, ghost>>

(* Mutant: the date is not compared with the totals.                       *)
AlreadyCountedNever(d) == FALSE

AlreadyCounted(d) == d.date <= nvsLife.through

(* store_commit_day                                                        *)
PersistCommit ==
    /\ ppc = "commit" /\ ppc' = "save"
    /\ \/ /\ taken.closed = NoDay \/ AlreadyCounted(taken.closed)
          /\ taken' = [taken EXCEPT !.life = nvsLife] /\ UNCHANGED nvsLife
       \/ /\ taken.closed # NoDay /\ ~AlreadyCounted(taken.closed)
          /\ nvsLife' = [through |-> taken.closed.date, total |-> nvsLife.total + taken.closed.total]
          /\ taken' = [taken EXCEPT !.life = nvsLife']
    /\ UNCHANGED <<clock, led, saved, loaded, pending, life, nvsToday, age, starts, ghost>>

(* A day that could not be stored is kept for the next call.               *)
CommitFails ==
    /\ ppc = "commit" /\ taken.closed # NoDay /\ ppc' = "save" /\ failed' = TRUE
    /\ taken' = [taken EXCEPT !.closed = NoDay]
    /\ UNCHANGED <<clock, led, saved, loaded, pending, life, store, age, starts, booked, wasted, lastDay>>

(* store_save_today                                                        *)
PersistSave ==
    /\ ppc = "save" /\ ppc' = "apply"
    /\ nvsToday' = IF taken.save THEN taken.day ELSE nvsToday
    /\ UNCHANGED <<clock, led, saved, loaded, pending, life, nvsLife, taken, age, starts, ghost>>

SaveFails ==
    /\ ppc = "save" /\ taken.save /\ ppc' = "apply" /\ failed' = TRUE
    /\ taken' = [taken EXCEPT !.save = FALSE]
    /\ UNCHANGED <<clock, led, saved, loaded, pending, life, store, age, starts, booked, wasted, lastDay>>

(* Mutant: the totals that include the day are not taken over.             *)
PersistApplyForgets ==
    /\ ppc = "apply" /\ ppc' = "idle" /\ taken' = NoCopy
    /\ pending' = IF taken.closed # NoDay THEN NoDay ELSE pending
    /\ saved' = IF taken.save THEN [day |-> taken.day, at |-> taken.at] ELSE saved
    /\ UNCHANGED <<clock, led, loaded, life, store, age, starts, ghost>>

PersistApply ==
    /\ ppc = "apply" /\ ppc' = "idle" /\ taken' = NoCopy
    /\ IF taken.closed # NoDay THEN pending' = NoDay /\ life' = taken.life
       ELSE UNCHANGED <<pending, life>>
    /\ saved' = IF taken.save THEN [day |-> taken.day, at |-> taken.at] ELSE saved
    /\ UNCHANGED <<clock, led, loaded, store, age, starts, ghost>>

(* The state mutex was not to be had in time: the ledger never learns what *)
(* was written, and the next call writes it again.                         *)
PersistUnapplied ==
    /\ ppc = "apply" /\ ppc' = "idle" /\ taken' = NoCopy /\ failed' = TRUE
    /\ UNCHANGED <<clock, led, saved, loaded, pending, life, store, age, starts, booked, wasted, lastDay>>

(* The state mutex was not to be had at the beginning: the call is lost.   *)
PersistMissed ==
    /\ ppc = "idle" /\ age' = 0 /\ failed' = TRUE
    /\ UNCHANGED <<clock, led, saved, loaded, pending, life, store, ppc, taken, starts, booked, wasted, lastDay>>

-----------------------------------------------------------------------------
(* Time and restarts                                                       *)

(* Time passes; the recorder is never later than its period, and the poll  *)
(* task adds a reading, of a lost bus too, within MaxGap.                  *)
EnergyTick ==
    /\ time < LastTime /\ age < Period /\ quiet < MaxGap
    /\ time' = time + 1 /\ age' = age + 1 /\ quiet' = IF loaded THEN quiet + 1 ELSE 0
    /\ UNCHANGED <<zone, led, saved, loaded, pending, life, store, ppc, taken, changes, starts, ghost>>

ChangeZone ==
    /\ changes < MaxZones /\ changes' = changes + 1
    /\ zone' \in Zones \ {zone}
    /\ UNCHANGED <<time, quiet, led, saved, loaded, pending, life, store, task, starts, ghost>>

SetClockBack ==
    /\ changes < MaxZones /\ changes' = changes + 1
    /\ \E k \in ClockSteps : time - k >= FirstTime /\ time' = time - k
    /\ UNCHANGED <<zone, quiet, led, saved, loaded, pending, life, store, task, starts, ghost>>

(* What a start finds in NVS.                                              *)
NvsTotal == nvsLife.total + (IF nvsToday.date > nvsLife.through THEN nvsToday.total ELSE 0)

EnergyRestart ==
    /\ starts < MaxStarts /\ starts' = starts + 1
    /\ led' = NoLed /\ saved' = [day |-> NoDay, at |-> 0] /\ loaded' = FALSE
    /\ pending' = NoDay /\ life' = [through |-> 0, total |-> 0]
    /\ ppc' = "idle" /\ taken' = NoCopy /\ age' = 0 /\ quiet' = 0
    /\ booked' = NvsTotal /\ wasted' = 0 /\ lastDay' = 0 /\ failed' = FALSE
    /\ UNCHANGED <<time, zone, changes, store>>

-----------------------------------------------------------------------------

LedgerInit ==
    /\ time = FirstTime /\ zone \in Zones /\ led = NoLed
    /\ saved = [day |-> NoDay, at |-> 0] /\ loaded = FALSE /\ pending = NoDay
    /\ life = [through |-> 0, total |-> 0] /\ nvsToday = NoDay /\ nvsLife = life
    /\ ppc = "idle" /\ taken = NoCopy /\ age = 0 /\ quiet = 0 /\ changes = 0 /\ starts = 1
    /\ booked = 0 /\ wasted = 0 /\ lastDay = 0 /\ failed = FALSE

LedgerStep ==
    \/ \E on \in BOOLEAN : EnergyReading(on)
    \/ \E force \in BOOLEAN : PersistEnergy(force)
    \/ PersistLoad \/ PersistCommit \/ PersistSave \/ PersistApply
    \/ EnergyTick

LedgerFault == CommitFails \/ SaveFails \/ PersistUnapplied \/ PersistMissed

ClockChange == ChangeZone \/ SetClockBack

LedgerNext == LedgerStep \/ LedgerFault \/ ClockChange \/ EnergyRestart

LedgerSpec == LedgerInit /\ [][LedgerNext]_ledgerVars

-----------------------------------------------------------------------------
(* Properties                                                              *)

(* getEnergyTotals: the totals, a closed day that waits, the open day.     *)
Reported ==
    LET waits   == pending # NoDay /\ pending.date > life.through
        through == IF waits THEN pending.date ELSE life.through
    IN life.total + (IF waits THEN pending.total ELSE 0)
       + (IF led.open /\ led.day.date > through THEN led.day.total ELSE 0)

(* No energy is counted twice, in what is reported or in what a start      *)
(* would find: not over a day's end, a checkpoint of a day already         *)
(* committed, or a commit that is tried again.                             *)
CountedOnce == (loaded => Reported <= booked) /\ NvsTotal <= booked

(* A date that was closed is never opened again.                           *)
DaysInOrder == led.open => led.day.date > lastDay

(* Whatever happens to the writes, the clock and the zone, a date that     *)
(* EnergyLedger::add closed is never opened again and persistEnergyLedger  *)
(* counts no energy twice.                                                 *)
EnergyCountedOnce == CountedOnce /\ DaysInOrder

(* What was booked to days that were open.                                 *)
Counted == booked - wasted

(* energy_store.h: an unplanned reset loses at most what was booked since  *)
(* the checkpoint, written every ten minutes by a recorder that may be     *)
(* late by its period and is writing for another; what is booked next      *)
(* reaches back to the reading before.  It takes writes that succeed, no   *)
(* day that closes while another waits, and a clock that nobody changes.   *)
(* A start that finds the checkpoint of a day already committed takes it   *)
(* for a day of the usual length and wastes what it books after its end:   *)
(* an hour at most, when summer time begins.                               *)
LossBounded ==
    ~failed /\ changes = 0 =>
        /\ Counted - NvsTotal < SaveInterval + 2 * Period + MaxInterval
        /\ wasted <= Gain

(* The total that getEnergyTotals reports never falls while the device     *)
(* runs, whatever the user does to the zone and the clock, unless          *)
(* updateEnergyLedger drops a day because the one before still waits.      *)
TotalNeverFalls ==
    [][loaded /\ starts' = starts =>
          Reported' >= Reported \/ (pending # NoDay /\ lastDay' # lastDay)]_ledgerVars

-----------------------------------------------------------------------------
(* The inductive invariant                                                 *)

(* Dates only move on: what is stored, taken or waiting is not ahead of    *)
(* the open day.                                                           *)
DateInv ==
    /\ time >= FirstTime
    /\ led.open => led.day.date > 0 /\ pending.date < led.day.date /\ lastDay < led.day.date
    /\ pending # NoDay => pending.date > 0
    /\ loaded => nvsToday.date <= led.day.date /\ taken.day.date <= led.day.date
    /\ ~led.open => led = NoLed /\ pending = NoDay /\ lastDay = 0
    /\ loaded /\ ~led.open => nvsToday = NoDay /\ taken.day = NoDay
    /\ nvsToday # NoDay => nvsToday.date > 0

(* What persistEnergyLedger took at its beginning is still what waits, and *)
(* is in the totals once store_commit_day returned.                        *)
TakenInv ==
    /\ ~loaded => ppc = "idle" /\ ~led.open
    /\ taken.save => taken.day.date > 0
    /\ ppc = "idle" => taken = NoCopy
    /\ taken.closed # NoDay => taken.closed = pending
    /\ ppc \in {"save", "apply"} /\ taken.closed # NoDay =>
          pending.date <= nvsLife.through /\ taken.life = nvsLife

(* The totals in RAM are those in NVS, or lack the day that waits.         *)
LifeInv ==
    loaded =>
       \/ life = nvsLife
       \/ /\ pending.date > life.through
          /\ nvsLife = [through |-> pending.date, total |-> life.total + pending.total]

(* The totals with d as the day after them, now and when the day that      *)
(* waits is committed.                                                     *)
Found(d) == nvsLife.total + (IF d.date > nvsLife.through THEN d.total ELSE 0)

Waits == pending.date > nvsLife.through

Carried(d) ==
    nvsLife.total + (IF Waits THEN pending.total ELSE 0)
    + (IF d.date > nvsLife.through /\ d.date > pending.date THEN d.total ELSE 0)

(* No checkpoint, written, on its way or due, counts energy twice.         *)
CountInv ==
    /\ Found(nvsToday) <= booked /\ Carried(nvsToday) <= booked
    /\ Found(taken.day) <= booked /\ Carried(taken.day) <= booked
    /\ loaded => Carried(led.day) <= booked

EnergyInv == LedgerTypeOK /\ DateInv /\ TakenInv /\ LifeInv /\ CountInv

(* The offset of a day is that of its first or of its last hours.          *)
OffsetOK(d) == d # NoDay => d.off \in {zone + Ahead(d.date), zone + Ahead(d.date + 1)}

(* The open day is the span of its date and no later than the clock's; the *)
(* span of a restored day is known up to what summer time makes of it.     *)
OpenSpan ==
    LET end == Midnight(led.day.date + 1, zone)
    IN /\ IF led.exact THEN led.from = Midnight(led.day.date, zone) /\ led.to = end
                       ELSE led.from <= end /\ led.to <= end + Gain
       /\ led.day.date <= DateAt(time, zone) /\ led.prev <= time

(* A day that was committed before it was restored has ended, and is open  *)
(* for as long only as its span is too long.                               *)
Overrun ==
    LET end == Midnight(led.day.date + 1, zone)
    IN /\ ~led.exact /\ pending = NoDay
       /\ \/ led.prev = -1 /\ wasted = 0
          \/ end <= led.prev /\ wasted <= led.prev - end

(* With a clock that nobody changed.                                       *)
SpanInv ==
    /\ nvsLife.through < DateAt(time, zone) /\ nvsToday.date <= DateAt(time, zone)
    /\ OffsetOK(led.day) /\ OffsetOK(nvsToday) /\ OffsetOK(taken.day)
    /\ led.open => OpenSpan /\ (led.day.date <= nvsLife.through => Overrun)
    /\ wasted <= Gain
    /\ ppc # "idle" => taken.at + age = time

(* d is in the totals, or it is a part of the day to be committed next.    *)
Current(d) ==
    /\ \/ d.date <= nvsLife.through
       \/ d.date = IF Waits THEN pending.date ELSE led.day.date
    /\ Waits /\ d.date = pending.date => d.total <= pending.total
    /\ d.date = led.day.date => d.total <= led.day.total

(* Between persistEnergyLedger's beginning and its save.                   *)
Saving == taken.save /\ ppc \in {"commit", "save"}

(* The checkpoints are parts of the days that are not committed.           *)
CheckpointInv ==
    /\ Counted = Carried(led.day)
    /\ IF ppc = "apply" /\ taken.save THEN nvsToday = taken.day ELSE saved.day = nvsToday
    /\ Current(nvsToday)
    /\ Saving => IF ppc = "commit" /\ taken.closed # NoDay
                 THEN taken.day.date = led.day.date /\ taken.day.total <= led.day.total
                 ELSE Current(taken.day)

(* What NVS holds when the writing under way is done.                      *)
PassTotal ==
    IF ppc = "commit" /\ taken.closed.date > nvsLife.through
    THEN nvsLife.total + taken.closed.total
         + (IF taken.day.date > taken.closed.date THEN taken.day.total ELSE 0)
    ELSE Found(taken.day)

(* x is what was booked since b, to a day not yet committed.               *)
Since(x, b) == x <= 0 \/ (b <= led.prev /\ x <= MaxInterval + led.prev - b)

(* All that is not in NVS was booked after b, and b is not too long ago.   *)
RecentInv ==
    /\ Saving => Since(Counted - PassTotal, taken.at)
    /\ \E b \in 0..time :
          /\ Since(Counted - NvsTotal, b)
          /\ IF ppc = "apply" /\ taken.save THEN taken.at <= b ELSE saved.at <= b
          /\ time - b < SaveInterval + age + (IF Saving THEN Period ELSE 0)

LossInv ==
    /\ ~loaded => booked = NvsTotal /\ wasted = 0 /\ saved.at = 0 /\ saved.day = NoDay
    /\ changes = 0 => SpanInv
    /\ loaded /\ ~failed /\ changes = 0 => CheckpointInv /\ RecentInv
=============================================================================
