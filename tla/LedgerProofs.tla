---------------------------- MODULE LedgerProofs ----------------------------
(***************************************************************************)
(* Proofs about the two ledgers of the heat pump controller.               *)
(*                                                                         *)
(* The summaries of compressor runs, for a queue, a day and a store of any *)
(* size and a clock and an offset of local time that change at any moment: *)
(* a run that ended is kept or given up for want of room, never lost to a  *)
(* race of its persisting with new runs, and it is stored once and listed  *)
(* at most once.  Runs that began at the same reading of the clock are     *)
(* left out; there are none as long as neither clock nor offset changed.   *)
(*                                                                         *)
(* The daily energy, for a day, intervals and zones of any length and any  *)
(* number of starts: no energy is counted twice, what is reported does not *)
(* fall, and what a reset loses is bounded.                                *)
(***************************************************************************)
EXTENDS MCLedgers, FiniteSetTheorems, TLAPS

USE DEF clocks, tracker, persist, reader, clock, store, task, ghost

-----------------------------------------------------------------------------
(* Parameters, dates, sequences                                            *)

(* The sizes and bounds are natural numbers.                               *)
LEMMA Limits ==
    /\ DayLen \in Nat /\ DayLen > 0 /\ QueueLen \in Nat /\ QueueLen > 0
    /\ PerDay \in Nat /\ PerDay > 0 /\ DaysKept \in Nat /\ DaysKept > 0
    /\ MaxTime \in Nat /\ DayLen <= MaxTime /\ MaxBoots \in Nat /\ MaxBoots > 0
    /\ MaxStep \in Nat /\ MaxShifts \in Nat /\ SweepDays \in Nat
    /\ Offsets \subseteq Nat /\ 0 \in Offsets /\ StepsBack \subseteq Nat \ {0}
BY RunLedgerAssumption

(* The date of a time is a natural number.                                 *)
LEMMA DateType ==
    ASSUME NEW t \in Nat
    PROVE  t \div DayLen \in Nat
BY Limits

(* Today is one.                                                           *)
LEMMA TodayType ==
    ASSUME TrackerTypeOK
    PROVE  Today \in Nat
<1>1. now + offset \in Nat
    BY Limits DEF TrackerTypeOK
<1> QED BY <1>1, DateType DEF Today

(* No run is stored ahead of the first day.                                *)
LEMMA ProperIsNoNoRun ==
    ASSUME NEW r, Proper(r)
    PROVE  r # NoRun
BY Limits DEF Proper, NoRun

(* What the queue holds after a run is added.                              *)
LEMMA AppendSet ==
    ASSUME NEW S, NEW s \in Seq(S), NEW e \in S
    PROVE  ToSet(Append(s, e)) = ToSet(s) \union {e}
<1>1. ASSUME NEW x \in ToSet(Append(s, e))
      PROVE  x \in ToSet(s) \union {e}
    BY <1>1 DEF ToSet
<1>2. ASSUME NEW x \in ToSet(s)
      PROVE  x \in ToSet(Append(s, e))
    <2>1. PICK k \in DOMAIN s : x = s[k]
        BY <1>2 DEF ToSet
    <2>2. k \in DOMAIN Append(s, e) /\ Append(s, e)[k] = x
        BY <2>1
    <2> QED BY <2>2 DEF ToSet
<1>3. e \in ToSet(Append(s, e))
    <2>1. Len(s) + 1 \in DOMAIN Append(s, e) /\ Append(s, e)[Len(s) + 1] = e
        OBVIOUS
    <2> QED BY <2>1 DEF ToSet
<1> QED BY <1>1, <1>2, <1>3

(* What the queue holds after its head is taken off.                       *)
LEMMA TailSet ==
    ASSUME NEW S, NEW s \in Seq(S), s # <<>>
    PROVE  /\ Tail(s) \in Seq(S) /\ Len(Tail(s)) = Len(s) - 1 /\ Len(s) > 0
           /\ Head(s) \in ToSet(s) /\ Head(s) \in S
           /\ ToSet(Tail(s)) \subseteq ToSet(s)
           /\ \A x \in ToSet(s) : x = Head(s) \/ x \in ToSet(Tail(s))
<1>1. Tail(s) \in Seq(S) /\ Len(Tail(s)) = Len(s) - 1 /\ Len(s) > 0 /\ Len(s) \in Nat
    OBVIOUS
<1>2. 1 \in DOMAIN s /\ Head(s) = s[1] /\ Head(s) \in S
    BY <1>1
<1>3. ASSUME NEW x \in ToSet(Tail(s))
      PROVE  x \in ToSet(s)
    <2>1. PICK k \in DOMAIN Tail(s) : x = Tail(s)[k]
        BY <1>3 DEF ToSet
    <2>2. k + 1 \in DOMAIN s /\ s[k + 1] = x
        BY <1>1, <2>1
    <2> QED BY <2>2 DEF ToSet
<1>4. ASSUME NEW x \in ToSet(s), x # Head(s)
      PROVE  x \in ToSet(Tail(s))
    <2>1. PICK k \in DOMAIN s : x = s[k]
        BY <1>4 DEF ToSet
    <2>2. k # 1 /\ k \in 1..Len(s)
        BY <1>2, <1>4, <2>1
    <2>3. k - 1 \in DOMAIN Tail(s) /\ Tail(s)[k - 1] = x
        BY <1>1, <2>1, <2>2
    <2> QED BY <2>3 DEF ToSet
<1>5. Head(s) \in ToSet(s)
    BY <1>2 DEF ToSet
<1> QED BY <1>1, <1>2, <1>3, <1>4, <1>5

(* A queue that is full gives up its oldest run for the new one.           *)
LEMMA EnqueueSet ==
    ASSUME NEW s \in Seq(Runs), Len(s) <= QueueLen, NEW e \in Runs
    PROVE  /\ Enqueue(s, e) \in Seq(Runs) /\ Len(Enqueue(s, e)) <= QueueLen
           /\ e \in ToSet(Enqueue(s, e))
           /\ ToSet(Enqueue(s, e)) \subseteq ToSet(s) \union {e}
           /\ \A x \in ToSet(s) :
                 x \in ToSet(Enqueue(s, e)) \/ (Len(s) = QueueLen /\ x = Head(s))
           /\ Len(s) = QueueLen => Head(s) \in Runs
<1>1. CASE Len(s) = QueueLen
    <2>1. s # <<>>
        BY <1>1, Limits
    <2>2. Enqueue(s, e) = Append(Tail(s), e)
        BY <1>1 DEF Enqueue
    <2>3. Tail(s) \in Seq(Runs) /\ Len(Tail(s)) = Len(s) - 1 /\ Head(s) \in Runs
        BY <2>1, TailSet
    <2>4. Append(Tail(s), e) \in Seq(Runs) /\ Len(Append(Tail(s), e)) = Len(s)
        BY <2>3
    <2>5. ToSet(Append(Tail(s), e)) = ToSet(Tail(s)) \union {e}
        <3> DEFINE t == Tail(s)
        <3>1. t \in Seq(Runs)
            BY <2>3
        <3> HIDE DEF t
        <3>2. ToSet(Append(t, e)) = ToSet(t) \union {e}
            BY <3>1, AppendSet
        <3> QED BY <3>2 DEF t
    <2> QED BY <1>1, <2>1, <2>2, <2>3, <2>4, <2>5, TailSet
<1>2. CASE Len(s) # QueueLen
    <2>1. Enqueue(s, e) = Append(s, e)
        BY <1>2 DEF Enqueue
    <2>2. Append(s, e) \in Seq(Runs) /\ Len(Append(s, e)) = Len(s) + 1
        OBVIOUS
    <2>3. ToSet(Append(s, e)) = ToSet(s) \union {e}
        BY AppendSet
    <2> QED BY <1>2, <2>1, <2>2, <2>3, Limits
<1> QED BY <1>1, <1>2

-----------------------------------------------------------------------------
(* store_append_run                                                        *)

(* What storing a run does: the run replaces its former version, or joins, *)
(* or is given up for a full day; other runs stay, or age out for it.      *)
LEMMA StoreEffect ==
    ASSUME StoreTypeOK, StartsDiffer, NEW r \in Runs, NEW aged \in SUBSET Aged(r),
           \A s \in stored : s.start = r.start /\ r.start \notin twice => s.date = r.date
    PROVE  /\ StoreAppend(r, aged) \subseteq stored \union {r}
           /\ \A s, t \in StoreAppend(r, aged) :
                 s.start = t.start /\ (s.date = t.date \/ s.start \notin twice) => s = t
           /\ \/ r \in StoreAppend(r, aged)
              \/ /\ StoreAppend(r, aged) = stored
                 /\ r.start \notin twice => r \in GivenUp(r, aged)
           /\ \A s \in stored :
                 s.start \notin twice =>
                    \/ s \in StoreAppend(r, aged)
                    \/ r \in StoreAppend(r, aged) /\ s.start = r.start /\ s.date = r.date
                    \/ s \in GivenUp(r, aged) /\ r \in StoreAppend(r, aged)
                                              /\ r.date >= s.date + DaysKept
           /\ GivenUp(r, aged) \subseteq Runs
<1> DEFINE same == {s \in OfDay(r) : s.start = r.start}
           SA == StoreAppend(r, aged)
<1>1. \A s \in stored : s.start = r.start /\ r.start \notin twice => s \in same
    BY DEF OfDay
<1>2. GivenUp(r, aged) \subseteq Runs
    BY DEF GivenUp, StoreTypeOK
<1>3. CASE same # {} \/ Cardinality(OfDay(r)) < PerDay
    <2>1. SA = (stored \ (same \union aged)) \union {r}
        BY <1>3 DEF StoreAppend
    <2>2. \A s \in SA : s = r \/ (s \in stored /\ (s.start # r.start \/ s.date # r.date))
        BY <2>1 DEF OfDay
    <2>3. ASSUME NEW s \in SA, NEW t \in SA, s.start = t.start, s.date = t.date \/ s.start \notin twice
          PROVE  s = t
        <3>1. CASE s.start # r.start
            BY <2>2, <2>3, <3>1 DEF StartsDiffer
        <3>2. CASE s.start = r.start
            <4>1. s \in stored => s.start \in twice \/ s.date = r.date
                BY <3>2
            <4>2. t \in stored => t.start \in twice \/ t.date = r.date
                BY <2>3, <3>2
            <4> QED BY <2>2, <2>3, <3>2, <4>1, <4>2 DEF StartsDiffer
        <3> QED BY <3>1, <3>2
    <2>4. ASSUME NEW s \in stored, s \notin SA, s.start # r.start, s.start \notin twice
          PROVE  s \in GivenUp(r, aged) /\ r.date >= s.date + DaysKept
        <3>1. s \in Aged(r)
            BY <2>1, <2>4 DEF OfDay
        <3>2. \A t \in SA : t.start # s.start
            BY <2>2, <2>4 DEF StartsDiffer
        <3>3. s.date \in Nat /\ r.date \in Nat
            BY DEF StoreTypeOK, Runs
        <3> QED BY <3>1, <3>2, <3>3, Limits DEF GivenUp, Aged
    <2>5. r \in SA
        BY <2>1
    <2>6. SA \subseteq stored \union {r}
        BY <2>1
    <2> HIDE DEF SA
    <2>7. \A s \in stored :
             s.start \notin twice =>
                \/ s \in SA
                \/ r \in SA /\ s.start = r.start /\ s.date = r.date
                \/ s \in GivenUp(r, aged) /\ r \in SA /\ r.date >= s.date + DaysKept
        BY <2>4, <2>5
    <2> QED BY <1>2, <2>3, <2>5, <2>6, <2>7 DEF SA
<1>4. CASE ~(same # {} \/ Cardinality(OfDay(r)) < PerDay)
    <2>1. SA = stored
        BY <1>4 DEF StoreAppend
    <2>2. r.start \notin twice => r \in GivenUp(r, aged)
        BY <1>1, <1>4, <2>1 DEF GivenUp
    <2> QED BY <1>2, <2>1, <2>2 DEF StartsDiffer
<1> QED BY <1>3, <1>4

(* One more element.                                                       *)
LEMMA AddedCardinality ==
    ASSUME NEW S, NEW x, IsFiniteSet(S)
    PROVE  /\ IsFiniteSet(S \union {x}) /\ Cardinality(S) \in Nat
           /\ Cardinality(S \union {x}) \in Nat /\ Cardinality(S \union {x}) <= Cardinality(S) + 1
<1>1. Cardinality(S) \in Nat
    BY FS_CardinalityType
<1>2. IsFiniteSet(S \union {x})
    BY FS_AddElement
<1>3. Cardinality(S \union {x}) = IF x \in S THEN Cardinality(S) ELSE Cardinality(S) + 1
    BY FS_AddElement
<1> QED BY <1>1, <1>2, <1>3

(* One element in place of another.                                        *)
LEMMA ReplacedCardinality ==
    ASSUME NEW S, NEW o \in S, NEW x, IsFiniteSet(S)
    PROVE  /\ IsFiniteSet((S \ {o}) \union {x}) /\ Cardinality((S \ {o}) \union {x}) \in Nat
           /\ Cardinality((S \ {o}) \union {x}) <= Cardinality(S)
<1> DEFINE T == S \ {o}
<1>1. Cardinality(S) \in Nat
    BY FS_CardinalityType
<1>2. IsFiniteSet(T) /\ Cardinality(T) = Cardinality(S) - 1
    <2>1. IsFiniteSet(T)
        BY FS_RemoveElement
    <2>2. Cardinality(T) = IF o \in S THEN Cardinality(S) - 1 ELSE Cardinality(S)
        BY FS_RemoveElement
    <2> QED BY <2>1, <2>2
<1> HIDE DEF T
<1>3. /\ IsFiniteSet(T \union {x}) /\ Cardinality(T \union {x}) \in Nat
      /\ Cardinality(T \union {x}) <= Cardinality(T) + 1
    BY <1>2, AddedCardinality
<1>4. Cardinality(T \union {x}) <= Cardinality(S)
    BY <1>1, <1>2, <1>3
<1> QED BY <1>3, <1>4 DEF T

(* A part of a set that is small enough.                                   *)
LEMMA PartCardinality ==
    ASSUME NEW S, IsFiniteSet(S), NEW T, T \subseteq S, NEW n \in Nat, Cardinality(S) <= n
    PROVE  Cardinality(T) <= n
<1>1. IsFiniteSet(T) /\ Cardinality(T) <= Cardinality(S)
    BY FS_Subset
<1>2. Cardinality(T) \in Nat /\ Cardinality(S) \in Nat
    BY <1>1, FS_CardinalityType
<1> QED BY <1>1, <1>2

(* A day of the store stays within its array.                              *)
LEMMA StoreStaysBounded ==
    ASSUME StoreTypeOK, NEW r \in Runs, NEW aged \in SUBSET Aged(r),
           stored' = StoreAppend(r, aged)
    PROVE  StoreTypeOK'
<1> DEFINE same == {s \in OfDay(r) : s.start = r.start}
           Day(d) == {s \in stored : s.date = d}
           NewDay(d) == {s \in stored' : s.date = d}
<1>1. CASE ~(same # {} \/ Cardinality(OfDay(r)) < PerDay)
    <2>1. stored' = stored
        BY <1>1 DEF StoreAppend
    <2> QED BY <2>1 DEF StoreTypeOK
<1>2. CASE same # {} \/ Cardinality(OfDay(r)) < PerDay
    <2>1. stored' = (stored \ (same \union aged)) \union {r}
        BY <1>2 DEF StoreAppend
    <2>2. IsFiniteSet(stored \ (same \union aged))
        BY FS_Subset DEF StoreTypeOK
    <2>3. stored' \subseteq Runs /\ IsFiniteSet(stored')
        BY <2>1, <2>2, FS_AddElement DEF StoreTypeOK
    <2>4. \A d : IsFiniteSet(Day(d)) /\ Cardinality(Day(d)) \in Nat
        <3>1. \A d : Day(d) \in SUBSET stored
            OBVIOUS
        <3> QED BY <3>1, FS_Subset, FS_CardinalityType DEF StoreTypeOK
    <2>5. ASSUME NEW s \in stored', s.date # r.date
          PROVE  Cardinality(NewDay(s.date)) <= PerDay
        <3>1. NewDay(s.date) \in SUBSET Day(s.date) /\ s \in stored
            BY <2>1, <2>5
        <3>2. Cardinality(NewDay(s.date)) \in Nat
              /\ Cardinality(NewDay(s.date)) <= Cardinality(Day(s.date))
            BY <2>4, <3>1, FS_Subset, FS_CardinalityType
        <3>3. Cardinality(Day(s.date)) <= PerDay /\ Cardinality(Day(s.date)) \in Nat
            BY <2>4, <3>1 DEF StoreTypeOK
        <3> HIDE DEF Day, NewDay
        <3> QED BY <3>2, <3>3, Limits
    <2>6. Cardinality(NewDay(r.date)) <= PerDay
        <3>1. CASE same # {}
            <4>1. PICK o \in same : TRUE
                BY <3>1
            <4>2. o \in stored /\ o \in Day(r.date) /\ o.date = r.date /\ o.start = r.start
                BY DEF OfDay
            <4>3. NewDay(r.date) \subseteq (Day(r.date) \ {o}) \union {r}
                BY <2>1, <4>2 DEF OfDay
            <4>4. Cardinality(Day(r.date)) <= PerDay
                BY <4>2 DEF StoreTypeOK
            <4> HIDE DEF Day, NewDay
            <4>5. /\ IsFiniteSet((Day(r.date) \ {o}) \union {r})
                  /\ Cardinality((Day(r.date) \ {o}) \union {r}) \in Nat
                  /\ Cardinality((Day(r.date) \ {o}) \union {r}) <= Cardinality(Day(r.date))
                BY <2>4, <4>2, ReplacedCardinality
            <4>6. Cardinality((Day(r.date) \ {o}) \union {r}) <= PerDay
                BY <2>4, <4>4, <4>5, Limits
            <4> QED BY <4>3, <4>5, <4>6, PartCardinality, Limits
        <3>2. CASE Cardinality(OfDay(r)) < PerDay
            <4>1. Cardinality(Day(r.date)) < PerDay
                BY <3>2 DEF OfDay
            <4>2. NewDay(r.date) \subseteq Day(r.date) \union {r}
                BY <2>1
            <4> HIDE DEF Day, NewDay
            <4>3. /\ IsFiniteSet(Day(r.date) \union {r})
                  /\ Cardinality(Day(r.date) \union {r}) \in Nat
                  /\ Cardinality(Day(r.date) \union {r}) <= Cardinality(Day(r.date)) + 1
                BY <2>4, AddedCardinality
            <4>4. Cardinality(Day(r.date) \union {r}) <= PerDay
                BY <2>4, <4>1, <4>3, Limits
            <4> QED BY <4>2, <4>3, <4>4, PartCardinality, Limits
        <3> QED BY <1>2, <3>1, <3>2
    <2> QED BY <2>3, <2>5, <2>6 DEF StoreTypeOK
<1> QED BY <1>1, <1>2

-----------------------------------------------------------------------------
(* RunTracker::add                                                         *)

(* The run that begins with a reading.                                     *)
Fresh == [date |-> Today, start |-> now, end |-> now]

(* A run begins with the reading, and is told apart from those before it   *)
(* or entered among the runs that began twice.                             *)
Begins ==
    run' = Fresh /\ (now \notin twice' => ~Again(ended' \union stored \union Storing))

(* What a reading does: the open run goes on, or it ends and is queued, or *)
(* there is nothing to queue; a run may begin.                             *)
LEMMA ReadingCases ==
    ASSUME ProperInv, NEW running \in BOOLEAN, Reading(running)
    PROVE  /\ prev' = now
           /\ \/ twice' = twice
              \/ twice' = twice \union {now} /\ Again(ended' \union stored \union Storing)
           /\ \/ /\ run # NoRun /\ WithinStep /\ run' = [run EXCEPT !.end = now]
                 /\ UNCHANGED <<queue, ended, given, twice>>
              \/ /\ run' = NoRun \/ Begins
                 /\ UNCHANGED <<queue, ended, given>>
              \/ /\ run # NoRun /\ (run' = NoRun \/ Begins)
                 /\ \E b \in {run, [run EXCEPT !.end = now]} :
                       /\ b = run \/ WithinStep
                       /\ IsRun(b)
                       /\ queue' = Enqueue(queue, b) /\ ended' = ended \union {b}
                       /\ given' = IF Len(queue) = QueueLen THEN given \union {Head(queue)}
                                   ELSE given
<1> DEFINE sofar == IF WithinStep THEN [run EXCEPT !.end = now] ELSE run
           ends   == run # NoRun /\ (~WithinStep \/ ~running)
           open   == run # NoRun /\ ~ends
           over   == IF ends /\ IsRun(sofar) THEN {sofar} ELSE {}
           traces == ended' \union stored \union Storing
<1>1. /\ prev' = now
      /\ run' = CASE open -> sofar
                  [] ~open /\ running -> Fresh
                  [] OTHER -> NoRun
      /\ ended' = ended \union over
      /\ IF over # {}
         THEN /\ queue' = Enqueue(queue, sofar)
              /\ given' = IF Len(queue) = QueueLen THEN given \union {Head(queue)} ELSE given
         ELSE UNCHANGED <<queue, given>>
      /\ twice' = IF (~open /\ running) /\ Again(traces) THEN twice \union {now} ELSE twice
    <2> DEFINE before == ended \union over \union stored
                           \union (IF pc = "last" THEN {copy} ELSE {})
    <2>1. /\ prev' = now
          /\ run' = CASE open -> sofar
                      [] ~open /\ running -> [date |-> Today, start |-> now, end |-> now]
                      [] OTHER -> NoRun
          /\ ended' = ended \union over
          /\ IF over # {}
             THEN /\ queue' = Enqueue(queue, sofar)
                  /\ given' = IF Len(queue) = QueueLen THEN given \union {Head(queue)} ELSE given
             ELSE UNCHANGED <<queue, given>>
          /\ twice' = IF (~open /\ running) /\ Again(before) THEN twice \union {now} ELSE twice
        BY DEF Reading
    <2>2. before = traces
        BY <2>1 DEF Storing
    <2> HIDE DEF before, traces
    <2> QED BY <2>1, <2>2 DEF Fresh
<1>3. sofar \in {run, [run EXCEPT !.end = now]} /\ (sofar = run \/ WithinStep)
    OBVIOUS
<1>4. CASE open
    <2>1. WithinStep /\ ~ends /\ run # NoRun
        BY <1>4
    <2>2. ended' = ended
        BY <1>1, <2>1
    <2>3. twice' = twice
        BY <1>1, <1>4
    <2> QED BY <1>1, <1>4, <2>1, <2>2, <2>3
<1>5. CASE ~open
    <2>1. run' = NoRun \/ Begins
        <3>1. CASE running
            <4>1. run' = Fresh
                BY <1>1, <1>5, <3>1
            <4>2. now \notin twice' => ~Again(traces)
                BY <1>1, <1>5, <3>1
            <4> QED BY <4>1, <4>2 DEF Begins
        <3>2. CASE ~running
            BY <1>1, <1>5, <3>2
        <3> QED BY <3>1, <3>2
    <2>2. CASE ends /\ IsRun(sofar)
        <3>1. run # NoRun /\ over = {sofar} /\ IsRun(sofar)
            BY <2>2
        <3> HIDE DEF sofar
        <3> QED BY <1>1, <1>3, <2>1, <3>1
    <2>3. CASE ~(ends /\ IsRun(sofar))
        BY <1>1, <2>1, <2>3
    <2> QED BY <2>2, <2>3
<1> QED BY <1>4, <1>5

(* The open run with another reading is a later version of it.             *)
LEMMA RunGrows ==
    ASSUME RunTypeOK, ProperInv, LiveInv, run # NoRun,
           NEW b \in {run, [run EXCEPT !.end = now]}, b = run \/ WithinStep
    PROVE  /\ b \in Runs /\ b.start = run.start /\ b.date = run.date /\ b # NoRun
           /\ run.end <= b.end /\ b.end \in {run.end, now}
<1>1. run \in Live /\ Proper(run) /\ run \in Runs /\ now \in Nat /\ run.end <= prev /\ prev \in Int
    BY Limits DEF Live, ProperInv, LiveInv, RunTypeOK, TrackerTypeOK
<1>2. b.start = run.start /\ b.date = run.date /\ b \in Runs
    BY <1>1 DEF Runs
<1>3. b.end \in {run.end, now} /\ run.end \in Nat /\ run.end <= b.end
    <2>1. CASE b = run
        BY <1>1, <2>1 DEF Runs
    <2>2. CASE WithinStep
        <3>1. b.end \in {run.end, now} /\ run.end \in Nat
            BY <1>1 DEF Runs
        <3>2. run.end <= now
            <4>1. prev <= now
                BY <2>2 DEF WithinStep
            <4> QED BY <1>1, <3>1, <4>1
        <3> QED BY <3>1, <3>2
    <2> QED BY <2>1, <2>2
<1>4. b # NoRun
    BY <1>1, <1>2, Limits DEF Proper, NoRun
<1> QED BY <1>1, <1>2, <1>3, <1>4

(* A run that begins is of today.                                          *)
LEMMA FreshIsProper ==
    ASSUME RunTypeOK, ProperInv
    PROVE  /\ Fresh \in Runs /\ Proper(Fresh) /\ Fresh # NoRun /\ ~IsRun(Fresh)
           /\ Fresh.start = now /\ Fresh.end = now /\ Fresh.date = Today
<1>1. now \in Nat /\ Today \in Nat /\ 0 < now
    BY TodayType, Limits DEF RunTypeOK, TrackerTypeOK, ProperInv
<1> QED BY <1>1, Limits DEF Fresh, Runs, Proper, NoRun, IsRun

(* Every run of this boot was one before the reading, with no more         *)
(* readings than it has now, or it begins with the reading.                *)
LEMMA LiveAfterReading ==
    ASSUME RunTypeOK, ProperInv, LiveInv, NEW running \in BOOLEAN, Reading(running)
    PROVE  /\ \A r \in Live' :
                 \/ r = Fresh /\ Begins
                 \/ \E q \in Live : /\ q.start = r.start /\ q.date = r.date
                                    /\ q.end <= r.end /\ r.end \in {q.end, now}
           /\ twice \subseteq twice' /\ twice' \subseteq twice \union {now}
           /\ \A r, s \in Live' : r.start = s.start /\ r.start \notin twice' => r = s
           /\ ToSet(queue') \subseteq ended'
           /\ \A r \in ended' : IsRun(r)
           /\ run' # NoRun => run'.end <= prev'
           /\ run' # NoRun /\ run'.start \notin twice' => run' \notin ended'
           /\ run' \in Runs /\ ended' \subseteq Runs
<1> USE DEF Live
<1>1. \A r \in Live : r \in Runs /\ r.end <= r.end
    BY DEF RunTypeOK, TrackerTypeOK, Runs
<1>2. /\ Fresh \in Runs /\ ~IsRun(Fresh) /\ Fresh # NoRun /\ Fresh.start = now /\ Fresh.end = now
      /\ now \in Nat /\ now <= now
    BY FreshIsProper DEF RunTypeOK, TrackerTypeOK
<1>3. twice \subseteq twice' /\ twice' \subseteq twice \union {now} /\ prev' = now
    BY ReadingCases
<1>4. ASSUME Begins, \A r \in ended' : IsRun(r), NEW r \in ended', r.start = now
      PROVE  now \in twice'
    BY <1>4 DEF Begins, Again
<1>5. CASE /\ run # NoRun /\ WithinStep /\ run' = [run EXCEPT !.end = now]
           /\ UNCHANGED <<queue, ended, given, twice>>
    <2> DEFINE b == [run EXCEPT !.end = now]
    <2>1. /\ b \in Runs /\ b.start = run.start /\ b.date = run.date /\ b # NoRun
          /\ run.end <= b.end /\ b.end \in {run.end, now} /\ b.end = now
        <3>1. b.end = now
            BY <1>5 DEF RunTypeOK, TrackerTypeOK, Runs
        <3> QED BY <1>5, <3>1, RunGrows
    <2>2. run' = b /\ Live' = ended \union {b} /\ run \in Live /\ ended' = ended /\ twice' = twice
        BY <1>5, <2>1
    <2> HIDE DEF b
    <2>3. \A r \in ended : r.start = b.start => r.start \in twice
        BY <1>5, <2>1 DEF LiveInv
    <2>4. \A r \in ended : r \in Live
        OBVIOUS
    <2>5. \A r \in Live' : \E q \in Live : /\ q.start = r.start /\ q.date = r.date
                                            /\ q.end <= r.end /\ r.end \in {q.end, now}
        BY <1>1, <2>1, <2>2, <2>4
    <2>6. \A r, s \in Live' : r.start = s.start /\ r.start \notin twice' => r = s
        BY <2>2, <2>3, <2>4 DEF LiveInv
    <2>7. b \in ended => b.start \in twice
        BY <2>3
    <2>8. ToSet(queue') \subseteq ended' /\ ended' \subseteq Runs /\ \A r \in ended' : IsRun(r)
        BY <1>5, <2>2 DEF LiveInv, RunTypeOK, TrackerTypeOK
    <2> QED BY <1>2, <1>3, <2>1, <2>2, <2>5, <2>6, <2>7, <2>8
<1>6. CASE (run' = NoRun \/ Begins) /\ UNCHANGED <<queue, ended, given>>
    <2>1. \A r \in ended' : IsRun(r)
        BY <1>6 DEF LiveInv
    <2>2. \A r \in Live' : (r = Fresh /\ Begins) \/ (r \in ended /\ r \in Live)
        BY <1>6 DEF Begins
    <2>3. \A r \in Live' : \/ r = Fresh /\ Begins
                           \/ \E q \in Live : /\ q.start = r.start /\ q.date = r.date
                                              /\ q.end <= r.end /\ r.end \in {q.end, now}
        BY <1>1, <2>2
    <2>4. \A r, s \in Live' : r.start = s.start /\ r.start \notin twice' => r = s
        BY <1>2, <1>3, <1>4, <1>6, <2>1, <2>2 DEF LiveInv
    <2>5. run' \in Runs /\ ended' \subseteq Runs
        BY <1>2, <1>6 DEF Begins, RunTypeOK, TrackerTypeOK, NoRun, Runs
    <2>6. run' # NoRun => run' = Fresh
        BY <1>6 DEF Begins
    <2>7. Fresh \notin ended'
        BY <1>2, <2>1
    <2>8. ToSet(queue') \subseteq ended'
        BY <1>6 DEF LiveInv
    <2> QED BY <1>2, <1>3, <2>1, <2>3, <2>4, <2>5, <2>6, <2>7, <2>8
<1>7. CASE /\ run # NoRun /\ (run' = NoRun \/ Begins)
           /\ \E b \in {run, [run EXCEPT !.end = now]} :
                 /\ b = run \/ WithinStep
                 /\ IsRun(b)
                 /\ queue' = Enqueue(queue, b) /\ ended' = ended \union {b}
    <2>1. PICK b \in {run, [run EXCEPT !.end = now]} :
              /\ b = run \/ WithinStep
              /\ IsRun(b)
              /\ queue' = Enqueue(queue, b) /\ ended' = ended \union {b}
        BY <1>7
    <2>2. /\ b \in Runs /\ b.start = run.start /\ b.date = run.date
          /\ run.end <= b.end /\ b.end \in {run.end, now}
        BY <1>7, <2>1, RunGrows
    <2>3. run \in Live /\ \A r \in ended : r \in Live
        BY <1>7
    <2>4. \A r \in ended : r.start = b.start => r.start \in twice
        BY <1>7, <2>2, <2>3 DEF LiveInv
    <2>5. \A r \in ended' : IsRun(r)
        BY <2>1 DEF LiveInv
    <2>6. \A r \in Live' : (r = Fresh /\ Begins) \/ r = b \/ r \in ended
        BY <1>7, <2>1 DEF Begins
    <2>7. \A r \in Live' : \/ r = Fresh /\ Begins
                           \/ \E q \in Live : /\ q.start = r.start /\ q.date = r.date
                                              /\ q.end <= r.end /\ r.end \in {q.end, now}
        BY <1>1, <2>2, <2>3, <2>6
    <2>8. \A r \in ended' : r = b \/ r \in ended
        BY <2>1
    <2>9. \A r, s \in ended' : r.start = s.start /\ r.start \notin twice' => r = s
        BY <1>3, <2>3, <2>4, <2>8 DEF LiveInv
    <2>10. \A r, s \in Live' : r.start = s.start /\ r.start \notin twice' => r = s
        <3>1. \A r \in Live' : (r = Fresh /\ Begins) \/ r \in ended'
            BY <2>1, <2>6
        <3> QED BY <1>2, <1>4, <2>5, <2>9, <3>1
    <2>11. ToSet(queue') \subseteq ended'
        <3>1. ToSet(queue') \subseteq ToSet(queue) \union {b}
            BY <2>1, <2>2, EnqueueSet DEF RunTypeOK, TrackerTypeOK
        <3> QED BY <2>1, <3>1 DEF LiveInv
    <2>12. run' \in Runs /\ ended' \subseteq Runs
        BY <1>2, <1>7, <2>1, <2>2 DEF Begins, RunTypeOK, TrackerTypeOK, NoRun, Runs
    <2>13. run' # NoRun => run' = Fresh
        BY <1>7 DEF Begins
    <2>14. Fresh \notin ended'
        BY <1>2, <2>5
    <2> QED BY <1>2, <1>3, <2>5, <2>7, <2>10, <2>11, <2>12, <2>13, <2>14
<1> QED BY <1>5, <1>6, <1>7, ReadingCases

(* A reading keeps the invariant.                                          *)
LEMMA ReadingKept ==
    ASSUME RunInv, NEW running \in BOOLEAN, Reading(running)
    PROVE  RunInv'
<1>1. UNCHANGED <<now, offset, shifts, stored, pc, force, left, copy, seen, listing, boots>>
    BY DEF Reading
<1>2. RunTypeOK /\ ProperInv /\ SteadyInv /\ LiveInv /\ PartInv /\ CopyInv
    BY DEF RunInv
<1>3. prev' = now /\ now \in Nat
    BY <1>2, ReadingCases DEF RunTypeOK, TrackerTypeOK
<1>4. \A r \in Live' : \/ r = Fresh /\ Begins
                       \/ \E q \in Live : /\ q.start = r.start /\ q.date = r.date
                                          /\ q.end <= r.end /\ r.end \in {q.end, now}
    BY <1>2, LiveAfterReading
<1>5. /\ \A r, s \in Live' : r.start = s.start /\ r.start \notin twice' => r = s
      /\ ToSet(queue') \subseteq ended'
      /\ \A r \in ended' : IsRun(r)
      /\ run' # NoRun => run'.end <= prev'
      /\ run' # NoRun /\ run'.start \notin twice' => run' \notin ended'
      /\ run' \in Runs /\ ended' \subseteq Runs
      /\ twice \subseteq twice' /\ twice' \subseteq twice \union {now}
    BY <1>2, LiveAfterReading
<1>6. Fresh.start = now /\ Fresh.end = now /\ Proper(Fresh) /\ Fresh.date = Today
    BY <1>2, FreshIsProper
<1>7. Live' \subseteq Runs /\ Live \subseteq Runs
    BY <1>2, <1>5 DEF Live, RunTypeOK, TrackerTypeOK
<1>8. ASSUME NEW r \in Live'
      PROVE  Proper(r)
    <2>1. CASE r = Fresh
        BY <1>6, <2>1
    <2>2. CASE \E q \in Live : q.start = r.start /\ q.end <= r.end
        <3>1. PICK q \in Live : q.start = r.start /\ q.end <= r.end
            BY <2>2
        <3>2. Proper(q) /\ q \in Runs /\ r \in Runs
            BY <1>2, <1>7 DEF ProperInv
        <3> QED BY <3>1, <3>2 DEF Proper, Runs
    <2> QED BY <1>4, <2>1, <2>2
<1>9. Storing' = Storing /\ Storing \subseteq Runs
    BY <1>1, <1>2 DEF Storing, RunTypeOK, PersistTypeOK
<1>10. \A r \in stored \union Storing : Proper(r) /\ r \in Runs
    BY <1>2, <1>9 DEF ProperInv, RunTypeOK, StoreTypeOK
<1>11. ProperInv'
    <2>1. \A r \in Live' \union stored' \union Storing' : Proper(r)'
        BY <1>1, <1>8, <1>9, <1>10 DEF Proper
    <2> QED BY <1>1, <1>2, <2>1 DEF ProperInv
<1>12. LiveInv'
    BY <1>5 DEF LiveInv
<1>13. ASSUME shifts = 0
       PROVE  /\ twice' = {}
              /\ \A r \in Live' \union stored \union Storing : r.end <= now /\ r.date = r.start \div DayLen
    <2>1. /\ twice = {} /\ offset = 0
          /\ \A r \in Live \union stored \union Storing :
                r.end <= now /\ r.date = r.start \div DayLen
        BY <1>2, <1>13 DEF SteadyInv
    <2>2. Today = now \div DayLen
        BY <1>3, <2>1 DEF Today
    <2>3. ASSUME NEW r \in Live'
          PROVE  r.end <= now /\ r.date = r.start \div DayLen
        <3>1. CASE r = Fresh
            BY <1>3, <1>6, <2>2, <3>1
        <3>2. CASE \E q \in Live : q.start = r.start /\ q.date = r.date /\ r.end \in {q.end, now}
            BY <1>3, <2>1, <3>2
        <3> QED BY <1>4, <3>1, <3>2
    <2>4. \A r \in ended' : r \in Live'
        BY DEF Live
    <2>5. ASSUME NEW r \in ended' \union stored \union Storing, r.start = now
          PROVE  ~IsRun(r) /\ r.date = Today
        <3>1. r \in Live' \union stored \union Storing /\ r \in Runs
            BY <1>5, <1>10, <2>4
        <3>2. r.end <= now /\ r.date = r.start \div DayLen
            BY <2>1, <2>3, <3>1
        <3> QED BY <1>3, <2>2, <2>5, <3>1, <3>2 DEF IsRun, Runs
    <2>6. ~Again(ended' \union stored \union Storing)
        BY <2>5 DEF Again
    <2>7. twice' = twice
        BY <1>2, <2>6, ReadingCases
    <2> QED BY <2>1, <2>3, <2>7
<1>14. SteadyInv'
    <2>1. shifts = 0 => offset = 0
        BY <1>2 DEF SteadyInv
    <2>2. now <= now
        BY <1>3
    <2> QED BY <1>1, <1>3, <1>9, <1>13, <2>1, <2>2 DEF SteadyInv
<1>15. ASSUME NEW r \in Live', NEW s \in stored \union Storing,
              s.start = r.start, r.start \notin twice',
              \A q \in Live : q.start = s.start => s.date = q.date /\ s.end <= q.end
       PROVE  s.date = r.date /\ s.end <= r.end
    <2>1. s \in Runs /\ Proper(s) /\ r \in Runs
        BY <1>7, <1>10
    <2>2. CASE r = Fresh /\ Begins
        <3>1. s.start = now /\ ~Again(ended' \union stored \union Storing)
            BY <1>6, <1>15, <2>2 DEF Begins
        <3>2. ~IsRun(s) /\ s.date = Today
            BY <3>1 DEF Again
        <3> QED BY <1>3, <1>6, <2>1, <2>2, <3>1, <3>2 DEF IsRun, Runs
    <2>3. CASE \E q \in Live : q.start = r.start /\ q.date = r.date /\ q.end <= r.end
        <3>1. PICK q \in Live : q.start = r.start /\ q.date = r.date /\ q.end <= r.end
            BY <2>3
        <3>2. s.date = q.date /\ s.end <= q.end /\ q \in Runs
            BY <1>7, <1>15, <3>1
        <3> QED BY <2>1, <3>1, <3>2 DEF Runs
    <2> QED BY <1>4, <2>2, <2>3
<1>16. PartInv'
    <2>1. ASSUME NEW r \in Live', NEW s \in stored, s.start = r.start, r.start \notin twice'
          PROVE  s.date = r.date /\ s.end <= r.end
        <3>1. \A q \in Live : q.start = s.start => s.date = q.date /\ s.end <= q.end
            BY <1>2, <1>5, <2>1 DEF PartInv
        <3> QED BY <1>15, <2>1, <3>1
    <2> QED BY <1>1, <2>1 DEF PartInv
<1>17. /\ ended \subseteq ended' /\ given \subseteq given' /\ given' \subseteq Runs
       /\ queue' \in Seq(Runs) /\ Len(queue') <= QueueLen
       /\ \A x \in ToSet(queue) : x \in ToSet(queue') \/ x \in given'
       /\ \A r \in ended' : r \in ended \/ r \in ToSet(queue')
    <2>1. CASE UNCHANGED <<queue, ended, given>>
        BY <1>2, <2>1 DEF RunTypeOK, TrackerTypeOK
    <2>2. CASE /\ run # NoRun
               /\ \E b \in {run, [run EXCEPT !.end = now]} :
                     /\ b = run \/ WithinStep
                     /\ queue' = Enqueue(queue, b) /\ ended' = ended \union {b}
                     /\ given' = IF Len(queue) = QueueLen THEN given \union {Head(queue)}
                                 ELSE given
        <3>1. PICK b \in {run, [run EXCEPT !.end = now]} :
                  /\ b = run \/ WithinStep
                  /\ queue' = Enqueue(queue, b) /\ ended' = ended \union {b}
                  /\ given' = IF Len(queue) = QueueLen THEN given \union {Head(queue)}
                              ELSE given
            BY <2>2
        <3>2. b \in Runs
            BY <1>2, <2>2, <3>1, RunGrows
        <3>3. queue \in Seq(Runs) /\ Len(queue) <= QueueLen /\ given \subseteq Runs
            BY <1>2 DEF RunTypeOK, TrackerTypeOK
        <3>4. /\ queue' \in Seq(Runs) /\ Len(queue') <= QueueLen /\ b \in ToSet(queue')
              /\ \A x \in ToSet(queue) :
                    x \in ToSet(queue') \/ (Len(queue) = QueueLen /\ x = Head(queue))
              /\ Len(queue) = QueueLen => Head(queue) \in Runs
            BY <3>1, <3>2, <3>3, EnqueueSet
        <3> QED BY <3>1, <3>3, <3>4
    <2> QED BY <1>2, <2>1, <2>2, ReadingCases
<1>18. CopyInv'
    <2>1. ASSUME pc = "last", copy.start \notin twice', NEW r \in Live', r.start = copy.start
          PROVE  r.date = copy.date /\ copy.end <= r.end
        <3>1. copy \in Storing
            BY <2>1 DEF Storing
        <3>2. \A q \in Live : q.start = copy.start => copy.date = q.date /\ copy.end <= q.end
            BY <1>2, <1>5, <2>1 DEF CopyInv
        <3> QED BY <1>15, <2>1, <3>1, <3>2
    <2>2. /\ pc \in {"store", "pop"} => copy \in ended'
          /\ pc = "pop" /\ copy.start \notin twice' => copy \in stored \union given'
          /\ pc = "last" /\ copy.start \notin twice' =>
                \A s \in stored : s.start = copy.start => s.date = copy.date /\ s.end <= copy.end
        BY <1>2, <1>5, <1>17 DEF CopyInv
    <2> QED BY <1>1, <2>1, <2>2 DEF CopyInv
<1>19. RunTypeOK'
    <2>1. prev' \in -1..MaxTime
        BY <1>2, <1>3, Limits DEF RunTypeOK, TrackerTypeOK
    <2>2. twice' \subseteq Nat
        BY <1>2, <1>3, <1>5 DEF RunTypeOK, TrackerTypeOK
    <2> QED BY <1>1, <1>2, <1>5, <1>17, <2>1, <2>2
            DEF RunTypeOK, TrackerTypeOK, PersistTypeOK, StoreTypeOK
<1>20. RunsKept'
    BY <1>1, <1>5, <1>17 DEF RunInv, RunsKept
<1>21. SeenInv' /\ StartsDiffer' /\ ListedOnce'
    BY <1>1, <1>5 DEF RunInv, SeenInv, StartsDiffer, ListedOnce
<1> QED BY <1>11, <1>12, <1>14, <1>16, <1>18, <1>19, <1>20, <1>21 DEF RunInv

-----------------------------------------------------------------------------
(* The persister                                                           *)

(* What a step does to a run that is stored.                               *)
StoredGrowsStep ==
    \A r \in stored :
        \/ r.start \in twice
        \/ \E s \in stored' : s.date = r.date /\ s.start = r.start /\ s.end >= r.end
        \/ \E s \in stored' : s.date >= r.date + DaysKept

(* What a step that ends a listing does.                                   *)
ListingStep ==
    seen # NoList /\ seen' = NoList /\ boots' = boots =>
        \A r \in ended \ given :
            \/ r.start \in twice \/ \E l \in listing' : l.start = r.start
            \/ r \in stored /\ \A s \in seen : s.start # r.start

(* Storing the run under way keeps the invariant, and nothing stored is    *)
(* replaced by less.                                                       *)
LEMMA StoringKept ==
    ASSUME RunInv, NEW aged \in SUBSET Aged(copy), pc \in {"store", "last"},
           stored' = StoreAppend(copy, aged), given' = given \union GivenUp(copy, aged),
           pc' \in {"pop", "open", "idle"}, pc = "last" => pc' = "idle",
           UNCHANGED <<clocks, tracker, force, left, copy, reader, boots, ended, twice>>
    PROVE  RunInv' /\ StoredGrowsStep
<1>1. /\ RunTypeOK /\ ProperInv /\ SteadyInv /\ LiveInv /\ PartInv /\ CopyInv
      /\ StartsDiffer /\ RunsKept
    BY DEF RunInv
<1>2. copy \in Live \union Storing /\ copy \in Runs /\ \A s \in stored : s \in Runs
    BY <1>1 DEF RunTypeOK, PersistTypeOK, StoreTypeOK, CopyInv, Live, Storing
<1>3. \A s \in stored : s.start = copy.start /\ copy.start \notin twice =>
          s.date = copy.date /\ s.end <= copy.end
    <2>1. CASE pc = "last"
        BY <1>1, <2>1 DEF CopyInv
    <2>2. CASE pc = "store"
        <3>1. copy \in Live
            BY <1>1, <2>2 DEF CopyInv, Live
        <3> QED BY <1>1, <3>1 DEF PartInv
    <2> QED BY <2>1, <2>2
<1>4. \A r \in Live : r.start = copy.start /\ copy.start \notin twice =>
          r.date = copy.date /\ copy.end <= r.end
    <2>1. CASE pc = "last"
        BY <1>1, <2>1 DEF CopyInv
    <2>2. CASE pc = "store"
        <3>1. copy \in Live
            BY <1>1, <2>2 DEF CopyInv, Live
        <3>2. \A r \in Live : r.start = copy.start /\ copy.start \notin twice => r = copy
            BY <1>1, <3>1 DEF LiveInv
        <3>3. copy.end <= copy.end
            BY <1>2 DEF Runs
        <3> QED BY <3>2, <3>3
    <2> QED BY <2>1, <2>2
<1>5. /\ stored' \subseteq stored \union {copy}
      /\ \A s, t \in stored' :
            s.start = t.start /\ (s.date = t.date \/ s.start \notin twice) => s = t
      /\ \/ copy \in stored'
         \/ stored' = stored /\ (copy.start \notin twice => copy \in GivenUp(copy, aged))
      /\ \A s \in stored :
            s.start \notin twice =>
               \/ s \in stored'
               \/ copy \in stored' /\ s.start = copy.start /\ s.date = copy.date
               \/ s \in GivenUp(copy, aged) /\ copy \in stored' /\ copy.date >= s.date + DaysKept
      /\ GivenUp(copy, aged) \subseteq Runs
    <2>1. StoreTypeOK /\ \A s \in stored : s.start = copy.start /\ copy.start \notin twice =>
                                              s.date = copy.date
        BY <1>1, <1>3 DEF RunTypeOK
    <2> QED BY <1>1, <1>2, <2>1, StoreEffect
<1>6. RunTypeOK'
    <2>1. StoreTypeOK'
        BY <1>1, <1>2, StoreStaysBounded DEF RunTypeOK
    <2>2. TrackerTypeOK' /\ PersistTypeOK'
        BY <1>1, <1>5 DEF RunTypeOK, TrackerTypeOK, PersistTypeOK
    <2> QED BY <2>1, <2>2 DEF RunTypeOK
<1>7. Live' = Live /\ Storing' = {} /\ stored' \subseteq Live \union stored \union Storing
    BY <1>2, <1>5 DEF Live, Storing
<1>8. ProperInv'
    BY <1>1, <1>7 DEF ProperInv, Proper
<1>9. SteadyInv'
    BY <1>1, <1>7 DEF SteadyInv
<1>10. LiveInv'
    BY <1>1, <1>7 DEF LiveInv
<1>11. PartInv'
    BY <1>1, <1>4, <1>5, <1>7 DEF PartInv
<1>12. CopyInv'
    BY <1>1, <1>5 DEF CopyInv
<1>13. RunsKept'
    <2>1. ASSUME NEW r \in ended, r \in stored, r.start = copy.start, copy.start \notin twice
          PROVE  r = copy
        <3>1. r.date = copy.date /\ r.end <= copy.end /\ copy.end <= r.end
            BY <1>3, <1>4, <2>1 DEF Live
        <3>2. r \in Runs
            BY <1>2, <2>1
        <3> QED BY <1>2, <2>1, <3>1, <3>2 DEF Runs
    <2>2. ASSUME NEW r \in ended, r \in stored, r.start \notin twice
          PROVE  r \in stored' \/ r \in given'
        BY <1>5, <2>1, <2>2
    <2> QED BY <1>1, <2>2 DEF RunsKept
<1>14. StartsDiffer'
    BY <1>5 DEF StartsDiffer
<1>15. SeenInv' /\ ListedOnce'
    BY DEF RunInv, SeenInv, ListedOnce
<1>16. ASSUME NEW r \in stored, r.start \notin twice
       PROVE  \/ \E s \in stored' : s.date = r.date /\ s.start = r.start /\ s.end >= r.end
              \/ \E s \in stored' : s.date >= r.date + DaysKept
    <2>1. r \in Runs /\ r.end >= r.end
        BY <1>2 DEF Runs
    <2>2. r.start = copy.start => copy.end >= r.end
        BY <1>2, <1>3, <1>16, <2>1 DEF Runs
    <2> QED BY <1>5, <1>16, <2>1, <2>2
<1> QED BY <1>6, <1>8, <1>9, <1>10, <1>11, <1>12, <1>13, <1>14, <1>15, <1>16
        DEF RunInv, StoredGrowsStep

(* A step of the persister that stores nothing and takes nothing off the   *)
(* queue.                                                                  *)
LEMMA QuietKept ==
    ASSUME RunInv, UNCHANGED <<clocks, tracker, stored, reader, boots, ended, given, twice>>,
           PersistTypeOK', CopyInv', Storing' \subseteq Live \union Storing
    PROVE  RunInv'
<1>1. TrackerTypeOK' /\ StoreTypeOK'
    BY DEF RunInv, RunTypeOK, TrackerTypeOK, StoreTypeOK
<1>2. Live' = Live
    BY DEF Live
<1>3. ProperInv' /\ SteadyInv' /\ LiveInv' /\ PartInv'
    BY <1>2 DEF RunInv, ProperInv, Proper, SteadyInv, LiveInv, PartInv
<1>4. SeenInv' /\ RunsKept' /\ StartsDiffer' /\ ListedOnce'
    BY DEF RunInv, SeenInv, RunsKept, StartsDiffer, ListedOnce
<1> QED BY <1>1, <1>3, <1>4 DEF RunInv, RunTypeOK

(* The steps of persistEnergyLedger that store nothing.                    *)
LEMMA PersistQuiet ==
    ASSUME RunInv,
           \/ \E f \in BOOLEAN : PersistBegin(f)
           \/ PersistTake
           \/ OpenTake
           \/ LockMissed
           \/ pc \in {"store", "last"} /\ pc' \in {"open", "idle"} /\ UNCHANGED <<stored, given>>
              /\ UNCHANGED <<clocks, tracker, force, left, copy, reader, boots, ended, twice>>
    PROVE  RunInv' /\ UNCHANGED <<stored, reader>>
<1> USE Limits
<1>0. RunTypeOK /\ LiveInv /\ ProperInv /\ PartInv /\ CopyInv
    BY DEF RunInv
<1>1. CASE \E f \in BOOLEAN : PersistBegin(f)
    <2>1. PersistTypeOK' /\ CopyInv' /\ Storing' = {}
        BY <1>0, <1>1 DEF PersistBegin, RunTypeOK, PersistTypeOK, CopyInv, Storing
    <2> QED BY <1>1, <2>1, QuietKept DEF PersistBegin
<1>2. CASE PersistTake
    <2>1. queue # <<>> => Head(queue) \in ended /\ Head(queue) \in Runs
        BY <1>0, TailSet DEF LiveInv, RunTypeOK, TrackerTypeOK
    <2>2. PersistTypeOK' /\ CopyInv' /\ Storing' = {}
        BY <1>0, <1>2, <2>1 DEF PersistTake, RunTypeOK, PersistTypeOK, CopyInv, Storing
    <2> QED BY <1>2, <2>2, QuietKept DEF PersistTake
<1>3. CASE OpenTake
    <2>1. PersistTypeOK'
        BY <1>0, <1>3 DEF OpenTake, RunTypeOK, PersistTypeOK, TrackerTypeOK
    <2>2. CopyInv' /\ Storing' \subseteq Live
        <3>1. CASE force /\ run # NoRun
            <4>1. run \in Live /\ run \in Runs /\ run.end <= run.end
                BY <1>0, <3>1 DEF Live, RunTypeOK, TrackerTypeOK, Runs
            <4>2. \A r \in Live : r.start = run.start /\ run.start \notin twice =>
                      r.date = run.date /\ run.end <= r.end
                BY <1>0, <4>1 DEF LiveInv
            <4>3. \A t \in stored : t.start = run.start /\ run.start \notin twice =>
                      t.date = run.date /\ t.end <= run.end
                BY <1>0, <4>1 DEF PartInv
            <4>4. /\ pc' = "last" /\ copy' = run
                  /\ UNCHANGED <<clocks, tracker, stored, ended, given, twice>>
                BY <1>3, <3>1 DEF OpenTake
            <4>5. Live' = Live
                BY <4>4 DEF Live
            <4> QED BY <4>1, <4>2, <4>3, <4>4, <4>5 DEF CopyInv, Storing
        <3>2. CASE ~(force /\ run # NoRun)
            BY <1>3, <3>2 DEF OpenTake, CopyInv, Storing
        <3> QED BY <3>1, <3>2
    <2> QED BY <1>3, <2>1, <2>2, QuietKept DEF OpenTake
<1>4. CASE LockMissed
    <2>1. PersistTypeOK' /\ CopyInv' /\ Storing' = {}
        BY <1>0, <1>4 DEF LockMissed, RunTypeOK, PersistTypeOK, CopyInv, Storing
    <2> QED BY <1>4, <2>1, QuietKept DEF LockMissed
<1>5. CASE /\ pc \in {"store", "last"}
           /\ pc' \in {"open", "idle"} /\ UNCHANGED <<stored, given>>
           /\ UNCHANGED <<clocks, tracker, force, left, copy, reader, boots, ended, twice>>
    <2>1. PersistTypeOK' /\ CopyInv' /\ Storing' = {}
        BY <1>0, <1>5 DEF RunTypeOK, PersistTypeOK, CopyInv, Storing
    <2> QED BY <1>5, <2>1, QuietKept
<1> QED BY <1>1, <1>2, <1>3, <1>4, <1>5

(* A run is taken off the queue only when it is the one that was stored.   *)
LEMMA PopKept ==
    ASSUME RunInv, PersistPop
    PROVE  RunInv'
<1>1. /\ pc = "pop" /\ pc' = "take" /\ queue' = IF StillHead THEN Tail(queue) ELSE queue
      /\ UNCHANGED <<clocks, run, prev, stored, force, left, copy, reader, boots, ended, given, twice>>
    BY DEF PersistPop
<1>2. RunTypeOK /\ LiveInv /\ CopyInv /\ RunsKept
    BY DEF RunInv
<1>3. /\ queue' \in Seq(Runs) /\ Len(queue') <= QueueLen
      /\ ToSet(queue') \subseteq ToSet(queue)
      /\ \A x \in ToSet(queue) : x \in ToSet(queue') \/ x = copy \/ x.start \in twice
    <2>1. CASE ~StillHead
        BY <1>1, <1>2, <2>1 DEF RunTypeOK, TrackerTypeOK
    <2>2. CASE StillHead
        <3>1. queue # <<>> /\ Head(queue).start = copy.start /\ queue' = Tail(queue)
            BY <1>1, <2>2 DEF StillHead
        <3>2. Head(queue) \in ended /\ copy \in ended
            BY <1>1, <1>2, <3>1, TailSet DEF LiveInv, CopyInv, RunTypeOK, TrackerTypeOK
        <3>3. Head(queue) = copy \/ Head(queue).start \in twice
            BY <1>2, <3>1, <3>2 DEF LiveInv, Live
        <3>4. queue \in Seq(Runs) /\ Len(queue) <= QueueLen
            BY <1>2 DEF RunTypeOK, TrackerTypeOK
        <3>5. /\ Tail(queue) \in Seq(Runs) /\ Len(Tail(queue)) = Len(queue) - 1
              /\ ToSet(Tail(queue)) \subseteq ToSet(queue)
              /\ \A x \in ToSet(queue) : x = Head(queue) \/ x \in ToSet(Tail(queue))
            BY <3>1, <3>4, TailSet
        <3> QED BY <3>1, <3>3, <3>4, <3>5, Limits
    <2> QED BY <2>1, <2>2
<1>4. RunTypeOK'
    BY <1>1, <1>2, <1>3 DEF RunTypeOK, TrackerTypeOK, PersistTypeOK, StoreTypeOK
<1>5. Live' = Live /\ Storing' = {}
    BY <1>1 DEF Live, Storing
<1>6. LiveInv'
    BY <1>1, <1>2, <1>3, <1>5 DEF LiveInv
<1>7. ProperInv' /\ SteadyInv' /\ PartInv' /\ CopyInv'
    BY <1>1, <1>5 DEF RunInv, ProperInv, Proper, SteadyInv, PartInv, CopyInv
<1>8. RunsKept'
    <2>1. copy.start \in twice \/ copy \in stored \union given
        BY <1>1, <1>2 DEF CopyInv
    <2> QED BY <1>1, <1>2, <1>3, <2>1 DEF RunsKept
<1>9. SeenInv' /\ StartsDiffer' /\ ListedOnce'
    BY <1>1 DEF RunInv, SeenInv, StartsDiffer, ListedOnce
<1> QED BY <1>4, <1>6, <1>7, <1>8, <1>9 DEF RunInv

-----------------------------------------------------------------------------
(* Listings, time and restarts                                             *)

(* The listing merges two sets of runs that each hold a run once, and has  *)
(* a run that was queued or stored when it began.                          *)
LEMMA ListKept ==
    ASSUME RunInv, ListStored \/ ListLive
    PROVE  RunInv' /\ ListingStep
<1>1. UNCHANGED <<clocks, tracker, stored, persist, boots, ended, given, twice>>
    BY DEF ListStored, ListLive
<1>2. RunTypeOK /\ LiveInv /\ StartsDiffer /\ SeenInv /\ RunsKept
    BY DEF RunInv
<1>3. /\ seen' \subseteq Runs /\ listing' \subseteq Runs
      /\ \A r, s \in seen' : r.start = s.start /\ r.start \notin twice => r = s
      /\ \A r, s \in listing' : r.start = s.start /\ r.start \notin twice => r = s
      /\ ListingStep
    <2>1. NoList \subseteq Runs /\ \A r, s \in NoList : r = s
        BY DEF NoList, NoRun, Runs
    <2>2. CASE ListStored
        BY <1>2, <2>1, <2>2 DEF ListStored, ListingStep, StartsDiffer, RunTypeOK, StoreTypeOK
    <2>3. CASE ListLive
        <3> DEFINE live == ToSet(queue) \union ({run} \ {NoRun})
        <3>1. live \subseteq Live /\ live \subseteq Runs /\ ToSet(queue) \subseteq live
            BY <1>2 DEF LiveInv, Live, RunTypeOK, TrackerTypeOK
        <3>2. seen' = NoList /\ listing' = Merged(live)
            BY <2>3 DEF ListLive
        <3> HIDE DEF live
        <3>3. \A r, s \in listing' : r.start = s.start /\ r.start \notin twice => r = s
            BY <1>2, <3>1, <3>2 DEF Merged, LiveInv, SeenInv
        <3>4. listing' \subseteq Runs
            BY <1>2, <3>1, <3>2 DEF Merged, RunTypeOK, PersistTypeOK
        <3>5. ListingStep
            <4>1. \A s \in seen : \E l \in listing' : l.start = s.start
                BY <3>2 DEF Merged
            <4>2. \A r \in ToSet(queue) : \E l \in listing' : l.start = r.start
                BY <3>1, <3>2 DEF Merged
            <4> QED BY <1>2, <4>1, <4>2 DEF ListingStep, RunsKept
        <3> QED BY <2>1, <3>2, <3>3, <3>4, <3>5
    <2> QED BY <2>2, <2>3
<1>4. RunTypeOK'
    BY <1>1, <1>2, <1>3 DEF RunTypeOK, TrackerTypeOK, PersistTypeOK, StoreTypeOK
<1>5. ProperInv' /\ SteadyInv' /\ LiveInv' /\ PartInv' /\ CopyInv'
    BY <1>1 DEF RunInv, ProperInv, Proper, SteadyInv, LiveInv, PartInv, CopyInv, Live, Storing
<1>6. RunsKept' /\ StartsDiffer'
    BY <1>1 DEF RunInv, RunsKept, StartsDiffer
<1>7. SeenInv' /\ ListedOnce'
    BY <1>1, <1>3 DEF SeenInv, ListedOnce
<1> QED BY <1>3, <1>4, <1>5, <1>6, <1>7 DEF RunInv

(* Time passes, or the clock or the offset of local time is changed.       *)
LEMMA ClockKept ==
    ASSUME RunInv, Tick \/ Shift
    PROVE  RunInv'
<1>1. UNCHANGED <<tracker, stored, persist, reader, boots, ended, given, twice>>
    BY DEF Tick, Shift
<1>2. /\ now \in Nat /\ now' \in 0..MaxTime /\ DayLen <= now' /\ offset' \in Offsets
      /\ shifts' \in 0..MaxShifts
      /\ shifts' = 0 => shifts = 0 /\ offset' = offset /\ now <= now'
    <2>1. now \in 0..MaxTime /\ offset \in Offsets /\ shifts \in 0..MaxShifts /\ DayLen <= now
        BY DEF RunInv, RunTypeOK, TrackerTypeOK, ProperInv
    <2>2. CASE Tick
        BY <2>1, <2>2, Limits DEF Tick
    <2>3. CASE Shift
        <3>1. shifts < MaxShifts /\ shifts' = shifts + 1
            BY <2>3 DEF Shift
        <3>2. CASE \E d \in StepsBack : now - d >= DayLen /\ now' = now - d /\ UNCHANGED offset
            BY <2>1, <3>1, <3>2, Limits
        <3>3. CASE \E o \in Offsets : o # offset /\ offset' = o /\ UNCHANGED now
            BY <2>1, <3>1, <3>3, Limits
        <3> QED BY <2>3, <3>2, <3>3 DEF Shift
    <2> QED BY <2>2, <2>3
<1>3. Live' = Live /\ Storing' = Storing
    BY <1>1 DEF Live, Storing
<1>4. RunTypeOK'
    BY <1>1, <1>2 DEF RunInv, RunTypeOK, TrackerTypeOK, PersistTypeOK, StoreTypeOK
<1>5. ProperInv'
    BY <1>1, <1>2, <1>3 DEF RunInv, ProperInv, Proper
<1>6. SteadyInv'
    <2>1. prev \in Int /\ \A r \in Live \union stored \union Storing : r \in Runs
        BY Limits DEF Live, Storing, RunInv, RunTypeOK, TrackerTypeOK, StoreTypeOK, PersistTypeOK
    <2>2. \A r \in Live \union stored \union Storing : r.end \in Nat
        BY <2>1 DEF Runs
    <2> QED BY <1>1, <1>2, <1>3, <2>1, <2>2 DEF RunInv, SteadyInv
<1>7. LiveInv' /\ PartInv' /\ CopyInv'
    BY <1>1, <1>3 DEF RunInv, LiveInv, PartInv, CopyInv
<1>8. SeenInv' /\ RunsKept' /\ StartsDiffer' /\ ListedOnce'
    BY <1>1 DEF RunInv, SeenInv, RunsKept, StartsDiffer, ListedOnce
<1> QED BY <1>4, <1>5, <1>6, <1>7, <1>8 DEF RunInv

(* After a start nothing is live, and the store is as it was.              *)
LEMMA StartKept ==
    ASSUME RunInv, Restart
    PROVE  RunInv'
<1>1. /\ boots < MaxBoots /\ boots' = boots + 1
      /\ run' = NoRun /\ prev' = -1 /\ queue' = <<>>
      /\ pc' = "idle" /\ force' = FALSE /\ left' = 0 /\ copy' = NoRun
      /\ seen' = NoList /\ listing' = NoList /\ ended' = {} /\ given' = {}
      /\ UNCHANGED <<now, offset, shifts, stored, twice>>
    BY DEF Restart
<1>2. NoRun \in Runs /\ Live' = {} /\ Storing' = {} /\ ToSet(queue') = {}
    BY <1>1 DEF NoRun, Runs, Live, Storing, ToSet
<1>3. RunTypeOK'
    <2>1. TrackerTypeOK'
        BY <1>1, <1>2, Limits DEF RunInv, RunTypeOK, TrackerTypeOK
    <2>2. PersistTypeOK'
        <3>1. NoList \subseteq Runs
            BY <1>2 DEF NoList
        <3>2. seen' \subseteq Runs /\ listing' \subseteq Runs /\ copy' \in Runs
            BY <1>1, <1>2, <3>1
        <3>3. left' \in 0..QueueLen
            BY <1>1, Limits
        <3>4. pc' \in {"idle", "take", "store", "pop", "open", "last"} /\ force' \in BOOLEAN
            BY <1>1, Zenon
        <3> QED BY <3>2, <3>3, <3>4, Zenon DEF PersistTypeOK
    <2>3. StoreTypeOK'
        BY <1>1 DEF RunInv, RunTypeOK, StoreTypeOK
    <2> QED BY <2>1, <2>2, <2>3 DEF RunTypeOK
<1>4. ProperInv' /\ SteadyInv'
    <2>1. -1 <= now
        BY Limits DEF RunInv, RunTypeOK, TrackerTypeOK
    <2> QED BY <1>1, <1>2, <2>1 DEF RunInv, ProperInv, SteadyInv, Proper
<1>5. LiveInv' /\ PartInv' /\ CopyInv'
    BY <1>1, <1>2 DEF LiveInv, PartInv, CopyInv
<1>6. SeenInv' /\ RunsKept' /\ StartsDiffer' /\ ListedOnce'
    BY <1>1 DEF RunInv, SeenInv, RunsKept, StartsDiffer, ListedOnce, NoList
<1> QED BY <1>3, <1>4, <1>5, <1>6 DEF RunInv

-----------------------------------------------------------------------------
(* The theorems                                                            *)

(* At the first start there is no run.                                     *)
LEMMA RunStart ==
    ASSUME RunInit
    PROVE  RunInv
<1> USE DEF RunInit
<1>1. NoRun \in Runs /\ Live = {} /\ Storing = {} /\ ToSet(queue) = {}
    BY DEF NoRun, Runs, Live, Storing, ToSet
<1>2. TrackerTypeOK
    BY <1>1, Limits DEF TrackerTypeOK
<1>6. PersistTypeOK
    <2>1. NoList \subseteq Runs
        BY <1>1 DEF NoList
    <2>2. seen \subseteq Runs /\ listing \subseteq Runs /\ copy \in Runs
        BY <1>1, <2>1
    <2>3. left \in 0..QueueLen
        BY Limits
    <2>4. pc \in {"idle", "take", "store", "pop", "open", "last"} /\ force \in BOOLEAN
        BY Zenon
    <2> QED BY <2>2, <2>3, <2>4, Zenon DEF PersistTypeOK
<1>3. StoreTypeOK
    BY FS_EmptySet DEF StoreTypeOK
<1>4. ProperInv /\ SteadyInv /\ LiveInv /\ PartInv /\ CopyInv
    BY <1>1, Limits DEF ProperInv, SteadyInv, LiveInv, PartInv, CopyInv
<1>5. SeenInv /\ RunsKept /\ StartsDiffer /\ ListedOnce
    BY DEF SeenInv, RunsKept, StartsDiffer, ListedOnce, NoList
<1> QED BY <1>2, <1>3, <1>4, <1>5, <1>6 DEF RunInv, RunTypeOK

(* A step that leaves the store alone takes nothing from it.               *)
LEMMA SameStoreGrows ==
    ASSUME StoreTypeOK, UNCHANGED stored
    PROVE  StoredGrowsStep
<1>1. \A r \in stored : r \in stored' /\ r.end >= r.end
    BY DEF StoreTypeOK, Runs
<1> QED BY <1>1 DEF StoredGrowsStep

(* A step that leaves the listing alone ends none.                         *)
LEMMA SameListing ==
    ASSUME UNCHANGED reader
    PROVE  ListingStep
BY DEF ListingStep

(* Every step keeps the invariant, lets what is stored only grow, and ends *)
(* a listing with all it should have.                                      *)
LEMMA RunStep ==
    ASSUME RunInv, [RunNext]_vars
    PROVE  RunInv' /\ StoredGrowsStep /\ ListingStep
<1>0. StoreTypeOK /\ boots \in Nat
    BY Limits DEF RunInv, RunTypeOK, TrackerTypeOK
<1>1. CASE PollStep
    <2>1. PICK running \in BOOLEAN : Reading(running)
        BY <1>1 DEF PollStep
    <2>2. UNCHANGED <<stored, reader>>
        BY <2>1 DEF Reading
    <2> QED BY <1>0, <2>1, <2>2, ReadingKept, SameStoreGrows, SameListing
<1>2. CASE (\E f \in BOOLEAN : PersistBegin(f)) \/ PersistTake \/ OpenTake \/ LockMissed
    BY <1>0, <1>2, PersistQuiet, SameStoreGrows, SameListing
<1>3. CASE PersistStore \/ OpenStore
    <2>1. /\ UNCHANGED <<clocks, tracker, force, left, copy, reader, boots, ended, twice>>
          /\ pc \in {"store", "last"} /\ pc' \in {"pop", "open", "idle"} /\ (pc = "last" => pc' = "idle")
          /\ \E aged \in SUBSET Aged(copy) :
                \/ stored' = StoreAppend(copy, aged) /\ given' = given \union GivenUp(copy, aged)
                \/ pc' \in {"open", "idle"} /\ UNCHANGED <<stored, given>>
        BY <1>3 DEF PersistStore, OpenStore, Store
    <2>2. CASE \E aged \in SUBSET Aged(copy) :
                  stored' = StoreAppend(copy, aged) /\ given' = given \union GivenUp(copy, aged)
        BY <2>1, <2>2, StoringKept, SameListing
    <2>3. CASE pc' \in {"open", "idle"} /\ UNCHANGED <<stored, given>>
        BY <1>0, <2>1, <2>3, PersistQuiet, SameStoreGrows, SameListing
    <2> QED BY <2>1, <2>2, <2>3
<1>4. CASE PersistPop
    BY <1>0, <1>4, PopKept, SameStoreGrows, SameListing DEF PersistPop
<1>5. CASE ListStored \/ ListLive
    BY <1>0, <1>5, ListKept, SameStoreGrows DEF ListStored, ListLive
<1>6. CASE Tick \/ Shift
    BY <1>0, <1>6, ClockKept, SameStoreGrows, SameListing DEF Tick, Shift
<1>7. CASE Restart
    <2>1. ListingStep
        BY <1>0, <1>7 DEF Restart, ListingStep
    <2> QED BY <1>0, <1>7, <2>1, StartKept, SameStoreGrows DEF Restart
<1>8. CASE UNCHANGED vars
    <2>1. PersistTypeOK' /\ CopyInv' /\ Storing' = Storing
        BY <1>8 DEF vars, RunInv, RunTypeOK, PersistTypeOK, CopyInv, Live, Storing
    <2> QED BY <1>0, <1>8, <2>1, QuietKept, SameStoreGrows, SameListing DEF vars
<1> QED BY <1>1, <1>2, <1>3, <1>4, <1>5, <1>6, <1>7, <1>8 DEF RunNext, OtherStep, RecorderStep

(* The inductive invariant holds for every size of the queue and of the    *)
(* store, however often the clock is set back or local time moves: runs of *)
(* a boot begin at different readings, and what is stored or being stored  *)
(* of a run is a part of it; a reading at which a second run begins, which *)
(* takes a change of clock or offset, is excepted.                         *)
THEOREM RunInvariant == RunSpec => []RunInv
<1>1. RunInit => RunInv
    BY RunStart
<1>2. RunInv /\ [RunNext]_vars => RunInv'
    BY RunStep
<1> QED BY <1>1, <1>2, PTL DEF RunSpec

(* A run that ended waits in s_run_queue, is stored whole by               *)
(* store_append_run or was given up for want of room; a day's array and    *)
(* the queue stay within their sizes, and no run is stored or listed       *)
(* twice, unless a second one began at the same reading of a clock that    *)
(* was changed.                                                            *)
THEOREM RunsAreKeptOnce == RunSpec => []RunsKeptOnce
<1>1. RunInv => RunsKeptOnce
    BY DEF RunInv, SteadyInv, RunsKeptOnce
<1> QED BY <1>1, RunInvariant, PTL

(* What is stored of a run only grows, or its day ages out: the copy of    *)
(* the open run taken ahead of a restart never overwrites a later one.     *)
THEOREM StoredRunsGrow == RunSpec => StoredGrows
<1>1. RunInv /\ [RunNext]_vars => [StoredGrowsStep]_vars
    BY RunStep
<1>2. RunSpec => [][StoredGrowsStep]_vars
    BY <1>1, RunInvariant, PTL DEF RunSpec
<1> QED BY <1>2 DEF StoredGrows, StoredGrowsStep

(* energy_runs_get_handler misses a finished run only if it was stored     *)
(* after the store was read and had left the queue before that was read.   *)
THEOREM ListingsMissNone == RunSpec => ListingMissesNone
<1>1. RunInv /\ [RunNext]_vars => [ListingStep]_vars
    BY RunStep
<1>2. RunSpec => [][ListingStep]_vars
    BY <1>1, RunInvariant, PTL DEF RunSpec
<1> QED BY <1>2 DEF ListingMissesNone, ListingStep

-----------------------------------------------------------------------------
(* The energy ledger: parameters, dates and readings                       *)

(* The intervals and bounds are natural numbers, a day has ticks.          *)
LEMMA EnergyLimits ==
    /\ DayTicks \in Nat /\ DayTicks > 0 /\ MaxInterval \in Nat /\ MaxInterval > 0
    /\ SaveInterval \in Nat /\ SaveInterval > 0 /\ Period \in Nat /\ Period > 0
    /\ MaxGap \in Nat /\ MaxGap > 0
    /\ MaxStarts \in Nat /\ MaxStarts > 0 /\ LastTime \in Nat /\ MaxZones \in Nat
    /\ FirstTime \in Nat /\ FirstTime = 2 * DayTicks - 1 /\ FirstTime <= LastTime
    /\ Gain \in Nat /\ Gain < DayTicks
BY EnergyLedgerAssumption DEF FirstTime

(* A local offset is a number.                                             *)
LEMMA LocalOffset == LocalOffsets \subseteq Int
<1>1. Zones \subseteq Int /\ Gain \in Int
  BY EnergyLimits, EnergyLedgerAssumption
<1>2. \A z \in Zones : z + Gain \in Int
  BY <1>1
<1> QED
  BY <1>1, <1>2 DEF LocalOffsets

(* A midnight is a time, and a later date begins later.                    *)
LEMMA MidnightGrows ==
    ASSUME NEW z \in Int, NEW d \in Int, NEW e \in Int
    PROVE  /\ Midnight(d, z) \in Int
           /\ Midnight(d, z) <= d * DayTicks - z /\ d * DayTicks - z <= Midnight(d, z) + Gain
           /\ d < e => Midnight(d, z) < Midnight(e, z)
<1>1. d * DayTicks \in Int /\ e * DayTicks \in Int
  BY EnergyLimits
<1>2. Ahead(d) \in 0..Gain /\ Ahead(e) \in 0..Gain
  BY EnergyLimits DEF Ahead
<1>3. d < e => d * DayTicks + DayTicks <= e * DayTicks
  BY <1>1, EnergyLimits, Z3
<1> QED
  BY <1>1, <1>2, <1>3, EnergyLimits DEF Midnight

(* A date is positive, and its day ends after the time it was taken at.    *)
LEMMA LocalDay ==
    ASSUME NEW t \in Nat, t >= FirstTime, NEW z \in Zones
    PROVE  /\ DateAt(t, z) \in Nat /\ DateAt(t, z) > 0
           /\ StartOf(t, z) \in Int /\ EndOf(t, z) \in Int
           /\ StartOf(t, z) <= t /\ t < EndOf(t, z)
           /\ OffsetAt(t, z) \in LocalOffsets
<1> DEFINE d == (t + z + Gain) \div DayTicks
<1>1. z \in Int /\ t + z + Gain \in Nat /\ t + z >= DayTicks
  BY EnergyLimits, EnergyLedgerAssumption
<1>2. d \in Int /\ DayTicks * d <= t + z + Gain /\ t + z + Gain < DayTicks * d + DayTicks
  BY <1>1, EnergyLimits, Z3
<1>3. d > 0
  BY <1>1, <1>2, EnergyLimits, Z3
<1>4. DayTicks * d = d * DayTicks /\ d * DayTicks \in Int
  BY <1>2, EnergyLimits
<1>5. (d - 1) * DayTicks = d * DayTicks - DayTicks /\ (d + 1) * DayTicks = d * DayTicks + DayTicks
  BY <1>2, EnergyLimits, Z3
<1>6. /\ Midnight(d, z) \in Int /\ Midnight(d, z) <= d * DayTicks - z
      /\ Midnight(d - 1, z) \in Int /\ Midnight(d - 1, z) <= (d - 1) * DayTicks - z
      /\ Midnight(d + 1, z) \in Int /\ (d + 1) * DayTicks - z <= Midnight(d + 1, z) + Gain
  <2>1. d - 1 \in Int /\ d + 1 \in Int
    BY <1>2
  <2> HIDE DEF d
  <2> QED
    BY <1>1, <1>2, <2>1, MidnightGrows
<1>7. DateAt(t, z) = IF Midnight(d, z) <= t THEN d ELSE d - 1
  BY DEF DateAt
<1> HIDE DEF d
<1>8. OffsetAt(t, z) \in LocalOffsets
  BY <1>1 DEF OffsetAt, Ahead, LocalOffsets
<1>9. CASE Midnight(d, z) <= t
  BY <1>1, <1>2, <1>3, <1>4, <1>5, <1>6, <1>7, <1>8, <1>9, EnergyLimits DEF StartOf, EndOf
<1>10. CASE ~(Midnight(d, z) <= t)
  <2>1. DateAt(t, z) = d - 1 /\ (d - 1) + 1 = d
    BY <1>2, <1>7, <1>10
  <2>2. d # 1
    <3>1. d = 1 => d * DayTicks = DayTicks
      BY EnergyLimits
    <3> QED
      BY <1>1, <1>6, <1>10, <3>1, EnergyLimits
  <2>3. Midnight(d - 1, z) <= t
    BY <1>1, <1>2, <1>4, <1>5, <1>6, EnergyLimits
  <2> QED
    BY <1>2, <1>3, <1>6, <1>8, <1>10, <2>1, <2>2, <2>3 DEF StartOf, EndOf
<1> QED
  BY <1>9, <1>10

(* The steps of EnergyLedger::add ahead of booking change the span only;   *)
(* after them a day that is over is behind the date of the clock.          *)
LEMMA SpanEffect ==
    ASSUME LedgerTypeOK, DateInv, NEW S, NEW L, S = Spanned(led), L = RunOn(S)
    PROVE  /\ S \in Ledgers /\ L \in Ledgers
           /\ S.open = led.open /\ S.day = led.day /\ S.prev = led.prev /\ S.on = led.on
           /\ L.open = led.open /\ L.day = led.day /\ L.prev = led.prev /\ L.on = led.on
           /\ L.from = S.from
           /\ time >= L.to => DateAt(time, zone) > led.day.date
<1>1. time \in Nat /\ time >= FirstTime /\ zone \in Zones /\ led \in Ledgers
  BY EnergyLimits DEF LedgerTypeOK, DateInv
<1>2. /\ DateAt(time, zone) \in Nat /\ StartOf(time, zone) \in Int /\ EndOf(time, zone) \in Int
      /\ time < EndOf(time, zone)
  BY <1>1, LocalDay
<1> HIDE DEF LedgerTypeOK, DateInv
<1>3. /\ S \in Ledgers /\ S.open = led.open /\ S.day = led.day /\ S.prev = led.prev /\ S.on = led.on
  BY <1>1, <1>2 DEF Spanned, Ledgers
<1>4. /\ L \in Ledgers /\ L.open = S.open /\ L.day = S.day /\ L.prev = S.prev /\ L.on = S.on
      /\ L.from = S.from
  BY <1>2, <1>3 DEF RunOn, Ledgers
<1>5. time >= L.to => DateAt(time, zone) > led.day.date
  <2>1. S.day.date \in Nat /\ S.to \in Int
    BY <1>3 DEF Ledgers, Days, NoDay
  <2>2. CASE time >= S.to /\ DateAt(time, zone) <= S.day.date
    <3>1. L.to = EndOf(time, zone)
      BY <1>3, <2>2 DEF RunOn, Ledgers
    <3> QED
      BY <3>1, <1>1, <1>2
  <2>3. CASE ~(time >= S.to /\ DateAt(time, zone) <= S.day.date)
    <3>1. L = S
      BY <2>3 DEF RunOn
    <3> QED
      BY <3>1, <2>1, <2>3, <1>1, <1>2, <1>3
  <2> QED
    BY <2>2, <2>3
<1> QED
  BY <1>3, <1>4, <1>5

(* A day with more energy booked to it.                                    *)
More(d, e) == [d EXCEPT !.total = @ + e]

(* A reading becomes the reference of the next.                            *)
LEMMA ReferenceEffect ==
    ASSUME NEW M \in Ledgers, NEW on \in BOOLEAN, time \in 0..LastTime
    PROVE  /\ SetReference(M, on) \in Ledgers
           /\ SetReference(M, on).open = M.open /\ SetReference(M, on).day = M.day
<1>1. time \in -1..LastTime
  BY EnergyLimits
<1> QED
  BY <1>1 DEF SetReference, Ledgers

(* What a reading may do: open the first day, book what was used to the    *)
(* open one, or close it and share what was used between it and the next.  *)
LEMMA AddEffect ==
    ASSUME LedgerTypeOK, DateInv, NEW on \in BOOLEAN
    PROVE  /\ Used \in Nat /\ Add(led, on).led \in Ledgers /\ Add(led, on).led.open
           /\ \/ /\ ~led.open /\ Add(led, on).fin = NoDay
                 /\ Add(led, on).led.day = [date |-> DateAt(time, zone), off |-> OffsetAt(time, zone), total |-> 0]
              \/ /\ led.open /\ Add(led, on).fin = NoDay
                 /\ \E e \in 0..Used : Add(led, on).led.day = More(led.day, e)
              \/ /\ led.open /\ DateAt(time, zone) > led.day.date
                 /\ \E e \in 0..Used :
                       /\ Add(led, on).fin = More(led.day, e)
                       /\ Add(led, on).led.day =
                             [date |-> DateAt(time, zone), off |-> OffsetAt(time, zone), total |-> Used - e]
<1> DEFINE S == Spanned(led)
           L == RunOn(S)
           D == [date |-> DateAt(time, zone), off |-> OffsetAt(time, zone), total |-> 0]
<1>1. time \in 0..LastTime /\ time >= FirstTime /\ zone \in Zones /\ led \in Ledgers
  BY EnergyLimits DEF LedgerTypeOK, DateInv
<1>2. /\ DateAt(time, zone) \in Nat /\ StartOf(time, zone) \in Int /\ EndOf(time, zone) \in Int
      /\ OffsetAt(time, zone) \in LocalOffsets
  BY <1>1, LocalDay
<1>3. /\ S \in Ledgers /\ L \in Ledgers
      /\ S.open = led.open /\ S.day = led.day /\ S.prev = led.prev /\ S.on = led.on
      /\ L.open = led.open /\ L.day = led.day /\ L.prev = led.prev /\ L.on = led.on
      /\ time >= L.to => DateAt(time, zone) > led.day.date
  BY SpanEffect
<1>4. Used \in Nat
  BY <1>1 DEF Used, InStep, Ledgers
<1>5. /\ led.day.total \in Nat /\ led.day \in Days /\ D \in Days /\ led.prev \in -1..LastTime
      /\ led.on \in BOOLEAN /\ L.to \in Int
  BY <1>1, <1>2, <1>3 DEF Ledgers, Days, NoDay
<1>6. InStep(L) = InStep(led)
  BY <1>3 DEF InStep
<1>7. InStep(L) => Used = IF led.on THEN time - led.prev ELSE 0
  BY <1>6 DEF Used
<1>8. CASE ~led.open
  <2>1. Add(led, on) = [led |-> SetReference(OpenDay(led), on), fin |-> NoDay]
    BY <1>8 DEF Add
  <2>2. SetReference(OpenDay(led), on) \in Ledgers
    <3>1. OpenDay(led) \in Ledgers
      BY <1>1, <1>2, <1>5 DEF OpenDay, Ledgers
    <3> QED
      BY <1>1, <3>1, ReferenceEffect
  <2>3. SetReference(OpenDay(led), on).open /\ SetReference(OpenDay(led), on).day = D
    BY <1>1 DEF SetReference, OpenDay, Ledgers
  <2> QED
    BY <1>4, <1>8, <2>1, <2>2, <2>3
<1>9. CASE led.open
  <2>1. led.day \in [date : Nat, off : LocalOffsets, total : Nat]
    BY <1>1, <1>9 DEF DateInv, Ledgers, Days, NoDay
  <2>2. CASE Behind(S)
    <3> DEFINE B == [S EXCEPT !.prev = -1]
    <3>1. Add(led, on) = [led |-> B, fin |-> NoDay]
      BY <1>9, <2>2 DEF Add
    <3>2. B \in Ledgers /\ B.open /\ B.day = led.day
      <4>1. -1 \in -1..LastTime
        BY EnergyLimits
      <4>2. S.open /\ S \in Ledgers /\ S.day = led.day
        BY <1>3, <1>9
      <4> HIDE DEF S
      <4> QED
        BY <4>1, <4>2 DEF Ledgers
    <3>3. 0 \in 0..Used /\ led.day = More(led.day, 0)
      BY <1>4, <2>1 DEF More
    <3> HIDE DEF B
    <3>4. \E e \in 0..Used : B.day = More(led.day, e)
      BY <3>2, <3>3
    <3> QED
      BY <1>4, <1>9, <3>1, <3>2, <3>4
  <2>3. CASE ~Behind(S) /\ ~(time >= L.to)
    <3> DEFINE M == IF InStep(L) THEN Book(L, L.prev, time) ELSE L
               e == IF InStep(L) THEN Used ELSE 0
    <3>1. Add(led, on) = [led |-> SetReference(M, on), fin |-> NoDay]
      BY <1>9, <2>3 DEF Add
    <3>2. M = [L EXCEPT !.day = More(led.day, e)]
      <4>1. CASE InStep(L)
        <5>1. Energy(L, L.prev, time) = Used
          BY <4>1, <1>3, <1>5, <1>7, <1>1 DEF Energy, InStep
        <5> QED
          BY <4>1, <5>1, <1>3, <2>1 DEF Book, Ledgers, More
      <4>2. CASE ~InStep(L)
        BY <4>2, <1>3, <2>1 DEF Ledgers, More
      <4> QED
        BY <4>1, <4>2
    <3>3. e \in 0..Used /\ More(led.day, e) \in Days
      BY <1>4, <2>1 DEF Days, More
    <3> HIDE DEF M, e, L
    <3>4. /\ SetReference(M, on) \in Ledgers /\ SetReference(M, on).open
          /\ SetReference(M, on).day = More(led.day, e)
      <4>1. M \in Ledgers /\ M.open /\ M.day = More(led.day, e)
        BY <1>3, <1>9, <3>2, <3>3 DEF Ledgers
      <4> QED
        BY <1>1, <4>1, ReferenceEffect
    <3> QED
      BY <1>4, <1>9, <3>1, <3>3, <3>4
  <2>4. CASE ~Behind(S) /\ time >= L.to
    <3> DEFINE Closing == IF InStep(L) THEN Book(L, L.prev, L.to) ELSE L
               First == IF InStep(L) THEN Book(OpenDay(L), NewDayFrom(L), time) ELSE OpenDay(L)
               e == IF InStep(L) THEN Energy(L, L.prev, L.to) ELSE 0
               f == IF InStep(L) THEN Energy(OpenDay(L), NewDayFrom(L), time) ELSE 0
    <3>1. Add(led, on) = [led |-> SetReference(First, on), fin |-> Closing.day]
      BY <1>9, <2>4 DEF Add
    <3>2. OpenDay(L) \in Ledgers /\ OpenDay(L).open /\ OpenDay(L).day = D /\ OpenDay(L).on = led.on
      BY <1>2, <1>3, <1>5 DEF OpenDay, Ledgers
    <3>3. Closing.day = More(led.day, e)
      BY <1>3, <2>1 DEF Book, Ledgers, More
    <3>4. e \in 0..Used /\ f = Used - e
      <4>1. CASE InStep(L)
        <5>1. led.prev \in Nat /\ led.prev <= time
          BY <4>1, <1>3, <1>5 DEF InStep
        <5>2. /\ e = IF L.to > led.prev /\ led.on THEN L.to - led.prev ELSE 0
              /\ f = IF time > NewDayFrom(L) /\ led.on THEN time - NewDayFrom(L) ELSE 0
              /\ NewDayFrom(L) = IF led.prev > L.to THEN led.prev ELSE L.to
              /\ Used = IF led.on THEN time - led.prev ELSE 0
          BY <4>1, <1>3, <1>7, <3>2 DEF Energy, NewDayFrom
        <5> QED
          BY <5>1, <5>2, <2>4, <1>1, <1>5
      <4>2. CASE ~InStep(L)
        BY <4>2, <1>6 DEF Used
      <4> QED
        BY <4>1, <4>2
    <3>5. First = [OpenDay(L) EXCEPT !.day = [D EXCEPT !.total = f]]
      BY <1>1, <1>2, <1>4, <3>2, <3>4 DEF Book, Ledgers
    <3>6. [D EXCEPT !.total = f] = [date |-> DateAt(time, zone), off |-> OffsetAt(time, zone), total |-> Used - e]
      BY <3>4
    <3>7. [D EXCEPT !.total = f] \in Days
      BY <1>1, <1>2, <1>4, <3>4 DEF Days
    <3> HIDE DEF Closing, First, e, f, L, D
    <3>8. /\ SetReference(First, on) \in Ledgers /\ SetReference(First, on).open
          /\ SetReference(First, on).day = [D EXCEPT !.total = f]
      <4>1. First \in Ledgers /\ First.open /\ First.day = [D EXCEPT !.total = f]
        BY <3>2, <3>5, <3>7 DEF Ledgers
      <4> QED
        BY <1>1, <4>1, ReferenceEffect
    <3> QED
      BY <1>3, <1>4, <1>9, <2>4, <3>1, <3>3, <3>4, <3>6, <3>8
  <2> QED
    BY <2>2, <2>3, <2>4
<1> QED
  BY <1>8, <1>9

(* The numbers of the state.                                               *)
LEMMA EnergyNumbers ==
    ASSUME LedgerTypeOK
    PROVE  /\ led.day.date \in Nat /\ led.day.total \in Nat
           /\ pending.date \in Nat /\ pending.total \in Nat
           /\ nvsToday.date \in Nat /\ nvsToday.total \in Nat
           /\ taken.day.date \in Nat /\ taken.day.total \in Nat
           /\ nvsLife.through \in Nat /\ nvsLife.total \in Nat
           /\ life.through \in Nat /\ life.total \in Nat
           /\ booked \in Nat /\ wasted \in Nat /\ lastDay \in Nat /\ Counted \in Int
<1>1. \A d \in Days : d.date \in Nat /\ d.total \in Nat
  BY DEF Days, NoDay
<1>2. led.day \in Days /\ pending \in Days /\ nvsToday \in Days /\ taken.day \in Days
  BY DEF LedgerTypeOK, Ledgers
<1> QED
  BY <1>1, <1>2 DEF LedgerTypeOK, Totals, Counted

(* No more is wasted than was used.                                        *)
LEMMA WastedIsUsed ==
    ASSUME LedgerTypeOK
    PROVE  /\ Used \in Nat /\ Wasted \in 0..Used
           /\ Wasted > 0 => /\ led.open /\ led.day.date <= nvsLife.through
                            /\ Wasted <= led.to - led.prev
<1>1. /\ time \in Nat /\ led.prev \in Int /\ led.prev >= -1 /\ led.prev <= LastTime
      /\ led.to \in Int
  BY EnergyLimits DEF LedgerTypeOK, Ledgers
<1>2. Used \in Nat /\ (Used > 0 => led.on /\ InStep(led) /\ Used = time - led.prev)
  BY <1>1 DEF Used, InStep
<1> QED
  BY <1>1, <1>2 DEF Wasted, Energy

(* What updateEnergyLedger does with a reading.                            *)
LEMMA ReadingEffect ==
    ASSUME EnergyInv, NEW on \in BOOLEAN, EnergyReading(on)
    PROVE  /\ Used \in Nat /\ booked' = booked + Used /\ wasted' = wasted + Wasted
           /\ wasted' \in Nat /\ led' \in Ledgers /\ led'.open
           /\ DateAt(time, zone) \in Nat /\ DateAt(time, zone) > 0
           /\ \/ /\ ~led.open /\ pending' = pending /\ lastDay' = lastDay
                 /\ led'.day = [date |-> DateAt(time, zone), off |-> OffsetAt(time, zone), total |-> 0]
              \/ /\ led.open /\ pending' = pending /\ lastDay' = lastDay
                 /\ \E e \in 0..Used : led'.day = More(led.day, e)
              \/ /\ led.open /\ DateAt(time, zone) > led.day.date /\ lastDay' = led.day.date
                 /\ \E e \in 0..Used :
                       /\ pending' = IF pending = NoDay THEN More(led.day, e) ELSE pending
                       /\ led'.day = [date |-> DateAt(time, zone), off |-> OffsetAt(time, zone), total |-> Used - e]
<1> DEFINE r == Add(led, on)
<1>1. LedgerTypeOK /\ DateInv
  BY DEF EnergyInv
<1>2. /\ booked' = booked + Used /\ wasted' = wasted + Wasted /\ wasted' \in Nat /\ led' = r.led
      /\ pending' = IF r.fin # NoDay /\ pending = NoDay THEN r.fin ELSE pending
      /\ lastDay' = IF r.fin # NoDay THEN r.fin.date ELSE lastDay
  BY <1>1, WastedIsUsed, EnergyNumbers DEF EnergyReading
<1>3. DateAt(time, zone) \in Nat /\ DateAt(time, zone) > 0
  <2>1. time \in Nat /\ time >= FirstTime /\ zone \in Zones
    BY <1>1, EnergyLimits DEF LedgerTypeOK, DateInv
  <2> QED
    BY <2>1, LocalDay
<1>4. led.open => led.day \in [date : Nat, off : LocalOffsets, total : Nat] /\ led.day.date > 0
  BY <1>1 DEF LedgerTypeOK, DateInv, Ledgers, Days, NoDay
<1>5. ASSUME led.open, NEW e \in Nat
      PROVE  More(led.day, e).date = led.day.date /\ More(led.day, e) # NoDay
  BY <1>4, <1>5 DEF More, NoDay
<1>6. /\ Used \in Nat /\ r.led \in Ledgers /\ r.led.open
      /\ \/ /\ ~led.open /\ r.fin = NoDay
            /\ r.led.day = [date |-> DateAt(time, zone), off |-> OffsetAt(time, zone), total |-> 0]
         \/ /\ led.open /\ r.fin = NoDay
            /\ \E e \in 0..Used : r.led.day = More(led.day, e)
         \/ /\ led.open /\ DateAt(time, zone) > led.day.date
            /\ \E e \in 0..Used :
                  /\ r.fin = More(led.day, e)
                  /\ r.led.day = [date |-> DateAt(time, zone), off |-> OffsetAt(time, zone), total |-> Used - e]
  BY <1>1, AddEffect
<1> HIDE DEF r
<1>7. CASE ~led.open
  BY <1>2, <1>3, <1>6, <1>7
<1>8. CASE led.open /\ r.fin = NoDay
  <2>1. \A e \in 0..Used : More(led.day, e) # NoDay
    BY <1>5, <1>6, <1>8
  <2>2. \E e \in 0..Used : r.led.day = More(led.day, e)
    BY <1>6, <1>8, <2>1
  <2> QED
    BY <1>2, <1>3, <1>6, <1>8, <2>2
<1>9. CASE led.open /\ r.fin # NoDay
  <2>1. /\ DateAt(time, zone) > led.day.date
        /\ \E e \in 0..Used :
              /\ r.fin = More(led.day, e)
              /\ r.led.day = [date |-> DateAt(time, zone), off |-> OffsetAt(time, zone), total |-> Used - e]
    BY <1>6, <1>9
  <2>2. PICK e \in 0..Used :
              /\ r.fin = More(led.day, e)
              /\ r.led.day = [date |-> DateAt(time, zone), off |-> OffsetAt(time, zone), total |-> Used - e]
    BY <2>1
  <2>3. /\ lastDay' = led.day.date
        /\ pending' = IF pending = NoDay THEN More(led.day, e) ELSE pending
        /\ led'.day = [date |-> DateAt(time, zone), off |-> OffsetAt(time, zone), total |-> Used - e]
    BY <1>2, <1>5, <1>6, <1>9, <2>2
  <2> QED
    BY <1>2, <1>3, <1>6, <1>9, <2>1, <2>3
<1> QED
  BY <1>7, <1>8, <1>9

(* A reading, within a day or over its end, counts no energy twice.        *)
LEMMA EnergyReadingKept ==
    ASSUME EnergyInv, NEW on \in BOOLEAN, EnergyReading(on)
    PROVE  EnergyInv'
<1> DEFINE day == DateAt(time, zone)
           u   == Used
<1>1. LedgerTypeOK /\ DateInv /\ TakenInv /\ LifeInv /\ CountInv
  BY DEF EnergyInv
<1>2. /\ loaded /\ quiet' = 0
      /\ UNCHANGED <<time, zone, changes, saved, loaded, life, store, task, starts>>
      /\ failed' \in BOOLEAN
  BY DEF EnergyReading
<1>3. /\ u \in Nat /\ booked' = booked + u /\ wasted' \in Nat /\ led' \in Ledgers /\ led'.open
      /\ day \in Nat /\ day > 0
      /\ \/ /\ ~led.open /\ pending' = pending /\ lastDay' = lastDay
            /\ led'.day = [date |-> day, off |-> OffsetAt(time, zone), total |-> 0]
         \/ /\ led.open /\ pending' = pending /\ lastDay' = lastDay
            /\ \E e \in 0..u : led'.day = More(led.day, e)
         \/ /\ led.open /\ day > led.day.date /\ lastDay' = led.day.date
            /\ \E e \in 0..u :
                  /\ pending' = IF pending = NoDay THEN More(led.day, e) ELSE pending
                  /\ led'.day = [date |-> day, off |-> OffsetAt(time, zone), total |-> u - e]
  BY ReadingEffect
<1> HIDE DEF day, u
<1>4. PICK e \in 0..u :
         \/ /\ ~led.open /\ pending' = pending /\ lastDay' = lastDay
            /\ led'.day = [date |-> day, off |-> OffsetAt(time, zone), total |-> 0]
         \/ /\ led.open /\ pending' = pending /\ lastDay' = lastDay
            /\ led'.day = More(led.day, e)
         \/ /\ led.open /\ day > led.day.date /\ lastDay' = led.day.date
            /\ pending' = IF pending = NoDay THEN More(led.day, e) ELSE pending
            /\ led'.day = [date |-> day, off |-> OffsetAt(time, zone), total |-> u - e]
  <2>1. 0 \in 0..u
    BY <1>3
  <2> QED
    BY <1>3, <2>1
<1>5. led.open => led.day \in [date : Nat, off : LocalOffsets, total : Nat] /\ led.day.date > 0
  BY <1>1 DEF LedgerTypeOK, DateInv, Ledgers, Days, NoDay
<1>6. /\ e \in Nat /\ e <= u
      /\ led.open => /\ More(led.day, e) \in Days /\ More(led.day, e).date = led.day.date
                     /\ More(led.day, e).total = led.day.total + e
  BY <1>3, <1>5 DEF More, Days
<1>7. /\ led.day.date \in Nat /\ led.day.total \in Nat
      /\ pending.date \in Nat /\ pending.total \in Nat
      /\ nvsToday.date \in Nat /\ nvsToday.total \in Nat
      /\ taken.day.date \in Nat /\ taken.day.total \in Nat
      /\ nvsLife.through \in Nat /\ nvsLife.total \in Nat
      /\ booked \in Nat /\ wasted \in Nat /\ lastDay \in Nat
  BY <1>1, EnergyNumbers
<1>8. LedgerTypeOK'
  <2>1. pending' \in Days /\ lastDay' \in Nat /\ booked' \in Nat /\ wasted' \in Nat
    BY <1>1, <1>3, <1>4, <1>6, <1>7 DEF LedgerTypeOK
  <2>2. quiet' \in 0..MaxGap
    BY <1>2, EnergyLimits
  <2> QED
    BY <1>1, <1>2, <1>3, <2>1, <2>2 DEF LedgerTypeOK
<1>9. DateInv'
  <2>1. /\ time' = time /\ loaded /\ nvsToday' = nvsToday /\ taken' = taken /\ NoDay.date = 0
    BY <1>2 DEF NoDay
  <2>2. CASE ~led.open
    <3>1. pending' = NoDay /\ lastDay' = 0 /\ nvsToday = NoDay /\ taken.day = NoDay /\ led'.day.date = day
      BY <1>1, <1>4, <2>1, <2>2 DEF DateInv
    <3> QED
      BY <1>1, <1>3, <2>1, <3>1 DEF DateInv
  <2>3. CASE led.open /\ pending' = pending /\ lastDay' = lastDay /\ led'.day = More(led.day, e)
    BY <1>1, <1>3, <1>6, <2>1, <2>3 DEF DateInv
  <2>4. CASE /\ led.open /\ day > led.day.date /\ lastDay' = led.day.date
             /\ pending' = IF pending = NoDay THEN More(led.day, e) ELSE pending
             /\ led'.day = [date |-> day, off |-> OffsetAt(time, zone), total |-> u - e]
    <3>1. pending'.date \in Nat /\ pending'.date < day /\ pending'.date > 0
      BY <1>1, <1>5, <1>6, <1>7, <1>3, <2>4 DEF DateInv
    <3>2. led'.day.date = day /\ nvsToday.date <= day /\ taken.day.date <= day
      BY <1>1, <1>3, <1>7, <2>1, <2>4 DEF DateInv
    <3> QED
      BY <1>1, <1>3, <1>7, <2>1, <2>4, <3>1, <3>2 DEF DateInv
  <2> QED
    BY <1>4, <2>2, <2>3, <2>4
<1>10. pending # NoDay => pending' = pending
  BY <1>4
<1>11. TakenInv'
  BY <1>1, <1>2, <1>3, <1>10 DEF TakenInv
<1>12. LifeInv'
  <2>1. NoDay.date = 0 /\ life.through \in Nat
    BY <1>1, EnergyNumbers DEF NoDay
  <2> QED
    BY <1>1, <1>2, <1>10, <2>1 DEF LifeInv
<1>13. CountInv'
  <2>1. /\ nvsLife' = nvsLife /\ nvsToday' = nvsToday /\ taken' = taken /\ loaded' = loaded /\ loaded
    BY <1>2
  <2>2. NoDay.date = 0
    BY DEF NoDay
  <2>3. CASE ~led.open
    <3>1. pending' = pending /\ led'.day.total = 0 /\ led'.day.date = day /\ led.day = NoDay
      BY <1>1, <1>4, <2>3 DEF DateInv, NoLed
    <3> QED
      BY <1>1, <1>3, <1>7, <2>1, <2>2, <3>1 DEF CountInv, Found, Carried, Waits
  <2>4. CASE led.open /\ pending' = pending /\ led'.day = More(led.day, e)
    BY <1>1, <1>3, <1>6, <1>7, <2>1, <2>4 DEF CountInv, Found, Carried, Waits
  <2>5. CASE /\ led.open /\ day > led.day.date /\ pending = NoDay /\ pending' = More(led.day, e)
             /\ led'.day = [date |-> day, off |-> OffsetAt(time, zone), total |-> u - e]
    <3>1. /\ pending'.date = led.day.date /\ pending'.total = led.day.total + e
          /\ led'.day.date = day /\ led'.day.total = u - e /\ pending.date = 0
          /\ nvsToday.date <= led.day.date /\ taken.day.date <= led.day.date
      BY <1>1, <1>6, <2>1, <2>2, <2>5 DEF DateInv
    <3> QED
      BY <1>1, <1>3, <1>6, <1>7, <2>1, <2>5, <3>1 DEF CountInv, Found, Carried, Waits
  <2>6. CASE /\ led.open /\ day > led.day.date /\ pending' = pending
             /\ led'.day = [date |-> day, off |-> OffsetAt(time, zone), total |-> u - e]
    <3>1. led'.day.date = day /\ led'.day.total = u - e
      BY <2>6
    <3> QED
      BY <1>1, <1>3, <1>6, <1>7, <2>1, <2>6, <3>1 DEF CountInv, Found, Carried, Waits
  <2> QED
    BY <1>4, <2>3, <2>4, <2>5, <2>6
<1> QED
  BY <1>8, <1>9, <1>11, <1>12, <1>13 DEF EnergyInv

(* The empty records have their types.                                     *)
LEMMA EmptyTypes ==
    /\ NoDay \in Days /\ NoDay.date = 0 /\ NoDay.total = 0
    /\ NoLed \in Ledgers /\ NoLed.day = NoDay /\ ~NoLed.open
    /\ [through |-> 0, total |-> 0] \in Totals
    /\ NoCopy.at = 0 /\ NoCopy.closed = NoDay /\ ~NoCopy.save /\ NoCopy.day = NoDay
    /\ NoCopy \in [at : 0..LastTime, closed : Days, save : BOOLEAN, day : Days, life : Totals]
    /\ [day |-> NoDay, at |-> 0] \in [day : Days, at : 0..LastTime]
<1>1. 0 \in 0..LastTime /\ -1 \in -1..LastTime
  BY EnergyLimits
<1>2. NoDay \in Days /\ NoDay.date = 0 /\ NoDay.total = 0
  BY DEF NoDay, Days
<1>3. [through |-> 0, total |-> 0] \in Totals
  BY DEF Totals
<1>4. NoLed \in Ledgers /\ NoLed.day = NoDay /\ ~NoLed.open
  BY <1>1, <1>2 DEF NoLed, Ledgers
<1>5. /\ NoCopy.at = 0 /\ NoCopy.closed = NoDay /\ ~NoCopy.save /\ NoCopy.day = NoDay
      /\ NoCopy \in [at : 0..LastTime, closed : Days, save : BOOLEAN, day : Days, life : Totals]
  BY <1>1, <1>2, <1>3 DEF NoCopy
<1> QED
  BY <1>1, <1>2, <1>3, <1>4, <1>5

(* Nothing is booked and nothing is stored at first.                       *)
LEMMA EnergyStart == LedgerInit => EnergyInv
<1> SUFFICES ASSUME LedgerInit PROVE EnergyInv
  OBVIOUS
<1>1. LedgerTypeOK
  <2>1. /\ FirstTime \in 0..LastTime /\ 0 \in 0..Period /\ 0 \in 0..MaxGap /\ 0 \in 0..MaxZones
        /\ 1 \in 1..MaxStarts
    BY EnergyLimits
  <2>2. led \in Ledgers /\ saved \in [day : Days, at : 0..LastTime] /\ life \in Totals
    BY EmptyTypes DEF LedgerInit
  <2>3. taken \in [at : 0..LastTime, closed : Days, save : BOOLEAN, day : Days, life : Totals]
    BY EmptyTypes DEF LedgerInit
  <2> QED
    BY <2>1, <2>2, <2>3, EmptyTypes DEF LedgerInit, LedgerTypeOK
<1>2. DateInv /\ TakenInv /\ LifeInv
  BY EmptyTypes, EnergyLimits DEF LedgerInit, DateInv, TakenInv, LifeInv
<1>3. CountInv
  BY EmptyTypes DEF LedgerInit, CountInv, Found, Carried, Waits
<1> QED
  BY <1>1, <1>2, <1>3 DEF EnergyInv

(* A start counts from what it finds in NVS.                               *)
LEMMA EnergyRestartKept ==
    ASSUME EnergyInv, EnergyRestart
    PROVE  EnergyInv'
<1>0. LedgerTypeOK /\ DateInv /\ TakenInv /\ LifeInv /\ CountInv
  BY DEF EnergyInv
<1>1. /\ led.day.date \in Nat /\ led.day.total \in Nat
      /\ pending.date \in Nat /\ pending.total \in Nat
      /\ nvsToday.date \in Nat /\ nvsToday.total \in Nat
      /\ taken.day.date \in Nat /\ taken.day.total \in Nat
      /\ nvsLife.through \in Nat /\ nvsLife.total \in Nat
      /\ booked \in Nat /\ wasted \in Nat /\ lastDay \in Nat
  BY <1>0, EnergyNumbers

<1>2. /\ led' = NoLed /\ saved' = [day |-> NoDay, at |-> 0] /\ loaded' = FALSE
      /\ pending' = NoDay /\ life' = [through |-> 0, total |-> 0]
      /\ ppc' = "idle" /\ taken' = NoCopy /\ age' = 0 /\ quiet' = 0
      /\ booked' = NvsTotal /\ wasted' = 0 /\ lastDay' = 0 /\ failed' = FALSE
      /\ starts < MaxStarts /\ starts' = starts + 1 /\ UNCHANGED <<time, zone, changes, store>>
  BY DEF EnergyRestart
<1>3. booked' = Found(nvsToday) /\ booked' \in Nat /\ wasted' \in Nat /\ booked' >= nvsLife.total
  BY <1>1, <1>2 DEF NvsTotal, Found
<1>4. LedgerTypeOK'
  <2>1. 0 \in 0..Period /\ 0 \in 0..MaxGap /\ starts' \in 1..MaxStarts
    BY <1>0, <1>2, EnergyLimits DEF LedgerTypeOK
  <2>2. led' \in Ledgers /\ saved' \in [day : Days, at : 0..LastTime] /\ life' \in Totals
    BY <1>2, EmptyTypes
  <2>3. taken' \in [at : 0..LastTime, closed : Days, save : BOOLEAN, day : Days, life : Totals]
    BY <1>2, EmptyTypes
  <2> QED
    BY <1>0, <1>2, <1>3, <2>1, <2>2, <2>3, EmptyTypes DEF LedgerTypeOK
<1>5. DateInv' /\ TakenInv' /\ LifeInv'
  BY <1>0, <1>2, EmptyTypes DEF DateInv, TakenInv, LifeInv
<1>6. CountInv'
  BY <1>1, <1>2, <1>3, EmptyTypes DEF CountInv, Found, Carried, Waits
<1> QED
  BY <1>4, <1>5, <1>6 DEF EnergyInv

(* The first call takes the checkpoint over.                               *)
LEMMA PersistLoadKept ==
    ASSUME EnergyInv, PersistLoad
    PROVE  EnergyInv'
<1>0. LedgerTypeOK /\ DateInv /\ TakenInv /\ LifeInv /\ CountInv
  BY DEF EnergyInv
<1>1. /\ led.day.date \in Nat /\ led.day.total \in Nat
      /\ pending.date \in Nat /\ pending.total \in Nat
      /\ nvsToday.date \in Nat /\ nvsToday.total \in Nat
      /\ taken.day.date \in Nat /\ taken.day.total \in Nat
      /\ nvsLife.through \in Nat /\ nvsLife.total \in Nat
      /\ booked \in Nat /\ wasted \in Nat /\ lastDay \in Nat
  BY <1>0, EnergyNumbers

<1>2. /\ ppc = "idle" /\ ~loaded /\ loaded' = TRUE /\ life' = nvsLife /\ age' = 0
      /\ UNCHANGED <<time, zone, changes, quiet, pending, nvsToday, nvsLife, ppc, taken, starts,
                     booked, wasted, lastDay, failed>>
  BY DEF PersistLoad
<1>3. /\ ~led.open /\ led = NoLed /\ pending = NoDay /\ lastDay = 0 /\ taken = NoCopy
  BY <1>0, <1>2 DEF DateInv, TakenInv
<1>4. CASE nvsToday = NoDay
  <2>1. led' = led /\ saved' = saved
    BY <1>4 DEF PersistLoad
  <2>2. LedgerTypeOK'
    BY <1>0, <1>2, <2>1, EnergyLimits DEF LedgerTypeOK
  <2>3. DateInv' /\ TakenInv' /\ LifeInv'
    BY <1>0, <1>2, <1>3, <1>4, <2>1, EmptyTypes DEF DateInv, TakenInv, LifeInv
  <2>4. CountInv'
    BY <1>0, <1>1, <1>2, <1>3, <2>1, EmptyTypes DEF CountInv, Found, Carried, Waits
  <2> QED
    BY <2>2, <2>3, <2>4 DEF EnergyInv
<1>5. CASE nvsToday # NoDay
  <2>1. /\ led'.open /\ led'.day = nvsToday /\ led' \in Ledgers
        /\ saved' = [day |-> nvsToday, at |-> 0]
    <3> DEFINE a == nvsToday.date * DayTicks - nvsToday.off
    <3>1. led' = [NoLed EXCEPT !.open = TRUE, !.day = nvsToday, !.from = a, !.to = a + DayTicks]
      BY <1>5 DEF PersistLoad
    <3>2. a \in Int /\ nvsToday \in Days
      <4>1. nvsToday \in [date : Nat, off : LocalOffsets, total : Nat]
        BY <1>0, <1>5 DEF LedgerTypeOK, Days
      <4>2. nvsToday.off \in Int
        BY <4>1, LocalOffset
      <4> QED
        BY <4>1, <4>2, EnergyLimits DEF Days
    <3>3. saved' = [day |-> nvsToday, at |-> 0]
      BY <1>5 DEF PersistLoad
    <3> HIDE DEF a
    <3> QED
      <4>1. a + DayTicks \in Int
        BY <3>2, EnergyLimits
      <4> QED
        BY <3>1, <3>2, <3>3, <4>1, EmptyTypes DEF Ledgers
  <2>2. LedgerTypeOK'
    <3>1. saved' \in [day : Days, at : 0..LastTime]
      BY <1>0, <2>1, EnergyLimits DEF LedgerTypeOK
    <3> QED
      BY <1>0, <1>2, <2>1, <3>1, EnergyLimits DEF LedgerTypeOK
  <2>3. DateInv' /\ TakenInv' /\ LifeInv'
    BY <1>0, <1>1, <1>2, <1>3, <1>5, <2>1, EmptyTypes DEF DateInv, TakenInv, LifeInv
  <2>4. CountInv'
    BY <1>0, <1>1, <1>2, <1>3, <2>1, EmptyTypes DEF CountInv, Found, Carried, Waits
  <2> QED
    BY <2>2, <2>3, <2>4 DEF EnergyInv
<1> QED
  BY <1>4, <1>5

(* What persistEnergyLedger takes is what waits and the open day.          *)
LEMMA PersistEnergyKept ==
    ASSUME EnergyInv, NEW restart \in BOOLEAN, PersistEnergy(restart)
    PROVE  EnergyInv'
<1>0. LedgerTypeOK /\ DateInv /\ TakenInv /\ LifeInv /\ CountInv
  BY DEF EnergyInv
<1>1. /\ led.day.date \in Nat /\ led.day.total \in Nat
      /\ pending.date \in Nat /\ pending.total \in Nat
      /\ nvsToday.date \in Nat /\ nvsToday.total \in Nat
      /\ taken.day.date \in Nat /\ taken.day.total \in Nat
      /\ nvsLife.through \in Nat /\ nvsLife.total \in Nat
      /\ booked \in Nat /\ wasted \in Nat /\ lastDay \in Nat
  BY <1>0, EnergyNumbers

<1>2. /\ loaded /\ ppc' = "commit" /\ age' = 0
      /\ taken' = [at |-> time, closed |-> pending, save |-> SaveDue(restart), day |-> led.day,
                   life |-> life]
      /\ UNCHANGED <<time, zone, changes, quiet, led, saved, loaded, pending, life, nvsToday, nvsLife,
                     starts, booked, wasted, lastDay, failed>>
  BY DEF PersistEnergy
<1>3. /\ taken'.closed = pending /\ taken'.day = led.day /\ (taken'.save => led.open)
      /\ taken'.save \in BOOLEAN
  BY <1>2 DEF SaveDue
<1>4. LedgerTypeOK'
  <2>1. led.day \in Days
    BY <1>0 DEF LedgerTypeOK, Ledgers
  <2>2. taken' \in [at : 0..LastTime, closed : Days, save : BOOLEAN, day : Days, life : Totals]
    BY <1>0, <1>2, <1>3, <2>1 DEF LedgerTypeOK
  <2> QED
    BY <1>0, <1>2, <2>2, EnergyLimits DEF LedgerTypeOK
<1>5. DateInv' /\ TakenInv' /\ LifeInv'
  BY <1>0, <1>1, <1>2, <1>3, EmptyTypes DEF DateInv, TakenInv, LifeInv
<1>6. CountInv'
  <2>1. pending.date < led.day.date \/ pending.date = 0
    BY <1>0, EmptyTypes DEF DateInv
  <2> QED
    BY <1>0, <1>1, <1>2, <1>3, <2>1 DEF CountInv, Found, Carried, Waits
<1> QED
  BY <1>4, <1>5, <1>6 DEF EnergyInv

(* A day is added to the totals once.                                      *)
LEMMA PersistCommitKept ==
    ASSUME EnergyInv, PersistCommit
    PROVE  EnergyInv'
<1>0. LedgerTypeOK /\ DateInv /\ TakenInv /\ LifeInv /\ CountInv
  BY DEF EnergyInv
<1>1. /\ led.day.date \in Nat /\ led.day.total \in Nat
      /\ pending.date \in Nat /\ pending.total \in Nat
      /\ nvsToday.date \in Nat /\ nvsToday.total \in Nat
      /\ taken.day.date \in Nat /\ taken.day.total \in Nat
      /\ nvsLife.through \in Nat /\ nvsLife.total \in Nat
      /\ booked \in Nat /\ wasted \in Nat /\ lastDay \in Nat
  BY <1>0, EnergyNumbers

<1>2. /\ ppc = "commit" /\ ppc' = "save" /\ loaded
      /\ UNCHANGED <<time, zone, changes, quiet, led, saved, loaded, pending, life, nvsToday, age,
                     starts, booked, wasted, lastDay, failed>>
  BY <1>0 DEF PersistCommit, TakenInv
<1>3. /\ nvsLife' \in Totals /\ taken' = [taken EXCEPT !.life = nvsLife']
      /\ \/ /\ taken.closed = NoDay \/ pending.date <= nvsLife.through
            /\ nvsLife' = nvsLife
         \/ /\ pending.date > nvsLife.through /\ pending # NoDay
            /\ nvsLife' = [through |-> pending.date, total |-> nvsLife.total + pending.total]
  BY <1>0, <1>1 DEF PersistCommit, AlreadyCounted, TakenInv, LedgerTypeOK, Totals
<1>4. /\ taken'.at = taken.at /\ taken'.closed = taken.closed /\ taken'.save = taken.save
      /\ taken'.day = taken.day /\ taken'.life = nvsLife'
      /\ taken' \in [at : 0..LastTime, closed : Days, save : BOOLEAN, day : Days, life : Totals]
  BY <1>0, <1>3 DEF LedgerTypeOK
<1>5. LedgerTypeOK'
  BY <1>0, <1>2, <1>3, <1>4 DEF LedgerTypeOK
<1>6. DateInv'
  BY <1>0, <1>2, <1>4 DEF DateInv
<1>7. TakenInv'
  BY <1>0, <1>1, <1>2, <1>3, <1>4 DEF TakenInv
<1>8. LifeInv'
  <2>1. CASE nvsLife' = nvsLife
    BY <1>0, <1>2, <2>1 DEF LifeInv
  <2>2. CASE /\ pending.date > nvsLife.through
             /\ nvsLife' = [through |-> pending.date, total |-> nvsLife.total + pending.total]
    <3>1. life = nvsLife
      BY <1>0, <1>1, <1>2, <2>2 DEF LifeInv
    <3> QED
      BY <1>2, <2>2, <3>1 DEF LifeInv
  <2> QED
    BY <1>3, <2>1, <2>2
<1>9. CountInv'
  <2>1. CASE nvsLife' = nvsLife
    BY <1>0, <1>2, <1>4, <2>1 DEF CountInv, Found, Carried, Waits
  <2>2. CASE /\ pending.date > nvsLife.through
             /\ nvsLife' = [through |-> pending.date, total |-> nvsLife.total + pending.total]
    <3>1. nvsLife'.through = pending.date /\ nvsLife'.total = nvsLife.total + pending.total
      BY <2>2
    <3> QED
      BY <1>0, <1>1, <1>2, <1>4, <2>2, <3>1 DEF CountInv, Found, Carried, Waits
  <2> QED
    BY <1>3, <2>1, <2>2
<1> QED
  BY <1>5, <1>6, <1>7, <1>8, <1>9 DEF EnergyInv

(* A checkpoint replaces one of an earlier date or of the same day.        *)
LEMMA PersistSaveKept ==
    ASSUME EnergyInv, PersistSave
    PROVE  EnergyInv'
<1>0. LedgerTypeOK /\ DateInv /\ TakenInv /\ LifeInv /\ CountInv
  BY DEF EnergyInv
<1>1. /\ led.day.date \in Nat /\ led.day.total \in Nat
      /\ pending.date \in Nat /\ pending.total \in Nat
      /\ nvsToday.date \in Nat /\ nvsToday.total \in Nat
      /\ taken.day.date \in Nat /\ taken.day.total \in Nat
      /\ nvsLife.through \in Nat /\ nvsLife.total \in Nat
      /\ booked \in Nat /\ wasted \in Nat /\ lastDay \in Nat
  BY <1>0, EnergyNumbers

<1>2. /\ ppc = "save" /\ ppc' = "apply" /\ loaded
      /\ nvsToday' = IF taken.save THEN taken.day ELSE nvsToday
      /\ UNCHANGED <<time, zone, changes, quiet, led, saved, loaded, pending, life, nvsLife, taken,
                     age, starts, booked, wasted, lastDay, failed>>
  BY <1>0 DEF PersistSave, TakenInv
<1>3. nvsToday' \in Days
  BY <1>0, <1>2 DEF LedgerTypeOK
<1>4. LedgerTypeOK'
  BY <1>0, <1>2, <1>3 DEF LedgerTypeOK
<1>5. DateInv' /\ TakenInv' /\ LifeInv'
  BY <1>0, <1>1, <1>2, EmptyTypes DEF DateInv, TakenInv, LifeInv
<1>6. CountInv'
  BY <1>0, <1>2 DEF CountInv, Found, Carried, Waits
<1> QED
  BY <1>4, <1>5, <1>6 DEF EnergyInv

(* The totals are taken over when the day that waited is in them.          *)
LEMMA PersistApplyKept ==
    ASSUME EnergyInv, PersistApply
    PROVE  EnergyInv'
<1>0. LedgerTypeOK /\ DateInv /\ TakenInv /\ LifeInv /\ CountInv
  BY DEF EnergyInv
<1>1. /\ led.day.date \in Nat /\ led.day.total \in Nat
      /\ pending.date \in Nat /\ pending.total \in Nat
      /\ nvsToday.date \in Nat /\ nvsToday.total \in Nat
      /\ taken.day.date \in Nat /\ taken.day.total \in Nat
      /\ nvsLife.through \in Nat /\ nvsLife.total \in Nat
      /\ booked \in Nat /\ wasted \in Nat /\ lastDay \in Nat
  BY <1>0, EnergyNumbers

<1>2. /\ ppc = "apply" /\ ppc' = "idle" /\ taken' = NoCopy /\ loaded
      /\ UNCHANGED <<time, zone, changes, quiet, led, loaded, nvsToday, nvsLife, age, starts, booked, wasted,
                     lastDay, failed>>
      /\ saved' \in {saved, [day |-> taken.day, at |-> taken.at]}
  BY <1>0 DEF PersistApply, TakenInv
<1>3. \/ taken.closed = NoDay /\ pending' = pending /\ life' = life
      \/ pending' = NoDay /\ life' = nvsLife /\ pending.date <= nvsLife.through
  BY <1>0, <1>2 DEF PersistApply, TakenInv
<1>4. LedgerTypeOK'
  <2>1. pending' \in Days /\ life' \in Totals
    BY <1>0, <1>3, EmptyTypes DEF LedgerTypeOK
  <2>2. saved' \in [day : Days, at : 0..LastTime]
    BY <1>0, <1>2 DEF LedgerTypeOK
  <2> QED
    BY <1>0, <1>2, <2>1, <2>2, EmptyTypes DEF LedgerTypeOK
<1>5. DateInv'
  BY <1>0, <1>1, <1>2, <1>3, EmptyTypes DEF DateInv
<1>6. TakenInv' /\ LifeInv'
  BY <1>0, <1>2, <1>3, EmptyTypes DEF TakenInv, LifeInv
<1>7. CountInv'
  BY <1>0, <1>1, <1>2, <1>3, EmptyTypes DEF CountInv, Found, Carried, Waits
<1> QED
  BY <1>4, <1>5, <1>6, <1>7 DEF EnergyInv

(* A failure leaves the ledger and NVS as they were.                       *)
LEMMA EnergyFaultKept ==
    ASSUME EnergyInv, CommitFails \/ SaveFails \/ PersistUnapplied
    PROVE  EnergyInv'
<1>0. LedgerTypeOK /\ DateInv /\ TakenInv /\ LifeInv /\ CountInv
  BY DEF EnergyInv
<1>1. /\ led.day.date \in Nat /\ led.day.total \in Nat
      /\ pending.date \in Nat /\ pending.total \in Nat
      /\ nvsToday.date \in Nat /\ nvsToday.total \in Nat
      /\ taken.day.date \in Nat /\ taken.day.total \in Nat
      /\ nvsLife.through \in Nat /\ nvsLife.total \in Nat
      /\ booked \in Nat /\ wasted \in Nat /\ lastDay \in Nat
  BY <1>0, EnergyNumbers

<1>2. /\ loaded /\ failed' = TRUE
      /\ UNCHANGED <<time, zone, changes, quiet, led, saved, loaded, pending, life, nvsToday, nvsLife,
                     age, starts, booked, wasted, lastDay>>
      /\ \/ ppc' = "save" /\ taken' = [taken EXCEPT !.closed = NoDay]
         \/ ppc = "save" /\ ppc' = "apply" /\ taken' = [taken EXCEPT !.save = FALSE]
         \/ ppc' = "idle" /\ taken' = NoCopy
  BY <1>0 DEF CommitFails, SaveFails, PersistUnapplied, TakenInv
<1>3. /\ taken' \in [at : 0..LastTime, closed : Days, save : BOOLEAN, day : Days, life : Totals]
      /\ taken'.day \in {taken.day, NoDay} /\ (taken'.save => taken.save /\ taken'.day = taken.day)
      /\ taken'.closed # NoDay =>
            taken'.closed = taken.closed /\ taken'.life = taken.life /\ ppc = "save" /\ ppc' = "apply"
  BY <1>0, <1>2, EmptyTypes DEF LedgerTypeOK
<1>4. LedgerTypeOK'
  BY <1>0, <1>2, <1>3 DEF LedgerTypeOK
<1>5. DateInv' /\ LifeInv'
  BY <1>0, <1>1, <1>2, <1>3, EmptyTypes DEF DateInv, LifeInv
<1>6. TakenInv'
  BY <1>0, <1>2, <1>3 DEF TakenInv
<1>7. CountInv'
  BY <1>0, <1>1, <1>2, <1>3, EmptyTypes DEF CountInv, Found, Carried, Waits
<1> QED
  BY <1>4, <1>5, <1>6, <1>7 DEF EnergyInv

(* The passing of time, changes of the clock and a call that is lost touch *)
(* nothing else.                                                           *)
LEMMA EnergyClockKept ==
    ASSUME EnergyInv, EnergyTick \/ ClockChange \/ PersistMissed \/ UNCHANGED ledgerVars
    PROVE  EnergyInv'
<1>1. LedgerTypeOK /\ DateInv /\ TakenInv /\ LifeInv /\ CountInv
  BY DEF EnergyInv
<1>2. /\ UNCHANGED <<led, saved, loaded, pending, life, nvsToday, nvsLife, ppc, taken, starts, booked, wasted,
                     lastDay>>
      /\ failed' \in BOOLEAN
  BY <1>1 DEF EnergyTick, ClockChange, ChangeZone, SetClockBack, PersistMissed, ledgerVars, LedgerTypeOK
<1>3. /\ time' \in 0..LastTime /\ time' >= FirstTime /\ zone' \in Zones /\ age' \in 0..Period
      /\ quiet' \in 0..MaxGap /\ changes' \in 0..MaxZones
  <2>1. /\ time \in 0..LastTime /\ time >= FirstTime /\ zone \in Zones /\ age \in 0..Period
        /\ quiet \in 0..MaxGap /\ changes \in 0..MaxZones
    BY <1>1 DEF LedgerTypeOK, DateInv
  <2>2. CASE EnergyTick
    BY <2>1, <2>2, EnergyLimits DEF EnergyTick
  <2>3. CASE ChangeZone
    BY <2>1, <2>3, EnergyLimits DEF ChangeZone
  <2>4. CASE SetClockBack
    <3>1. PICK k \in ClockSteps : time - k >= FirstTime /\ time' = time - k
      BY <2>4 DEF SetClockBack
    <3>2. k \in Nat
      BY EnergyLedgerAssumption
    <3> QED
      BY <2>1, <2>4, <3>1, <3>2, EnergyLimits DEF SetClockBack
  <2>5. CASE UNCHANGED ledgerVars
    BY <2>1, <2>5 DEF ledgerVars
  <2>6. CASE PersistMissed
    BY <2>1, <2>6, EnergyLimits DEF PersistMissed
  <2> QED
    BY <2>2, <2>3, <2>4, <2>5, <2>6 DEF ClockChange
<1>4. LedgerTypeOK'
  BY <1>1, <1>2, <1>3 DEF LedgerTypeOK
<1>5. DateInv' /\ TakenInv' /\ LifeInv'
  BY <1>1, <1>2, <1>3 DEF DateInv, TakenInv, LifeInv
<1>6. CountInv'
  BY <1>1, <1>2 DEF CountInv, Found, Carried, Waits
<1> QED
  BY <1>4, <1>5, <1>6 DEF EnergyInv

(* Every step keeps the invariant.                                         *)
LEMMA EnergyStep == EnergyInv /\ [LedgerNext]_ledgerVars => EnergyInv'
BY EnergyReadingKept, EnergyRestartKept, PersistLoadKept, PersistEnergyKept, PersistCommitKept,
   PersistSaveKept, PersistApplyKept, EnergyFaultKept, EnergyClockKept
   DEF LedgerNext, LedgerStep, LedgerFault

(* The inductive invariant of the energy ledger holds in every state.      *)
THEOREM EnergyInvariant == LedgerSpec => []EnergyInv
<1>1. LedgerInit => EnergyInv
  BY EnergyStart
<1>2. EnergyInv /\ [LedgerNext]_ledgerVars => EnergyInv'
  BY EnergyStep
<1> QED
  BY <1>1, <1>2, PTL DEF LedgerSpec

(* What getEnergyTotals adds up is the totals, the day that waits and the  *)
(* open day.                                                               *)
LEMMA ReportedIsCarried == EnergyInv /\ loaded => Reported = Carried(led.day)
<1> SUFFICES ASSUME EnergyInv, loaded PROVE Reported = Carried(led.day)
  OBVIOUS
<1>1. LedgerTypeOK /\ DateInv /\ LifeInv
  BY DEF EnergyInv
<1>2. /\ led.day.date \in Nat /\ led.day.total \in Nat
      /\ pending.date \in Nat /\ pending.total \in Nat
      /\ nvsLife.through \in Nat /\ nvsLife.total \in Nat
      /\ life.through \in Nat /\ life.total \in Nat
  BY <1>1, EnergyNumbers
<1>3. /\ pending = NoDay => pending.date = 0
      /\ ~led.open => led.day.date = 0 /\ pending.date = 0
      /\ led.open => pending.date < led.day.date
  BY <1>1, EmptyTypes DEF DateInv
<1>4. CASE life = nvsLife
  BY <1>2, <1>3, <1>4 DEF Reported, Carried, Waits
<1>5. CASE /\ pending.date > life.through
           /\ nvsLife = [through |-> pending.date, total |-> life.total + pending.total]
  <2>1. nvsLife.through = pending.date /\ nvsLife.total = life.total + pending.total
    BY <1>5
  <2> QED
    BY <1>2, <1>3, <1>5, <2>1 DEF Reported, Carried, Waits
<1> QED
  BY <1>1, <1>4, <1>5 DEF LifeInv

(* No energy is counted twice by persistEnergyLedger and getEnergyTotals,  *)
(* and no date is opened twice by EnergyLedger::add: for days, intervals,  *)
(* zones and clock changes of any size, with writes that fail and resets   *)
(* at any step.                                                            *)
THEOREM EnergyIsCountedOnce == LedgerSpec => []EnergyCountedOnce
<1>1. EnergyInv => EnergyCountedOnce
  <2> SUFFICES ASSUME EnergyInv PROVE EnergyCountedOnce
    OBVIOUS
  <2>1. CountInv /\ DateInv
    BY DEF EnergyInv
  <2>2. loaded => Reported <= booked
    BY <2>1, ReportedIsCarried DEF CountInv
  <2>3. NvsTotal <= booked
    BY <2>1 DEF CountInv, NvsTotal, Found
  <2>4. led.open => led.day.date > lastDay
    <3>1. led.day.date \in Nat /\ lastDay \in Nat
      BY EnergyNumbers DEF EnergyInv
    <3> QED
      BY <2>1, <3>1 DEF DateInv
  <2> QED
    BY <2>2, <2>3, <2>4 DEF EnergyCountedOnce, CountedOnce, DaysInOrder
<1> QED
  BY <1>1, EnergyInvariant, PTL

(* What the totals, the day that waits and the open day add up to never    *)
(* becomes less, unless a day closes while another waits.                  *)
LEMMA CarriedGrows ==
    ASSUME EnergyInv, LedgerNext, loaded, starts' = starts
    PROVE  \/ Carried(led.day)' >= Carried(led.day)
           \/ pending # NoDay /\ lastDay' # lastDay
<1>0. LedgerTypeOK /\ DateInv /\ TakenInv /\ LifeInv
  BY DEF EnergyInv
<1>1. /\ led.day.date \in Nat /\ led.day.total \in Nat
      /\ pending.date \in Nat /\ pending.total \in Nat
      /\ nvsLife.through \in Nat /\ nvsLife.total \in Nat /\ lastDay \in Nat
  BY <1>0, EnergyNumbers
<1>2. UNCHANGED <<led, pending, nvsLife>> => Carried(led.day)' >= Carried(led.day)
  BY <1>1 DEF Carried, Waits
<1>3. ASSUME NEW on \in BOOLEAN, EnergyReading(on)
      PROVE  \/ Carried(led.day)' >= Carried(led.day)
             \/ pending # NoDay /\ lastDay' # lastDay
  <2> DEFINE day == DateAt(time, zone)
             u   == Used
  <2>1. /\ u \in Nat /\ day \in Nat /\ day > 0 /\ nvsLife' = nvsLife
        /\ \/ /\ ~led.open /\ pending' = pending
              /\ led'.day = [date |-> day, off |-> OffsetAt(time, zone), total |-> 0]
           \/ /\ led.open /\ pending' = pending
              /\ \E e \in 0..u : led'.day = More(led.day, e)
           \/ /\ led.open /\ day > led.day.date /\ lastDay' = led.day.date
              /\ \E e \in 0..u :
                    /\ pending' = IF pending = NoDay THEN More(led.day, e) ELSE pending
                    /\ led'.day = [date |-> day, off |-> OffsetAt(time, zone), total |-> u - e]
    BY <1>3, ReadingEffect DEF EnergyReading
  <2> HIDE DEF day, u
  <2>2. led.open => led.day \in [date : Nat, off : LocalOffsets, total : Nat] /\ led.day.date > 0
    BY <1>0 DEF LedgerTypeOK, DateInv, Ledgers, Days, NoDay
  <2>3. \A e \in 0..u : led.open => /\ More(led.day, e).date = led.day.date
                                    /\ More(led.day, e).total = led.day.total + e
    BY <2>2 DEF More
  <2>4. CASE ~led.open
    <3>1. pending' = pending /\ led'.day.total = 0 /\ led.day.total = 0
      BY <1>0, <2>1, <2>4, EmptyTypes DEF DateInv
    <3> QED
      BY <1>1, <2>1, <3>1 DEF Carried, Waits
  <2>5. CASE led.open /\ pending' = pending /\ \E e \in 0..u : led'.day = More(led.day, e)
    <3>1. PICK e \in 0..u : led'.day = More(led.day, e)
      BY <2>5
    <3>2. led'.day.date = led.day.date /\ led'.day.total = led.day.total + e /\ e \in Nat
      BY <2>1, <2>3, <2>5, <3>1
    <3> QED
      BY <1>1, <2>1, <2>5, <3>2 DEF Carried, Waits
  <2>6. CASE /\ led.open /\ day > led.day.date /\ lastDay' = led.day.date
             /\ \E e \in 0..u :
                    /\ pending' = IF pending = NoDay THEN More(led.day, e) ELSE pending
                    /\ led'.day = [date |-> day, off |-> OffsetAt(time, zone), total |-> u - e]
    <3>1. CASE pending # NoDay
      BY <1>0, <1>1, <2>6, <3>1 DEF DateInv
    <3>2. CASE pending = NoDay
      <4>1. PICK e \in 0..u :
                    /\ pending' = More(led.day, e)
                    /\ led'.day = [date |-> day, off |-> OffsetAt(time, zone), total |-> u - e]
        BY <2>6, <3>2
      <4>2. /\ pending'.date = led.day.date /\ pending'.total = led.day.total + e /\ e \in Nat
            /\ u - e \in Nat /\ led'.day.date = day /\ led'.day.total = u - e /\ pending.date = 0
        BY <2>1, <2>3, <2>6, <3>2, <4>1, EmptyTypes
      <4> QED
        BY <1>1, <2>1, <2>6, <4>2 DEF Carried, Waits
    <3> QED
      BY <3>1, <3>2
  <2> QED
    BY <2>1, <2>4, <2>5, <2>6
<1>4. CASE PersistCommit
  <2>1. /\ led' = led /\ pending' = pending
        /\ \/ nvsLife' = nvsLife
           \/ /\ pending.date > nvsLife.through
              /\ nvsLife' = [through |-> pending.date, total |-> nvsLife.total + pending.total]
    BY <1>0, <1>1, <1>4 DEF PersistCommit, AlreadyCounted, TakenInv
  <2>2. CASE nvsLife' = nvsLife
    BY <1>2, <2>1, <2>2
  <2>3. CASE /\ pending.date > nvsLife.through
             /\ nvsLife' = [through |-> pending.date, total |-> nvsLife.total + pending.total]
    <3>1. nvsLife'.through = pending.date /\ nvsLife'.total = nvsLife.total + pending.total
      BY <2>3
    <3> QED
      BY <1>1, <2>1, <2>3, <3>1 DEF Carried, Waits
  <2> QED
    BY <2>1, <2>2, <2>3
<1>5. CASE PersistApply
  <2>1. /\ led' = led /\ nvsLife' = nvsLife
        /\ pending' = pending \/ (pending' = NoDay /\ pending.date <= nvsLife.through)
    BY <1>0, <1>5 DEF PersistApply, TakenInv
  <2> QED
    BY <1>1, <2>1, EmptyTypes DEF Carried, Waits
<1>6. CASE PersistLoad
  BY <1>6 DEF PersistLoad
<1>7. CASE EnergyRestart
  BY <1>0, <1>7, EnergyLimits DEF EnergyRestart, LedgerTypeOK
<1>8. CASE \/ \E restart \in BOOLEAN : PersistEnergy(restart)
           \/ PersistSave \/ EnergyTick \/ LedgerFault \/ ClockChange
  <2>1. UNCHANGED <<led, pending, nvsLife>>
    BY <1>8 DEF PersistEnergy, PersistSave, EnergyTick, LedgerFault, CommitFails, SaveFails,
                PersistUnapplied, PersistMissed, ClockChange, ChangeZone, SetClockBack
  <2> QED
    BY <1>2, <2>1
<1> QED
  BY <1>3, <1>4, <1>5, <1>6, <1>7, <1>8 DEF LedgerNext, LedgerStep

(* What getEnergyTotals reports never falls while the device runs: not at  *)
(* midnight, not when a day is committed, not with a change of zone or     *)
(* clock; except that a day that closes while the one before it still      *)
(* waits is dropped.                                                       *)
THEOREM ReportedNeverFalls == LedgerSpec => TotalNeverFalls
<1> DEFINE Grows == loaded /\ starts' = starts =>
                       Reported' >= Reported \/ (pending # NoDay /\ lastDay' # lastDay)
<1>1. EnergyInv /\ EnergyInv' /\ [LedgerNext]_ledgerVars => [Grows]_ledgerVars
  <2> SUFFICES ASSUME EnergyInv, EnergyInv', LedgerNext, loaded, starts' = starts
               PROVE  Reported' >= Reported \/ (pending # NoDay /\ lastDay' # lastDay)
    OBVIOUS
  <2>1. loaded'
    <3>1. CASE EnergyRestart
      BY <3>1, EnergyLimits DEF EnergyRestart, EnergyInv, LedgerTypeOK
    <3>2. CASE ~EnergyRestart
      BY <3>2 DEF LedgerNext, LedgerStep, LedgerFault, ClockChange, EnergyReading, PersistEnergy,
                  PersistLoad, PersistCommit, PersistSave, PersistApply, EnergyTick, CommitFails,
                  SaveFails, PersistUnapplied, PersistMissed, ChangeZone, SetClockBack
    <3> QED
      BY <3>1, <3>2
  <2>2. (EnergyInv /\ loaded => Reported = Carried(led.day))'
    BY ReportedIsCarried, PTL
  <2>3. Reported' = Carried(led.day)' /\ Reported = Carried(led.day)
    BY <2>1, <2>2, ReportedIsCarried
  <2> QED
    BY <2>3, CarriedGrows
<1> QED
  BY <1>1, EnergyInvariant, PTL DEF LedgerSpec, TotalNeverFalls

-----------------------------------------------------------------------------
(* What a reset loses                                                      *)

(* The date of a time is d or later from the local midnight of d on.       *)
LEMMA DateOrder ==
    ASSUME NEW t \in Nat, t >= FirstTime, NEW z \in Zones, NEW d \in Int
    PROVE  /\ Midnight(d, z) \in Int
           /\ d <= DateAt(t, z) => Midnight(d, z) <= t
           /\ d = DateAt(t, z) => t < Midnight(d + 1, z)
           /\ d < DateAt(t, z) => Midnight(d + 1, z) <= t
<1> DEFINE q == DateAt(t, z)
<1>1. z \in Int /\ q \in Int /\ d + 1 \in Int
  BY LocalDay, EnergyLedgerAssumption
<1>2. Midnight(q, z) <= t /\ t < Midnight(q + 1, z)
  BY LocalDay DEF StartOf, EndOf
<1> HIDE DEF q
<1>3. /\ Midnight(d, z) \in Int /\ Midnight(q, z) \in Int /\ Midnight(d + 1, z) \in Int
      /\ d < q => Midnight(d, z) < Midnight(q, z)
      /\ d + 1 < q => Midnight(d + 1, z) < Midnight(q, z)
  BY <1>1, MidnightGrows
<1> QED
  BY <1>1, <1>2, <1>3 DEF q

(* A later time is not of an earlier date.                                 *)
LEMMA DateGrows ==
    ASSUME NEW t \in Nat, t >= FirstTime, NEW z \in Zones
    PROVE  DateAt(t + 1, z) >= DateAt(t, z)
<1> DEFINE p == DateAt(t, z)
           q == DateAt(t + 1, z)
<1>1. z \in Int /\ p \in Int /\ q \in Int /\ q + 1 \in Int
  BY LocalDay, EnergyLimits, EnergyLedgerAssumption
<1>2. Midnight(p, z) <= t /\ t + 1 < Midnight(q + 1, z)
  BY LocalDay, EnergyLimits DEF StartOf, EndOf
<1> HIDE DEF p, q
<1>3. /\ Midnight(p, z) \in Int /\ Midnight(q + 1, z) \in Int
      /\ q + 1 < p => Midnight(q + 1, z) < Midnight(p, z)
  BY <1>1, MidnightGrows
<1> QED
  BY <1>1, <1>2, <1>3 DEF p, q

(* The span of the open day reaches to the time of the clock or ends with  *)
(* it: no reading is behind it, and none lets it run on.                   *)
LEMMA SteadySpan ==
    ASSUME EnergyInv, SpanInv, led.open
    PROVE  /\ ~Behind(Spanned(led)) /\ RunOn(Spanned(led)) = Spanned(led)
           /\ DateAt(time, zone) # led.day.date => Spanned(led) = led
           /\ IF Spanned(led).exact
              THEN /\ Spanned(led).from = Midnight(led.day.date, zone)
                   /\ Spanned(led).to = Midnight(led.day.date + 1, zone)
              ELSE /\ Spanned(led).from <= Midnight(led.day.date + 1, zone)
                   /\ Spanned(led).to <= Midnight(led.day.date + 1, zone) + Gain
<1> DEFINE day == DateAt(time, zone)
           S == Spanned(led)
           end == Midnight(led.day.date + 1, zone)
<1>1. /\ time \in Nat /\ time >= FirstTime /\ zone \in Zones /\ zone \in Int /\ led \in Ledgers
      /\ led.day.date \in Int /\ led.day.date + 1 \in Int /\ LedgerTypeOK /\ DateInv
      /\ led.from \in Int /\ led.to \in Int /\ day \in Int
  <2>1. LedgerTypeOK /\ DateInv /\ zone \in Int /\ led \in Ledgers /\ led.day.date \in Nat
    BY EnergyNumbers, EnergyLedgerAssumption DEF EnergyInv, LedgerTypeOK
  <2> QED
    BY <2>1, EnergyLimits, LocalDay DEF LedgerTypeOK, DateInv, Ledgers
<1>2. S.day = led.day /\ S \in Ledgers
  BY <1>1, SpanEffect
<1>3. /\ IF led.exact THEN led.from = Midnight(led.day.date, zone) /\ led.to = end
                      ELSE led.from <= end /\ led.to <= end + Gain
      /\ led.day.date <= day
  BY DEF SpanInv, OpenSpan
<1>4. /\ Midnight(led.day.date, zone) \in Int /\ end \in Int
      /\ Midnight(led.day.date, zone) < end
  <2> DEFINE d == led.day.date
             e == d + 1
  <2>1. d \in Int /\ e \in Int /\ d < e
    BY <1>1
  <2> HIDE DEF d, e
  <2>2. /\ Midnight(d, zone) \in Int /\ Midnight(e, zone) \in Int
        /\ Midnight(d, zone) < Midnight(e, zone)
    BY <1>1, <2>1, MidnightGrows
  <2> QED
    BY <2>2 DEF d, e
<1>5. CASE led.day.date = day
  <2>1. Midnight(led.day.date, zone) <= time /\ time < end
    BY <1>1, <1>5, DateOrder
  <2>2. S.exact /\ S.from = Midnight(led.day.date, zone) /\ S.to = end
    <3>1. CASE led.exact
      BY <1>3, <3>1 DEF Spanned
    <3>2. CASE ~led.exact
      <4>1. S = [led EXCEPT !.from = Midnight(day, zone), !.to = Midnight(day + 1, zone),
                            !.exact = TRUE]
        BY <1>5, <3>2 DEF Spanned, StartOf, EndOf
      <4> HIDE DEF day, S
      <4> QED
        BY <4>1, <1>1, <1>5 DEF Ledgers
    <3> QED
      BY <3>1, <3>2
  <2>3. ~(time < S.from) /\ ~(time >= S.to)
    BY <1>1, <1>4, <2>1, <2>2
  <2> HIDE DEF S
  <2> QED
    BY <1>5, <2>2, <2>3 DEF Behind, RunOn, S
<1>6. CASE led.day.date # day
  <2>1. S = led
    BY <1>6 DEF Spanned
  <2>2. end <= time
    BY <1>1, <1>3, <1>6, DateOrder
  <2>3. ~(time < led.from) /\ ~(day <= led.day.date)
    BY <1>1, <1>3, <1>4, <1>6, <2>2
  <2> QED
    BY <1>3, <2>1, <2>3 DEF Behind, RunOn
<1> QED
  BY <1>5, <1>6

(* A day opened by a reading begins and ends at local midnight.            *)
Begun(L) ==
    /\ L.day.date = DateAt(time, zone) /\ L.day.off = OffsetAt(time, zone)
    /\ L.from = StartOf(time, zone) /\ L.to = EndOf(time, zone) /\ L.exact

Same(L, M) == L.from = M.from /\ L.to = M.to /\ L.exact = M.exact

(* A reading books all that was used: to the open day, or to it and to the *)
(* day that opens.                                                         *)
LEMMA ExactReading ==
    ASSUME EnergyInv, SpanInv, NEW on \in BOOLEAN, EnergyReading(on)
    PROVE  /\ Used \in Nat /\ Used <= MaxInterval
           /\ Used > 0 => led.prev >= 0 /\ Used = time - led.prev
           /\ booked' = booked + Used /\ wasted' = wasted + Wasted /\ led'.open /\ led'.prev = time
           /\ \/ /\ ~led.open /\ pending' = pending /\ failed' = failed
                 /\ Used = 0 /\ Wasted = 0 /\ led'.day.total = 0 /\ Begun(led')
              \/ /\ led.open /\ pending' = pending /\ failed' = failed
                 /\ led'.day = More(led.day, Used) /\ Same(led', Spanned(led)) /\ time < led'.to
                 /\ Wasted = IF led.day.date <= nvsLife.through THEN Used ELSE 0
              \/ /\ led.open /\ DateAt(time, zone) > led.day.date /\ Begun(led')
                 /\ \/ pending # NoDay /\ failed'
                    \/ /\ pending = NoDay /\ failed' = failed /\ pending'.date = led.day.date
                       /\ pending'.total + led'.day.total = led.day.total + Used
                       /\ pending'.total >= led.day.total /\ pending'.total \in Nat
                       /\ Wasted = IF led.day.date <= nvsLife.through
                                   THEN pending'.total - led.day.total ELSE 0
<1> DEFINE day == DateAt(time, zone)
           S == Spanned(led)
           L == RunOn(S)
           r == Add(led, on)
<1>1. /\ LedgerTypeOK /\ DateInv /\ time \in 0..LastTime /\ time \in Nat /\ time >= FirstTime
      /\ zone \in Zones /\ zone \in Int /\ led \in Ledgers /\ nvsLife.through \in Nat
  BY EnergyNumbers, EnergyLimits, EnergyLedgerAssumption DEF EnergyInv, LedgerTypeOK, DateInv
<1>2. /\ day \in Nat /\ day > 0 /\ nvsLife.through < day
      /\ StartOf(time, zone) \in Int /\ EndOf(time, zone) \in Int
      /\ OffsetAt(time, zone) \in LocalOffsets
  BY <1>1, LocalDay DEF SpanInv
<1>3. /\ S \in Ledgers /\ L \in Ledgers
      /\ S.open = led.open /\ S.day = led.day /\ S.prev = led.prev /\ S.on = led.on
      /\ L.open = led.open /\ L.day = led.day /\ L.prev = led.prev /\ L.on = led.on
      /\ time >= L.to => day > led.day.date
  BY <1>1, SpanEffect
<1>4. /\ Used \in Nat /\ Used <= MaxInterval
      /\ Used > 0 => led.prev >= 0 /\ Used = time - led.prev
  BY <1>1, EnergyLimits DEF Used, InStep, Ledgers
<1>5. /\ booked' = booked + Used /\ wasted' = wasted + Wasted /\ led' = r.led
      /\ pending' = IF r.fin # NoDay /\ pending = NoDay THEN r.fin ELSE pending
      /\ failed' = (failed \/ (r.fin # NoDay /\ pending # NoDay))
  BY DEF EnergyReading
<1>6. ASSUME NEW M \in Ledgers
      PROVE  /\ SetReference(M, on).prev = time /\ SetReference(M, on).open = M.open
             /\ SetReference(M, on).day = M.day /\ Same(SetReference(M, on), M)
  BY DEF SetReference, Ledgers, Same
<1>7. ASSUME NEW M \in Ledgers
      PROVE  /\ OpenDay(M) \in Ledgers /\ OpenDay(M).open /\ Begun(OpenDay(M))
             /\ OpenDay(M).day = [date |-> day, off |-> OffsetAt(time, zone), total |-> 0]
  <2>1. [date |-> day, off |-> OffsetAt(time, zone), total |-> 0] \in Days
    BY <1>1, <1>2 DEF Days
  <2> QED
    BY <1>2, <2>1 DEF OpenDay, Ledgers, Begun
<1>8. InStep(led) <=> InStep(S)
  BY <1>3 DEF InStep
<1>9. /\ Used > 0 => led.on /\ InStep(led)
      /\ InStep(led) => Used = IF led.on THEN time - led.prev ELSE 0
  BY DEF Used
<1> HIDE DEF S, L, r
<1>10. CASE ~led.open
  <2>1. r = [led |-> SetReference(OpenDay(led), on), fin |-> NoDay]
    BY <1>10 DEF Add, r
  <2>2. led.prev = -1
    BY <1>1, <1>10 DEF DateInv, NoLed
  <2>3. Used = 0 /\ Wasted = 0
    BY <1>4, <1>10, <2>2 DEF Wasted
  <2>4. OpenDay(led) \in Ledgers
    BY <1>1, <1>7
  <2>5. /\ led'.prev = time /\ led'.open /\ Same(led', OpenDay(led))
        /\ led'.day = [date |-> day, off |-> OffsetAt(time, zone), total |-> 0]
    BY <1>1, <1>5, <1>6, <1>7, <2>1, <2>4
  <2>6. Begun(led')
    BY <1>1, <1>7, <2>5 DEF Begun, Same
  <2>7. pending' = pending /\ failed' = failed
    BY <1>1, <1>5, <2>1 DEF LedgerTypeOK
  <2> HIDE DEF day
  <2> QED
    BY <1>2, <1>4, <1>5, <1>10, <2>3, <2>5, <2>6, <2>7
<1>11. CASE led.open
  <2>1. /\ led.day \in [date : Nat, off : LocalOffsets, total : Nat] /\ led.day.date > 0
        /\ led.prev \in Int /\ led.prev >= -1 /\ led.to \in Int
    BY <1>1, <1>11, EnergyLimits DEF DateInv, Ledgers, Days, NoDay
  <2>2. ~Behind(S) /\ L = S /\ (day # led.day.date => S = led)
    BY <1>11, SteadySpan DEF S, L
  <2>3. led.day.date <= nvsLife.through => S = led
    BY <1>1, <1>2, <2>1, <2>2
  <2>4. S.to \in Int
    BY <1>3 DEF Ledgers
  <2>5. CASE ~(time >= S.to)
    <3> DEFINE M == IF InStep(S) THEN Book(S, S.prev, time) ELSE S
    <3>1. r = [led |-> SetReference(M, on), fin |-> NoDay]
      BY <1>11, <2>2, <2>5 DEF Add, r, S, L
    <3>2. M \in Ledgers /\ M.open /\ Same(M, S) /\ M.day = More(led.day, Used)
      <4>1. CASE InStep(S)
        <5>1. Energy(S, S.prev, time) = Used
          BY <4>1, <1>1, <1>3, <1>8, <1>9, <2>1 DEF Energy, InStep
        <5>2. More(led.day, Used) \in Days
          BY <1>4, <2>1 DEF More, Days
        <5>3. M = [S EXCEPT !.day = More(led.day, Used)]
          BY <4>1, <5>1, <1>3 DEF Book, More, Ledgers
        <5> QED
          BY <5>2, <5>3, <1>3, <1>11 DEF Ledgers, Same
      <4>2. CASE ~InStep(S)
        <5>1. Used = 0
          BY <4>2, <1>4, <1>8, <1>9
        <5>2. More(led.day, 0) = led.day
          BY <2>1 DEF More
        <5> QED
          BY <4>2, <5>1, <5>2, <1>3, <1>11 DEF Same
      <4> QED
        BY <4>1, <4>2
    <3> HIDE DEF M
    <3>3. /\ led'.prev = time /\ led'.open /\ Same(led', S) /\ led'.day = More(led.day, Used)
      BY <1>5, <1>6, <3>1, <3>2 DEF Same
    <3>4. pending' = pending /\ failed' = failed
      BY <1>1, <1>5, <3>1 DEF LedgerTypeOK
    <3>5. Wasted = IF led.day.date <= nvsLife.through THEN Used ELSE 0
      <4>1. CASE led.day.date <= nvsLife.through /\ Used > 0
        <5>1. Wasted = Energy(led, led.prev, time)
          BY <1>1, <1>11, <2>1, <2>3, <2>5, <4>1 DEF Wasted
        <5> QED
          BY <1>1, <1>4, <1>9, <2>1, <4>1, <5>1 DEF Energy
      <4>2. CASE ~(led.day.date <= nvsLife.through /\ Used > 0)
        <5>1. Wasted = 0
          BY <4>2 DEF Wasted
        <5> QED
          BY <1>4, <4>2, <5>1
      <4> QED
        BY <4>1, <4>2
    <3>6. time < led'.to
      BY <1>1, <2>4, <2>5, <3>3 DEF Same
    <3> HIDE DEF day
    <3> QED
      BY <1>4, <1>5, <1>11, <3>3, <3>4, <3>5, <3>6 DEF S
  <2>6. CASE time >= S.to
    <3> DEFINE Closing == IF InStep(L) THEN Book(L, L.prev, L.to) ELSE L
               First == IF InStep(L) THEN Book(OpenDay(L), NewDayFrom(L), time) ELSE OpenDay(L)
               e == IF InStep(led) THEN Energy(led, led.prev, led.to) ELSE 0
    <3>1. day > led.day.date /\ S = led
      BY <1>2, <1>3, <2>1, <2>2, <2>6
    <3>2. r = [led |-> SetReference(First, on), fin |-> Closing.day]
      BY <1>11, <2>2, <2>6 DEF Add, r, S, L
    <3>3. /\ r.led \in Ledgers
          /\ \E x \in 0..Used : \/ r.fin = NoDay
                                \/ /\ r.fin = More(led.day, x)
                                   /\ r.led.day = [date |-> day, off |-> OffsetAt(time, zone),
                                                   total |-> Used - x]
      BY <1>1, <1>11, AddEffect DEF r
    <3>4. \A x : More(led.day, x).date = led.day.date /\ More(led.day, x).total = led.day.total + x
      BY <2>1 DEF More
    <3>5. r.fin = More(led.day, e)
      <4>1. Closing.day = IF InStep(led) THEN Book(led, led.prev, led.to).day ELSE led.day
        BY <2>2, <3>1
      <4>2. Book(led, led.prev, led.to).day = More(led.day, Energy(led, led.prev, led.to))
        BY <1>1 DEF Book, More, Ledgers
      <4>3. led.day = More(led.day, 0)
        BY <2>1 DEF More
      <4> QED
        BY <3>2, <4>1, <4>2, <4>3
    <3>6. r.fin # NoDay /\ e \in Int
      <4>1. led.day.date # 0 /\ NoDay.date = 0
        BY <2>1 DEF NoDay
      <4>2. e \in Int
        BY <2>1 DEF Energy
      <4> QED
        BY <3>4, <3>5, <4>1, <4>2
    <3> HIDE DEF e
    <3>7. /\ e \in 0..Used
          /\ r.led.day = [date |-> day, off |-> OffsetAt(time, zone), total |-> Used - e]
      <4>1. PICK x \in 0..Used :
               /\ r.fin = More(led.day, x)
               /\ r.led.day = [date |-> day, off |-> OffsetAt(time, zone), total |-> Used - x]
        BY <3>3, <3>6
      <4>2. led.day.total + x = led.day.total + e
        BY <3>4, <3>5, <4>1
      <4>3. x = e
        BY <1>4, <2>1, <3>6, <4>1, <4>2
      <4> QED
        BY <4>1, <4>3
    <3>8. led'.prev = time /\ led'.open /\ Begun(led')
      <4>1. OpenDay(L) \in Ledgers /\ OpenDay(L).open /\ Begun(OpenDay(L))
        BY <1>3, <1>7
      <4>2. /\ First = [OpenDay(L) EXCEPT !.day = First.day]
        BY <4>1 DEF Book, Ledgers
      <4> HIDE DEF First
      <4>3. /\ SetReference(First, on).prev = time /\ SetReference(First, on).open
            /\ Same(SetReference(First, on), OpenDay(L))
        BY <4>1, <4>2 DEF SetReference, Ledgers, Same
      <4>4. led' = SetReference(First, on)
        BY <1>5, <3>2
      <4>5. led'.day = [date |-> day, off |-> OffsetAt(time, zone), total |-> Used - e]
        BY <1>5, <3>7
      <4>6. led'.day.date = day /\ led'.day.off = OffsetAt(time, zone)
        BY <4>5
      <4> HIDE DEF day
      <4> QED
        BY <4>1, <4>3, <4>4, <4>6 DEF Begun, Same, day
    <3>9. Wasted = IF led.day.date <= nvsLife.through THEN e ELSE 0
      <4>1. CASE led.day.date <= nvsLife.through /\ Used > 0
        <5>1. led.to <= time
          BY <2>6, <3>1
        <5> QED
          BY <1>1, <1>9, <1>11, <2>1, <4>1, <5>1 DEF Wasted, e
      <4>2. CASE ~(led.day.date <= nvsLife.through /\ Used > 0)
        <5>1. Wasted = 0 /\ (Used = 0 => e = 0)
          BY <3>7, <4>2 DEF Wasted
        <5> QED
          BY <1>4, <4>2, <5>1
      <4> QED
        BY <4>1, <4>2
    <3>10. CASE pending # NoDay
      <4>1. failed'
        BY <1>5, <3>6, <3>10
      <4> HIDE DEF day
      <4> QED
        BY <1>4, <1>5, <1>11, <3>1, <3>8, <3>10, <4>1 DEF day
    <3>11. CASE pending = NoDay
      <4>1. failed' = failed /\ pending' = More(led.day, e)
        BY <1>1, <1>5, <3>5, <3>6, <3>11 DEF LedgerTypeOK
      <4>2. led.day.total \in Nat /\ e \in Nat /\ e <= Used /\ led'.day.total = Used - e
        BY <1>4, <1>5, <2>1, <3>7
      <4> HIDE DEF day
      <4>3. /\ pending'.date = led.day.date /\ pending'.total + led'.day.total = led.day.total + Used
            /\ pending'.total >= led.day.total /\ pending'.total \in Nat
            /\ pending'.total - led.day.total = e
        BY <1>4, <3>4, <4>1, <4>2
      <4> QED
        BY <1>4, <1>5, <1>11, <3>1, <3>8, <3>9, <3>11, <4>1, <4>3 DEF day
    <3> QED
      BY <3>10, <3>11
  <2> QED
    BY <2>5, <2>6
<1> QED
  BY <1>10, <1>11

(* The numbers of the clock and the times kept.                            *)
LEMMA TimeNumbers ==
    ASSUME EnergyInv
    PROVE  /\ LedgerTypeOK /\ DateInv /\ TakenInv /\ LifeInv
           /\ time \in Nat /\ time >= FirstTime /\ zone \in Zones /\ zone \in Int
           /\ age \in Nat /\ age <= Period /\ taken.at \in Nat /\ saved.at \in Nat
           /\ led.prev \in Int /\ led.prev >= -1 /\ led.prev <= LastTime
           /\ DateAt(time, zone) \in Nat /\ DateAt(time, zone) > 0
<1>1. /\ LedgerTypeOK /\ DateInv /\ TakenInv /\ LifeInv
      /\ time \in Nat /\ time >= FirstTime /\ zone \in Zones /\ zone \in Int
  BY EnergyLimits, EnergyLedgerAssumption DEF EnergyInv, LedgerTypeOK, DateInv
<1>2. age \in Nat /\ age <= Period /\ taken.at \in 0..LastTime /\ saved.at \in 0..LastTime
  BY <1>1, EnergyLimits DEF LedgerTypeOK
<1>3. led.prev \in -1..LastTime
  BY <1>1 DEF LedgerTypeOK, Ledgers
<1> QED
  BY <1>1, <1>2, <1>3, EnergyLimits, LocalDay

-----------------------------------------------------------------------------
(* SpanInv is kept as long as nobody changes the clock                     *)

(* SpanInv after a step that leaves the clock alone.                       *)
LEMMA SpanNext ==
    ASSUME UNCHANGED <<time, zone>>
    PROVE  /\ DateAt(time, zone)' = DateAt(time, zone)
           /\ OffsetOK(led.day)' <=>
                 (led'.day # NoDay =>
                     led'.day.off \in {zone + Ahead(led'.day.date), zone + Ahead(led'.day.date + 1)})
           /\ UNCHANGED nvsToday => (OffsetOK(nvsToday)' <=> OffsetOK(nvsToday))
           /\ UNCHANGED taken => (OffsetOK(taken.day)' <=> OffsetOK(taken.day))
           /\ OpenSpan' <=>
                 /\ IF led'.exact
                    THEN /\ led'.from = Midnight(led'.day.date, zone)
                         /\ led'.to = Midnight(led'.day.date + 1, zone)
                    ELSE /\ led'.from <= Midnight(led'.day.date + 1, zone)
                         /\ led'.to <= Midnight(led'.day.date + 1, zone) + Gain
                 /\ led'.day.date <= DateAt(time, zone) /\ led'.prev <= time
           /\ Overrun' <=>
                 /\ ~led'.exact /\ pending' = NoDay
                 /\ \/ led'.prev = -1 /\ wasted' = 0
                    \/ /\ Midnight(led'.day.date + 1, zone) <= led'.prev
                       /\ wasted' <= led'.prev - Midnight(led'.day.date + 1, zone)
<1>1. DateAt(time, zone)' = DateAt(time, zone)
  BY DEF DateAt, Midnight, Ahead
<1> QED
  BY <1>1 DEF OffsetOK, OpenSpan, Overrun, Midnight, Ahead

(* A reading leaves the day of the clock open, or the open day until its   *)
(* span is over.                                                           *)
LEMMA SpanReading ==
    ASSUME EnergyInv, SpanInv, NEW on \in BOOLEAN, EnergyReading(on)
    PROVE  SpanInv'
<1> DEFINE day == DateAt(time, zone)
           end == Midnight(led.day.date + 1, zone)
<1>1. UNCHANGED <<time, zone, nvsToday, nvsLife, ppc, taken, age>>
  BY DEF EnergyReading
<1>2. /\ led'.open /\ led'.prev = time /\ wasted' = wasted + Wasted
      /\ \/ /\ ~led.open /\ Begun(led') /\ Wasted = 0
         \/ /\ led.open /\ pending' = pending
            /\ led'.day = More(led.day, Used) /\ Same(led', Spanned(led)) /\ time < led'.to
            /\ Wasted = IF led.day.date <= nvsLife.through THEN Used ELSE 0
         \/ /\ led.open /\ day > led.day.date /\ Begun(led')
  BY ExactReading
<1>3. /\ time \in Nat /\ time >= FirstTime /\ zone \in Zones /\ zone \in Int /\ day \in Nat
      /\ nvsLife.through \in Nat
      /\ wasted \in Nat /\ led.prev \in Int /\ LedgerTypeOK /\ DateInv /\ led.day.date \in Nat
  BY TimeNumbers, EnergyNumbers
<1>4. /\ nvsLife.through < day /\ nvsToday.date <= day /\ wasted <= Gain
      /\ OffsetOK(led.day) /\ OffsetOK(nvsToday) /\ OffsetOK(taken.day)
      /\ led.open => OpenSpan /\ (led.day.date <= nvsLife.through => Overrun)
      /\ ppc # "idle" => taken.at + age = time
  BY DEF SpanInv
<1>5. /\ Used \in Nat /\ Wasted \in 0..Used /\ (Used > 0 => led.prev >= 0 /\ Used = time - led.prev)
      /\ Wasted > 0 => led.open /\ led.day.date <= nvsLife.through /\ Wasted <= led.to - led.prev
  BY <1>3, WastedIsUsed, ExactReading
<1>6. end \in Int /\ led.to \in Int /\ Gain \in Nat
  BY <1>3, DateOrder, EnergyLimits DEF LedgerTypeOK, Ledgers
<1>7. led.open /\ led.day.date <= nvsLife.through =>
         /\ Spanned(led) = led /\ ~led.exact /\ led.to <= end + Gain /\ pending = NoDay
         /\ end <= time
         /\ (led.prev = -1 /\ wasted = 0) \/ (end <= led.prev /\ wasted <= led.prev - end)
  <2> SUFFICES ASSUME led.open, led.day.date <= nvsLife.through
      PROVE /\ Spanned(led) = led /\ ~led.exact /\ led.to <= end + Gain /\ pending = NoDay
            /\ end <= time
            /\ (led.prev = -1 /\ wasted = 0) \/ (end <= led.prev /\ wasted <= led.prev - end)
    OBVIOUS
  <2>1. led.day.date < day
    BY <1>3, <1>4
  <2>2. Spanned(led) = led
    BY <2>1, <1>3, SteadySpan
  <2>3. end <= time
    BY <1>3, <2>1, DateOrder
  <2> QED
    BY <1>4, <2>2, <2>3 DEF OpenSpan, Overrun
<1> HIDE DEF day, end
<1>8. CASE Begun(led')
  <2>1. /\ led'.day.date = day /\ led'.exact
        /\ led'.from = Midnight(day, zone) /\ led'.to = Midnight(day + 1, zone)
        /\ led'.day.off \in {zone + Ahead(day), zone + Ahead(day + 1)}
    BY <1>8 DEF Begun, StartOf, EndOf, OffsetAt, day
  <2>2. wasted' <= Gain
    BY <1>2, <1>3, <1>4, <1>5, <1>6, <1>7
  <2> QED
    BY <1>1, <1>2, <1>3, <1>4, <2>1, <2>2, SpanNext DEF SpanInv, day
<1>9. CASE /\ led.open /\ pending' = pending
           /\ led'.day = More(led.day, Used) /\ Same(led', Spanned(led)) /\ time < led'.to
           /\ Wasted = IF led.day.date <= nvsLife.through THEN Used ELSE 0
  <2>1. led'.day.date = led.day.date /\ led'.day.off = led.day.off /\ led.day # NoDay
    <3>1. led.day \in [date : Nat, off : LocalOffsets, total : Nat] /\ led.day.date > 0
      BY <1>3, <1>9 DEF LedgerTypeOK, DateInv, Ledgers, Days, NoDay
    <3> QED
      BY <1>9, <3>1 DEF More, NoDay
  <2>2. IF led'.exact THEN led'.from = Midnight(led.day.date, zone) /\ led'.to = end
                      ELSE led'.from <= end /\ led'.to <= end + Gain
    BY <1>9, SteadySpan DEF Same, end
  <2>3. led.day.date <= day
    BY <1>4, <1>9 DEF OpenSpan, day
  <2>4. OpenSpan'
    BY <1>1, <1>2, <1>3, <2>1, <2>2, <2>3, SpanNext DEF day, end
  <2>5. OffsetOK(led.day)'
    BY <1>1, <1>4, <2>1, SpanNext DEF OffsetOK
  <2>6. CASE led.day.date <= nvsLife.through
    <3>1. ~led'.exact /\ led'.to = led.to
      BY <1>7, <1>9, <2>6 DEF Same
    <3>2. end <= time /\ wasted' <= time - end /\ wasted' \in Nat
      <4>1. wasted' = wasted + Used /\ end <= time
        BY <1>2, <1>7, <1>9, <2>6
      <4>2. CASE led.prev = -1 /\ wasted = 0
        <5>1. Used = 0
          BY <1>5, <4>2
        <5> QED
          BY <1>3, <1>6, <4>1, <4>2, <5>1
      <4>3. CASE end <= led.prev /\ wasted <= led.prev - end
        <5>1. (Used = 0 \/ Used = time - led.prev) /\ led.prev <= time
          BY <1>4, <1>5, <1>9 DEF OpenSpan
        <5> QED
          BY <1>3, <1>5, <1>6, <4>1, <4>3, <5>1
      <4> QED
        BY <1>7, <1>9, <2>6, <4>2, <4>3
    <3>3. wasted' <= Gain
      <4>1. led.to <= end + Gain /\ time < led.to
        BY <1>7, <1>9, <2>6, <3>1
      <4> QED
        BY <1>3, <1>6, <3>2, <4>1
    <3>4. Overrun'
      BY <1>1, <1>2, <1>7, <1>9, <2>1, <2>6, <3>1, <3>2, SpanNext DEF end
    <3> QED
      BY <1>1, <1>4, <2>4, <2>5, <3>3, <3>4, SpanNext DEF SpanInv, day
  <2>7. CASE ~(led.day.date <= nvsLife.through)
    <3>1. wasted' <= Gain
      BY <1>2, <1>3, <1>4, <1>9, <2>7
    <3> QED
      BY <1>1, <1>4, <2>1, <2>4, <2>5, <2>7, <3>1, SpanNext DEF SpanInv, day
  <2> QED
    BY <2>6, <2>7
<1> QED
  BY <1>2, <1>8, <1>9

(* The day restored from NVS has the span of its date, up to an hour.      *)
LEMMA SpanLoad ==
    ASSUME EnergyInv, SpanInv, wasted = 0, PersistLoad
    PROVE  SpanInv'
<1> DEFINE day == DateAt(time, zone)
<1>1. /\ UNCHANGED <<time, zone, nvsToday, nvsLife, ppc, taken, pending, wasted>>
      /\ ppc = "idle" /\ ~loaded
  BY DEF PersistLoad
<1>2. /\ time \in Nat /\ zone \in Zones /\ zone \in Int /\ ~led.open /\ led = NoLed
      /\ pending = NoDay /\ nvsToday.date \in Nat
  BY <1>1, TimeNumbers, EnergyNumbers DEF DateInv, TakenInv
<1>3. /\ nvsLife.through < day /\ nvsToday.date <= day /\ wasted <= Gain
      /\ OffsetOK(led.day) /\ OffsetOK(nvsToday) /\ OffsetOK(taken.day)
  BY DEF SpanInv
<1>4. CASE nvsToday = NoDay
  <2>1. led' = led
    BY <1>4 DEF PersistLoad
  <2>2. OffsetOK(led.day)'
    BY <1>1, <1>3, <2>1, SpanNext DEF OffsetOK
  <2> QED
    BY <1>1, <1>2, <1>3, <2>1, <2>2, SpanNext DEF SpanInv
<1>5. CASE nvsToday # NoDay
  <2> DEFINE a == nvsToday.date * DayTicks - nvsToday.off
             end == Midnight(nvsToday.date + 1, zone)
  <2>1. led' = [NoLed EXCEPT !.open = TRUE, !.day = nvsToday, !.from = a, !.to = a + DayTicks]
    BY <1>5 DEF PersistLoad
  <2>2. nvsToday.off \in {zone + Ahead(nvsToday.date), zone + Ahead(nvsToday.date + 1)}
    BY <1>3, <1>5 DEF OffsetOK
  <2>3. /\ led'.open /\ led'.day = nvsToday /\ led'.from = a /\ led'.to = a + DayTicks
        /\ led'.prev = -1 /\ ~led'.exact
    <3> HIDE DEF a
    <3> QED
      BY <2>1 DEF NoLed
  <2>4. a \in Int /\ end \in Int /\ a <= end /\ a + DayTicks <= end + Gain
    <3>1. /\ nvsToday.date * DayTicks \in Int
          /\ (nvsToday.date + 1) * DayTicks = nvsToday.date * DayTicks + DayTicks
      BY <1>2, EnergyLimits, Z3
    <3>2. Ahead(nvsToday.date) \in 0..Gain /\ Ahead(nvsToday.date + 1) \in 0..Gain
      BY EnergyLimits DEF Ahead
    <3> QED
      BY <1>2, <2>2, <3>1, <3>2, EnergyLimits DEF Midnight
  <2>5. OffsetOK(led.day)'
    BY <1>1, <2>2, <2>3, SpanNext
  <2> HIDE DEF day, a, end
  <2>6. OpenSpan' /\ Overrun'
    <3>1. led'.day.date <= day /\ led'.prev <= time
      BY <1>2, <1>3, <2>3
    <3> QED
      BY <1>1, <1>2, <2>3, <2>4, <3>1, SpanNext DEF day, end
  <2> QED
    BY <1>1, <1>3, <2>5, <2>6, SpanNext DEF SpanInv, day
<1> QED
  BY <1>4, <1>5

(* Neither persisting, failing or not, nor a restart moves a span.         *)
LEMMA SpanPersist ==
    ASSUME EnergyInv, SpanInv,
           \/ \E restart \in BOOLEAN : PersistEnergy(restart)
           \/ PersistCommit \/ PersistSave \/ PersistApply \/ LedgerFault \/ EnergyRestart
    PROVE  SpanInv'
<1> DEFINE day == DateAt(time, zone)
<1>1. UNCHANGED <<time, zone>>
  BY DEF PersistEnergy, PersistCommit, PersistSave, PersistApply, LedgerFault, CommitFails,
         SaveFails, PersistUnapplied, PersistMissed, EnergyRestart
<1>2. DateAt(time, zone)' = day
  BY <1>1, SpanNext
<1>3. /\ LedgerTypeOK /\ DateInv /\ TakenInv /\ time \in Nat /\ day \in Nat
  BY TimeNumbers
<1>4. /\ led.day.date \in Nat /\ pending.date \in Nat /\ nvsToday.date \in Nat
      /\ taken.day.date \in Nat /\ nvsLife.through \in Nat /\ Gain \in Nat
  BY <1>3, EnergyNumbers, EnergyLimits
<1>5. /\ nvsLife.through < day /\ nvsToday.date <= day /\ wasted <= Gain
      /\ OffsetOK(led.day) /\ OffsetOK(nvsToday) /\ OffsetOK(taken.day)
      /\ led.open => OpenSpan /\ (led.day.date <= nvsLife.through => Overrun)
      /\ led.open => led.day.date <= day
      /\ ppc # "idle" => taken.at + age = time
  BY DEF SpanInv, OpenSpan
<1>6. /\ UNCHANGED led => (OffsetOK(led.day)' <=> OffsetOK(led.day)) /\ (OpenSpan' <=> OpenSpan)
      /\ UNCHANGED <<led, wasted>> /\ pending' \in {pending, NoDay} => (Overrun => Overrun')
  BY <1>1 DEF OffsetOK, OpenSpan, Overrun, DateAt, Midnight, Ahead
<1>7. /\ taken'.day = taken.day => (OffsetOK(taken.day)' <=> OffsetOK(taken.day))
      /\ taken'.day = led.day => (OffsetOK(taken.day)' <=> OffsetOK(led.day))
      /\ taken'.day = NoDay => OffsetOK(taken.day)'
      /\ UNCHANGED nvsToday => (OffsetOK(nvsToday)' <=> OffsetOK(nvsToday))
      /\ nvsToday' = taken.day => (OffsetOK(nvsToday)' <=> OffsetOK(taken.day))
  BY <1>1 DEF OffsetOK, Ahead
<1> HIDE DEF day
<1>8. ASSUME NEW restart \in BOOLEAN, PersistEnergy(restart)
      PROVE  SpanInv'
  <2>1. /\ UNCHANGED <<led, nvsToday, nvsLife, pending, wasted>> /\ age' = 0
        /\ taken'.day = led.day /\ taken'.at = time
    BY <1>8 DEF PersistEnergy
  <2> QED
    BY <1>1, <1>2, <1>3, <1>5, <1>6, <1>7, <2>1 DEF SpanInv
<1>9. CASE PersistCommit
  <2>1. /\ UNCHANGED <<led, nvsToday, pending, age, wasted>> /\ ppc = "commit" /\ loaded
    BY <1>3, <1>9 DEF PersistCommit, TakenInv
  <2>2. /\ taken' = [taken EXCEPT !.life = nvsLife']
        /\ \/ nvsLife' = nvsLife
           \/ nvsLife'.through = pending.date /\ pending # NoDay
    BY <1>3, <1>9 DEF PersistCommit, TakenInv
  <2>3. taken'.day = taken.day /\ taken'.at = taken.at
    BY <1>3, <2>2 DEF LedgerTypeOK
  <2>4. pending # NoDay => led.open /\ pending.date < led.day.date
    BY <1>3 DEF DateInv
  <2> QED
    BY <1>1, <1>2, <1>3, <1>4, <1>5, <1>6, <1>7, <2>1, <2>2, <2>3, <2>4 DEF SpanInv
<1>10. CASE PersistSave
  <2>1. /\ UNCHANGED <<led, taken, nvsLife, pending, age, wasted>> /\ ppc = "save" /\ loaded
        /\ nvsToday' = IF taken.save THEN taken.day ELSE nvsToday
    BY <1>3, <1>10 DEF PersistSave, TakenInv
  <2>2. taken.save => led.open /\ taken.day.date <= led.day.date
    BY <1>3, <2>1, EmptyTypes DEF DateInv, TakenInv
  <2> QED
    BY <1>1, <1>2, <1>3, <1>4, <1>5, <1>6, <1>7, <2>1, <2>2 DEF SpanInv
<1>11. CASE PersistApply \/ PersistUnapplied
  <2>1. /\ UNCHANGED <<led, nvsToday, nvsLife, wasted>> /\ ppc' = "idle" /\ taken'.day = NoDay
        /\ pending' \in {pending, NoDay}
    BY <1>11, EmptyTypes DEF PersistApply, PersistUnapplied
  <2> QED
    BY <1>1, <1>2, <1>5, <1>6, <1>7, <2>1 DEF SpanInv
<1>12. CASE EnergyRestart
  <2>1. /\ UNCHANGED <<nvsToday, nvsLife>> /\ ppc' = "idle" /\ taken'.day = NoDay
        /\ ~led'.open /\ led'.day = NoDay /\ wasted' = 0
    BY <1>12, EmptyTypes DEF EnergyRestart
  <2>2. OffsetOK(led.day)'
    BY <2>1 DEF OffsetOK
  <2> QED
    BY <1>1, <1>2, <1>4, <1>5, <1>7, <2>1, <2>2 DEF SpanInv
<1>13. CASE CommitFails \/ SaveFails
  <2>1. /\ UNCHANGED <<led, nvsToday, nvsLife, pending, age, wasted>> /\ ppc # "idle"
        /\ taken' \in {[taken EXCEPT !.closed = NoDay], [taken EXCEPT !.save = FALSE]}
    BY <1>13 DEF CommitFails, SaveFails
  <2>2. taken'.day = taken.day /\ taken'.at = taken.at
    BY <1>3, <2>1 DEF LedgerTypeOK
  <2> QED
    BY <1>1, <1>2, <1>5, <1>6, <1>7, <2>1, <2>2 DEF SpanInv
<1>14. CASE PersistMissed
  <2>1. UNCHANGED <<led, nvsToday, nvsLife, pending, ppc, taken, wasted>> /\ ppc = "idle"
    BY <1>14 DEF PersistMissed
  <2> QED
    BY <1>1, <1>2, <1>5, <1>6, <1>7, <2>1 DEF SpanInv
<1> QED
  BY <1>8, <1>9, <1>10, <1>11, <1>12, <1>13, <1>14 DEF LedgerFault

(* A day that is open stays no later than the clock.                       *)
LEMMA SpanTick ==
    ASSUME EnergyInv, SpanInv, EnergyTick
    PROVE  SpanInv'
<1> DEFINE day == DateAt(time, zone)
           day2 == DateAt(time + 1, zone)
<1>1. /\ UNCHANGED <<zone, led, nvsToday, nvsLife, ppc, taken, pending, wasted>>
      /\ time' = time + 1 /\ age' = age + 1
  BY DEF EnergyTick
<1>2. DateAt(time, zone)' = day2
  BY <1>1 DEF DateAt, Midnight, Ahead
<1>3. /\ LedgerTypeOK /\ time \in Nat /\ time >= FirstTime /\ zone \in Zones /\ age \in Nat
      /\ taken.at \in Nat /\ led.prev \in Int /\ day \in Nat /\ day2 \in Nat /\ day2 >= day
  <2>1. /\ LedgerTypeOK /\ time \in Nat /\ time >= FirstTime /\ zone \in Zones /\ age \in Nat
        /\ taken.at \in Nat /\ led.prev \in Int /\ day \in Nat
    BY TimeNumbers
  <2>2. day2 \in Nat
    BY <2>1, LocalDay, EnergyLimits
  <2> QED
    BY <2>1, <2>2, DateGrows
<1>4. led.day.date \in Nat /\ nvsToday.date \in Nat /\ nvsLife.through \in Nat
  BY <1>3, EnergyNumbers
<1>5. /\ nvsLife.through < day /\ nvsToday.date <= day /\ wasted <= Gain
      /\ OffsetOK(led.day) /\ OffsetOK(nvsToday) /\ OffsetOK(taken.day)
      /\ led.open => OpenSpan /\ (led.day.date <= nvsLife.through => Overrun)
      /\ led.open => led.day.date <= day /\ led.prev <= time
      /\ ppc # "idle" => taken.at + age = time
  BY DEF SpanInv, OpenSpan
<1>6. /\ nvsLife.through < day2 /\ nvsToday.date <= day2
      /\ led.open => led.day.date <= day2 /\ led.prev <= time + 1
      /\ ppc # "idle" => taken.at + (age + 1) = time + 1
  BY <1>3, <1>4, <1>5
<1>7. /\ OffsetOK(led.day)' /\ OffsetOK(nvsToday)' /\ OffsetOK(taken.day)'
      /\ Overrun' <=> Overrun
  BY <1>1, <1>5 DEF OffsetOK, Overrun, Midnight, Ahead
<1> HIDE DEF day, day2
<1>8. led.open => OpenSpan'
  BY <1>1, <1>2, <1>5, <1>6 DEF OpenSpan, Midnight, Ahead
<1> QED
  BY <1>1, <1>2, <1>5, <1>6, <1>7, <1>8 DEF SpanInv

-----------------------------------------------------------------------------
(* CheckpointInv and RecentInv are kept as long as nothing fails           *)

(* With nothing waiting, the totals and the open day are what a start      *)
(* would find with it as the checkpoint.                                   *)
LEMMA FoundIsCarried ==
    ASSUME LedgerTypeOK, ~Waits, NEW d \in Days
    PROVE  Carried(d) = Found(d)
<1>1. d.date \in Nat /\ d.total \in Nat
  BY DEF Days, NoDay
<1> QED
  BY <1>1, EnergyNumbers DEF Carried, Found, Waits

(* A reading that drops no day leaves the checkpoints parts of their days. *)
LEMMA CheckpointReading ==
    ASSUME EnergyInv, EnergyInv', SpanInv, CheckpointInv, NEW on \in BOOLEAN, EnergyReading(on),
           ~failed'
    PROVE  CheckpointInv'
<1> DEFINE day == DateAt(time, zone)
           u == Used
           w == Wasted
<1>1. /\ loaded /\ UNCHANGED <<saved, nvsToday, nvsLife, ppc, taken>>
  BY DEF EnergyReading
<1>2. /\ u \in Nat /\ booked' = booked + u /\ wasted' = wasted + w
      /\ \/ /\ ~led.open /\ pending' = pending /\ u = 0 /\ w = 0
            /\ led'.day.date = day /\ led'.day.total = 0
         \/ /\ led.open /\ pending' = pending /\ led'.day = More(led.day, u)
            /\ w = IF led.day.date <= nvsLife.through THEN u ELSE 0
         \/ /\ led.open /\ day > led.day.date /\ led'.day.date = day
            /\ pending = NoDay /\ pending'.date = led.day.date
            /\ pending'.total + led'.day.total = led.day.total + u
            /\ pending'.total >= led.day.total /\ pending'.total \in Nat
            /\ w = IF led.day.date <= nvsLife.through THEN pending'.total - led.day.total ELSE 0
  BY ExactReading DEF Begun
<1>3. nvsLife.through < day
  BY DEF SpanInv
<1>4. LedgerTypeOK /\ DateInv /\ TakenInv /\ day \in Nat /\ day > 0
  BY TimeNumbers
<1>5. /\ led.day.date \in Nat /\ led.day.total \in Nat
      /\ pending.date \in Nat /\ pending.total \in Nat
      /\ nvsToday.date \in Nat /\ nvsToday.total \in Nat
      /\ taken.day.date \in Nat /\ taken.day.total \in Nat
      /\ nvsLife.through \in Nat /\ nvsLife.total \in Nat /\ Counted \in Int
  BY <1>4, EnergyNumbers
<1>6. led'.day.total \in Nat /\ w \in Nat /\ Counted' = Counted + (u - w)
  <2>1. booked \in Nat /\ wasted \in Nat /\ w \in Nat
    BY <1>4, EnergyNumbers, WastedIsUsed
  <2>2. Counted' = Counted + (u - w)
    BY <1>2, <2>1 DEF Counted
  <2>3. led'.day.total \in Nat
    BY DEF EnergyInv, LedgerTypeOK, Ledgers, Days, NoDay
  <2> QED
    BY <2>1, <2>2, <2>3
<1>7. /\ ~led.open => led.day = NoDay /\ pending = NoDay /\ nvsToday = NoDay /\ taken.day = NoDay
      /\ led.open => pending.date < led.day.date /\ led.day.date > 0
      /\ nvsToday.date <= led.day.date /\ taken.day.date <= led.day.date
      /\ NoDay.date = 0 /\ NoDay.total = 0
  BY <1>1, <1>4, EmptyTypes DEF DateInv
<1> HIDE DEF day, u, w
<1>8. led.open /\ led'.day = More(led.day, u) =>
         led'.day.date = led.day.date /\ led'.day.total = led.day.total + u
  <2>1. led.open => led.day \in [date : Nat, off : LocalOffsets, total : Nat]
    BY <1>4 DEF LedgerTypeOK, DateInv, Ledgers, Days, NoDay
  <2> QED
    BY <2>1 DEF More
<1>9. Counted' = Carried(led.day)'
  <2>1. Counted = Carried(led.day)
    BY DEF CheckpointInv
  <2>2. CASE ~led.open
    BY <1>1, <1>2, <1>4, <1>5, <1>6, <1>7, <2>1, <2>2 DEF Carried, Waits
  <2>3. CASE /\ led.open /\ pending' = pending /\ led'.day = More(led.day, u)
             /\ w = IF led.day.date <= nvsLife.through THEN u ELSE 0
    BY <1>1, <1>2, <1>5, <1>6, <1>7, <1>8, <2>1, <2>3 DEF Carried, Waits
  <2>4. CASE /\ led.open /\ day > led.day.date /\ led'.day.date = day
             /\ pending = NoDay /\ pending'.date = led.day.date
             /\ pending'.total + led'.day.total = led.day.total + u
             /\ pending'.total >= led.day.total /\ pending'.total \in Nat
             /\ w = IF led.day.date <= nvsLife.through THEN pending'.total - led.day.total ELSE 0
    BY <1>1, <1>2, <1>3, <1>4, <1>5, <1>6, <1>7, <2>1, <2>4 DEF Carried, Waits
  <2> QED
    BY <1>2, <2>2, <2>3, <2>4
<1> DEFINE Cur(d) ==
      /\ \/ d.date <= nvsLife.through
         \/ d.date = IF pending'.date > nvsLife.through THEN pending'.date ELSE led'.day.date
      /\ pending'.date > nvsLife.through /\ d.date = pending'.date => d.total <= pending'.total
      /\ d.date = led'.day.date => d.total <= led'.day.total
<1>10. ASSUME NEW d \in {nvsToday, taken.day}, Current(d)
       PROVE  Cur(d)
  <2>1. /\ d.date \in Nat /\ d.total \in Nat /\ d.date <= led.day.date
        /\ ~led.open => d.date = 0
    BY <1>5, <1>7
  <2>2. CASE ~led.open
    BY <1>2, <1>4, <1>5, <1>7, <2>1, <2>2
  <2>3. CASE led.open /\ pending' = pending /\ led'.day = More(led.day, u)
    BY <1>2, <1>5, <1>8, <1>10, <2>1, <2>3 DEF Current, Waits
  <2>4. CASE /\ led.open /\ day > led.day.date /\ led'.day.date = day
             /\ pending = NoDay /\ pending'.date = led.day.date
             /\ pending'.total >= led.day.total /\ pending'.total \in Nat
    BY <1>2, <1>4, <1>5, <1>7, <1>10, <2>1, <2>4 DEF Current, Waits
  <2> QED
    BY <1>2, <2>2, <2>3, <2>4
<1>11. /\ Current(nvsToday)' <=> Cur(nvsToday)
       /\ Current(taken.day)' <=> Cur(taken.day)
  BY <1>1 DEF Current, Waits
<1>12. Current(nvsToday)'
  BY <1>10, <1>11 DEF CheckpointInv
<1>13. ASSUME Saving
       PROVE  IF ppc = "commit" /\ taken.closed # NoDay
              THEN taken.day.date = led'.day.date /\ taken.day.total <= led'.day.total
              ELSE Current(taken.day)'
  <2>1. CASE ppc = "commit" /\ taken.closed # NoDay
    <3>1. pending # NoDay /\ taken.day.date = led.day.date /\ taken.day.total <= led.day.total
      BY <1>4, <1>13, <2>1 DEF TakenInv, CheckpointInv
    <3>2. led'.day.date = led.day.date /\ led'.day.total = led.day.total + u
      BY <1>2, <1>7, <1>8, <3>1
    <3> QED
      BY <1>2, <1>5, <2>1, <3>1, <3>2
  <2>2. CASE ~(ppc = "commit" /\ taken.closed # NoDay)
    <3>1. Current(taken.day)
      BY <1>13, <2>2 DEF CheckpointInv
    <3> QED
      BY <1>10, <1>11, <2>2, <3>1
  <2> QED
    BY <2>1, <2>2
<1> QED
  BY <1>1, <1>9, <1>12, <1>13 DEF CheckpointInv, Saving

(* A reading books what reaches back to the reading before, no further.    *)
LEMMA RecentReading ==
    ASSUME EnergyInv, SpanInv, RecentInv, NEW on \in BOOLEAN, EnergyReading(on)
    PROVE  RecentInv'
<1> DEFINE u == Used - Wasted
<1>1. /\ UNCHANGED <<time, saved, nvsToday, nvsLife, ppc, taken, age>>
  BY DEF EnergyReading
<1>2. /\ u \in Nat /\ u <= MaxInterval /\ (u > 0 => led.prev >= 0 /\ u <= time - led.prev)
      /\ Counted' = Counted + u /\ led'.prev = time
  <2>1. /\ Used \in Nat /\ Used <= MaxInterval
        /\ Used > 0 => led.prev >= 0 /\ Used = time - led.prev
        /\ booked' = booked + Used /\ wasted' = wasted + Wasted /\ led'.prev = time
    BY ExactReading
  <2>2. booked \in Nat /\ wasted \in Nat /\ Wasted \in 0..Used
    BY TimeNumbers, EnergyNumbers, WastedIsUsed
  <2>3. MaxInterval \in Nat /\ time \in Int /\ led.prev \in Int
    BY EnergyLimits, TimeNumbers
  <2> QED
    BY <2>1, <2>2, <2>3 DEF Counted
<1>3. /\ LedgerTypeOK /\ time \in Nat /\ age \in Nat /\ taken.at \in Nat /\ led.prev \in Int
      /\ led.prev >= -1 /\ led.prev <= time
  <2>1. ~led.open => led.prev = -1
    BY TimeNumbers DEF DateInv, NoLed
  <2>2. led.open => led.prev <= time
    BY DEF SpanInv, OpenSpan
  <2> QED
    BY TimeNumbers, <2>1, <2>2
<1>4. /\ led.day.date \in Nat /\ led.day.total \in Nat
      /\ pending.date \in Nat /\ pending.total \in Nat
      /\ nvsToday.date \in Nat /\ nvsToday.total \in Nat
      /\ taken.day.date \in Nat /\ taken.day.total \in Nat
      /\ nvsLife.through \in Nat /\ nvsLife.total \in Nat /\ Counted \in Int
  BY <1>3, EnergyNumbers
<1> HIDE DEF u
<1>5. ASSUME NEW x \in Int, NEW b \in Nat, b <= time, Since(x, b)
      PROVE  x + u <= 0 \/ (b <= time /\ x + u <= MaxInterval + time - b)
  <2>1. MaxInterval \in Nat
    BY EnergyLimits
  <2>2. CASE x <= 0
    BY <1>2, <1>3, <1>5, <2>1, <2>2
  <2>3. CASE b <= led.prev /\ x <= MaxInterval + led.prev - b
    BY <1>2, <1>3, <1>5, <2>1, <2>3
  <2> QED
    BY <1>5, <2>2, <2>3 DEF Since
<1>6. /\ PassTotal' = PassTotal /\ NvsTotal' = NvsTotal /\ (Saving' <=> Saving)
  BY <1>1 DEF PassTotal, NvsTotal, Found, Saving
<1>7. PassTotal \in Int /\ NvsTotal \in Int
  <2>1. taken.closed.date \in Nat /\ taken.closed.total \in Nat
    BY <1>3 DEF LedgerTypeOK, Days, NoDay
  <2> QED
    BY <1>4, <2>1 DEF PassTotal, NvsTotal, Found
<1>8. Saving => Since(Counted - PassTotal, taken.at)'
  <2> SUFFICES ASSUME Saving PROVE Since(Counted - PassTotal, taken.at)'
    OBVIOUS
  <2>1. Since(Counted - PassTotal, taken.at) /\ taken.at <= time
    BY <1>3 DEF RecentInv, SpanInv, Saving
  <2>2. \/ Counted - PassTotal + u <= 0
        \/ taken.at <= time /\ Counted - PassTotal + u <= MaxInterval + time - taken.at
    BY <1>3, <1>4, <1>5, <1>7, <2>1
  <2>3. Counted + u - PassTotal = Counted - PassTotal + u
    BY <1>2, <1>4, <1>7
  <2>4. \/ Counted' - PassTotal <= 0
        \/ taken.at <= time /\ Counted' - PassTotal <= MaxInterval + time - taken.at
    BY <1>2, <1>3, <1>4, <1>7, <2>2, <2>3, EnergyLimits
  <2>5. \/ Counted' - PassTotal' <= 0
        \/ taken'.at <= led'.prev /\ Counted' - PassTotal' <= MaxInterval + led'.prev - taken'.at
    BY <1>1, <1>2, <1>6, <2>4
  <2> QED
    BY <2>5 DEF Since
<1>9. PICK b \in 0..time :
          /\ Since(Counted - NvsTotal, b)
          /\ IF ppc = "apply" /\ taken.save THEN taken.at <= b ELSE saved.at <= b
          /\ time - b < SaveInterval + age + (IF Saving THEN Period ELSE 0)
  BY DEF RecentInv
<1>10. \/ Counted' - NvsTotal <= 0
       \/ b <= time /\ Counted' - NvsTotal <= MaxInterval + time - b
  <2>1. \/ Counted - NvsTotal + u <= 0
        \/ b <= time /\ Counted - NvsTotal + u <= MaxInterval + time - b
    BY <1>3, <1>4, <1>5, <1>7, <1>9
  <2>2. Counted + u - NvsTotal = Counted - NvsTotal + u
    BY <1>2, <1>4, <1>7
  <2> QED
    BY <1>2, <1>3, <1>4, <1>7, <2>1, <2>2, EnergyLimits
<1>11. \E c \in 0..time :
          /\ Counted' - NvsTotal <= 0 \/ (c <= time /\ Counted' - NvsTotal <= MaxInterval + time - c)
          /\ IF ppc = "apply" /\ taken.save THEN taken.at <= c ELSE saved.at <= c
          /\ time - c < SaveInterval + age + (IF Saving THEN Period ELSE 0)
  BY <1>9, <1>10
<1>12. \E c \in 0..time' :
          /\ Since(Counted - NvsTotal, c)'
          /\ IF ppc' = "apply" /\ taken'.save THEN taken'.at <= c ELSE saved'.at <= c
          /\ time' - c < SaveInterval + age' + (IF Saving' THEN Period ELSE 0)
  BY <1>1, <1>2, <1>6, <1>11 DEF Since
<1> QED
  BY <1>6, <1>8, <1>12 DEF RecentInv

(* A ledger just loaded holds what NVS holds.                              *)
LEMMA LossLoad ==
    ASSUME EnergyInv, Counted = NvsTotal, saved.at = 0, saved.day = NoDay, PersistLoad
    PROVE  CheckpointInv' /\ RecentInv'
<1>1. /\ ppc = "idle" /\ ~loaded /\ age' = 0
      /\ UNCHANGED <<time, pending, nvsToday, nvsLife, ppc, taken, Counted>>
  BY DEF PersistLoad, Counted
<1>2. /\ LedgerTypeOK /\ led = NoLed /\ pending = NoDay /\ taken = NoCopy /\ time \in Nat
  BY <1>1, TimeNumbers DEF DateInv, TakenInv
<1>3. /\ led.day.date \in Nat /\ led.day.total \in Nat
      /\ pending.date \in Nat /\ pending.total \in Nat
      /\ nvsToday.date \in Nat /\ nvsToday.total \in Nat
      /\ taken.day.date \in Nat /\ taken.day.total \in Nat
      /\ nvsLife.through \in Nat /\ nvsLife.total \in Nat /\ Counted \in Int
  BY <1>2, EnergyNumbers
<1>4. led'.day = nvsToday /\ saved'.day = nvsToday /\ saved'.at = 0
  <2>1. CASE nvsToday = NoDay
    BY <1>2, <2>1 DEF PersistLoad, NoLed
  <2>2. CASE nvsToday # NoDay
    <3> DEFINE a == nvsToday.date * DayTicks - nvsToday.off
    <3>1. /\ led' = [NoLed EXCEPT !.open = TRUE, !.day = nvsToday, !.from = a, !.to = a + DayTicks]
          /\ saved' = [day |-> nvsToday, at |-> 0]
      BY <2>2 DEF PersistLoad
    <3> HIDE DEF a
    <3> QED
      BY <3>1 DEF NoLed
  <2> QED
    BY <2>1, <2>2
<1>5. ~Saving' /\ ppc' # "apply" /\ ~Waits'
  BY <1>1, <1>2, <1>3, EmptyTypes DEF Saving, Waits
<1>6. CheckpointInv'
  <2>1. Counted' = Carried(led.day)'
    BY <1>1, <1>2, <1>3, <1>4, EmptyTypes DEF Carried, Waits, NvsTotal
  <2>2. Current(nvsToday)'
    BY <1>1, <1>3, <1>4, <1>5 DEF Current
  <2> QED
    BY <1>1, <1>4, <1>5, <2>1, <2>2 DEF CheckpointInv
<1>7. RecentInv'
  <2>1. Counted' - NvsTotal' <= 0
    BY <1>1, <1>3 DEF NvsTotal
  <2>2. time' \in 0..time' /\ saved'.at <= time' /\ time' - time' < SaveInterval + age' + 0
    BY <1>1, <1>2, <1>4, EnergyLimits
  <2> QED
    BY <1>5, <2>1, <2>2 DEF RecentInv, Since
<1> QED
  BY <1>6, <1>7

(* The numbers of persistEnergyLedger.                                     *)
LEMMA PassNumbers ==
    ASSUME EnergyInv
    PROVE  /\ led.day.date \in Nat /\ led.day.total \in Nat
           /\ pending.date \in Nat /\ pending.total \in Nat
           /\ nvsToday.date \in Nat /\ nvsToday.total \in Nat
           /\ taken.day.date \in Nat /\ taken.day.total \in Nat
           /\ taken.closed.date \in Nat /\ taken.closed.total \in Nat
           /\ nvsLife.through \in Nat /\ nvsLife.total \in Nat /\ Counted \in Int /\ booked \in Nat
           /\ PassTotal \in Int /\ NvsTotal \in Int
           /\ NoDay.date = 0 /\ NoDay.total = 0
<1>1. LedgerTypeOK
  BY DEF EnergyInv
<1>2. taken.closed.date \in Nat /\ taken.closed.total \in Nat
  BY <1>1 DEF LedgerTypeOK, Days, NoDay
<1>3. NoDay.date = 0 /\ NoDay.total = 0
  BY DEF NoDay
<1> QED
  BY <1>1, <1>2, <1>3, EnergyNumbers DEF PassTotal, NvsTotal, Found

(* persistEnergyLedger begins: what it takes is all that was booked, and a *)
(* save that is not due leaves nothing behind or was made not long ago.    *)
LEMMA LossPersistEnergy ==
    ASSUME EnergyInv, CheckpointInv, RecentInv, NEW restart \in BOOLEAN, PersistEnergy(restart)
    PROVE  CheckpointInv' /\ RecentInv'
<1>1. /\ ppc = "idle" /\ loaded /\ ppc' = "commit" /\ age' = 0
      /\ taken' = [at |-> time, closed |-> pending, save |-> SaveDue(restart), day |-> led.day,
                   life |-> life]
      /\ UNCHANGED <<time, led, saved, pending, nvsToday, nvsLife, Counted>>
  BY DEF PersistEnergy, Counted
<1>2. /\ taken'.at = time /\ taken'.closed = pending /\ taken'.save = SaveDue(restart)
      /\ taken'.day = led.day
  BY <1>1
<1>3. /\ LedgerTypeOK /\ DateInv /\ TakenInv /\ time \in Nat /\ age \in Nat /\ age <= Period
      /\ saved.at \in Nat
  BY TimeNumbers
<1>4. /\ SaveInterval \in Nat /\ SaveInterval > 0 /\ Period \in Nat
  BY EnergyLimits
<1>5. /\ Counted = Carried(led.day) /\ saved.day = nvsToday /\ Current(nvsToday)
  BY <1>1 DEF CheckpointInv
<1>6. pending = NoDay => Current(led.day)
  BY PassNumbers DEF Current, Waits
<1>7. /\ Carried(led.day)' = Carried(led.day) /\ Current(nvsToday)' = Current(nvsToday)
      /\ Current(taken.day)' = Current(led.day) /\ NvsTotal' = NvsTotal
  BY <1>1, <1>2 DEF Carried, Current, Waits, NvsTotal
<1>8. CheckpointInv'
  BY <1>1, <1>2, <1>5, <1>6, <1>7, PassNumbers DEF CheckpointInv, Saving
<1>9. PassTotal' = Counted
  <2>1. PassTotal' = IF pending.date > nvsLife.through
                     THEN nvsLife.total + pending.total
                          + (IF led.day.date > pending.date THEN led.day.total ELSE 0)
                     ELSE nvsLife.total + (IF led.day.date > nvsLife.through THEN led.day.total ELSE 0)
    BY <1>1, <1>2 DEF PassTotal, Found
  <2> QED
    BY <1>5, <2>1, PassNumbers DEF Carried, Waits
<1>10. Since(Counted - PassTotal, taken.at)'
  BY <1>1, <1>9, PassNumbers DEF Since
<1>11. PICK b \in 0..time :
          /\ Since(Counted - NvsTotal, b) /\ saved.at <= b
          /\ time - b < SaveInterval + age
  BY <1>1, <1>3, <1>4 DEF RecentInv, Saving
<1>12. Saving' <=> SaveDue(restart)
  BY <1>1, <1>2 DEF Saving
<1> DEFINE Near(c) == /\ Since(Counted - NvsTotal, c) /\ saved.at <= c
                      /\ time - c < SaveInterval + 0 + (IF SaveDue(restart) THEN Period ELSE 0)
<1>13. \E c \in 0..time : Near(c)
  <2>1. CASE SaveDue(restart)
    <3>1. time - b < SaveInterval + 0 + Period
      BY <1>3, <1>4, <1>11
    <3> QED
      BY <1>11, <2>1, <3>1
  <2>2. ASSUME NvsTotal = Counted
        PROVE  Near(time) /\ time \in 0..time
    BY <1>3, <1>4, <1>11, <2>2, PassNumbers DEF Since
  <2>3. CASE ~led.open
    <3>1. led.day = NoDay /\ nvsToday = NoDay /\ pending = NoDay
      BY <1>1, <1>3, <2>3, EmptyTypes DEF DateInv, NoLed
    <3>2. NvsTotal = Counted
      BY <1>5, <3>1, PassNumbers DEF Carried, Waits, NvsTotal
    <3> QED
      BY <2>2, <3>2
  <2>4. CASE led.open /\ saved.day = led.day
    <3>1. nvsToday = led.day
      BY <1>5, <2>4
    <3>2. pending.date < led.day.date
      BY <1>3, <2>4 DEF DateInv
    <3>3. ~Waits
      BY <1>5, <3>1, <3>2, PassNumbers DEF Current, Waits
    <3>4. NvsTotal = Counted
      BY <1>5, <3>1, <3>2, <3>3, PassNumbers DEF Carried, Waits, NvsTotal
    <3> QED
      BY <2>2, <3>4
  <2>5. CASE ~SaveDue(restart) /\ led.open /\ saved.day # led.day
    <3>1. time - saved.at < SaveInterval
      BY <1>3, <1>4, <2>5 DEF SaveDue
    <3>2. time - b < SaveInterval + 0 + 0
      BY <1>3, <1>4, <1>11, <3>1
    <3> QED
      BY <1>11, <2>5, <3>2
  <2> QED
    BY <2>1, <2>3, <2>4, <2>5
<1>14. \E c \in 0..time' :
          /\ Since(Counted - NvsTotal, c)'
          /\ IF ppc' = "apply" /\ taken'.save THEN taken'.at <= c ELSE saved'.at <= c
          /\ time' - c < SaveInterval + age' + (IF Saving' THEN Period ELSE 0)
  BY <1>1, <1>7, <1>12, <1>13 DEF Since
<1> QED
  BY <1>8, <1>10, <1>14 DEF RecentInv

(* What is not in NVS does not grow when a day is committed.               *)
LEMMA LossCommit ==
    ASSUME EnergyInv, CheckpointInv, RecentInv, PersistCommit
    PROVE  CheckpointInv' /\ RecentInv'
<1>1. /\ ppc = "commit" /\ ppc' = "save" /\ UNCHANGED <<time, led, saved, pending, nvsToday, age, Counted>>
      /\ taken' = [taken EXCEPT !.life = nvsLife']
  BY DEF PersistCommit, Counted
<1>2. /\ LedgerTypeOK /\ DateInv /\ TakenInv /\ time \in Nat /\ age \in Nat /\ led.prev \in Int
      /\ taken.at \in Nat /\ saved.at \in Nat
  BY TimeNumbers
<1>3. /\ taken'.at = taken.at /\ taken'.closed = taken.closed /\ taken'.save = taken.save
      /\ taken'.day = taken.day
  BY <1>1, <1>2 DEF LedgerTypeOK
<1>4. /\ Counted = Carried(led.day) /\ saved.day = nvsToday /\ Current(nvsToday)
      /\ taken.save => IF taken.closed # NoDay
                       THEN taken.day.date = led.day.date /\ taken.day.total <= led.day.total
                       ELSE Current(taken.day)
  BY <1>1 DEF CheckpointInv, Saving
<1>5. (Saving' <=> Saving) /\ (Saving <=> taken.save)
  BY <1>1, <1>3 DEF Saving
<1>6. /\ Counted' = Carried(led.day)' /\ Current(nvsToday)' /\ (taken.save => Current(taken.day)')
      /\ PassTotal' = PassTotal /\ NvsTotal' >= NvsTotal /\ NvsTotal' \in Int
  <2>1. CASE taken.closed = NoDay \/ AlreadyCounted(taken.closed)
    <3>1. nvsLife' = nvsLife
      BY <2>1 DEF PersistCommit
    <3>2. taken.save => Current(taken.day)
      <4>1. CASE taken.closed = NoDay
        BY <1>4, <4>1
      <4>2. CASE taken.closed # NoDay
        <5>1. pending.date <= nvsLife.through
          BY <1>2, <2>1, <4>2 DEF TakenInv, AlreadyCounted
        <5> QED
          BY <1>4, <4>2, <5>1, PassNumbers DEF Current, Waits
      <4> QED
        BY <4>1, <4>2
    <3>3. /\ Carried(led.day)' = Carried(led.day) /\ Current(nvsToday)' = Current(nvsToday)
          /\ Current(taken.day)' = Current(taken.day) /\ NvsTotal' = NvsTotal
      BY <1>1, <1>3, <3>1 DEF Carried, Current, Waits, NvsTotal
    <3>4. PassTotal' = PassTotal
      <4>1. ~(taken.closed.date > nvsLife.through)
        BY <2>1, PassNumbers DEF AlreadyCounted
      <4> QED
        BY <1>1, <1>3, <3>1, <4>1 DEF PassTotal, Found
    <3> QED
      BY <1>1, <1>4, <3>2, <3>3, <3>4, PassNumbers
  <2>2. CASE taken.closed # NoDay /\ ~AlreadyCounted(taken.closed)
    <3>1. /\ nvsLife' = [through |-> taken.closed.date, total |-> nvsLife.total + taken.closed.total]
          /\ taken.closed = pending /\ pending.date > nvsLife.through
      BY <1>2, <2>2, PassNumbers DEF PersistCommit, AlreadyCounted, TakenInv
    <3>2. nvsLife'.through = pending.date /\ nvsLife'.total = nvsLife.total + pending.total
      BY <3>1
    <3>3. pending.date < led.day.date
      BY <1>2, <2>2, <3>1, EmptyTypes DEF DateInv
    <3>4. Counted' = Carried(led.day)'
      BY <1>1, <1>4, <3>1, <3>2, <3>3, PassNumbers DEF Carried, Waits
    <3>5. /\ nvsToday.date <= pending.date
          /\ nvsToday.date > nvsLife.through => nvsToday.total <= pending.total
          /\ nvsToday.date = led.day.date => nvsToday.total <= led.day.total
      BY <1>4, <3>1, PassNumbers DEF Current, Waits
    <3>6. Current(nvsToday)'
      BY <1>1, <3>2, <3>5, PassNumbers DEF Current, Waits
    <3>7. taken.save => Current(taken.day)'
      BY <1>1, <1>3, <1>4, <2>2, <3>2, PassNumbers DEF Current, Waits
    <3>8. PassTotal' = PassTotal
      BY <1>1, <1>3, <3>1, <3>2, PassNumbers DEF PassTotal, Found
    <3>9. NvsTotal' >= NvsTotal /\ NvsTotal' \in Int
      BY <1>1, <3>2, <3>5, PassNumbers DEF NvsTotal
    <3> QED
      BY <3>4, <3>6, <3>7, <3>8, <3>9
  <2> QED
    BY <2>1, <2>2
<1>7. CheckpointInv'
  BY <1>1, <1>3, <1>4, <1>5, <1>6 DEF CheckpointInv
<1>8. Saving' => Since(Counted - PassTotal, taken.at)'
  BY <1>1, <1>3, <1>5, <1>6 DEF RecentInv, Since
<1>9. PICK b \in 0..time :
          /\ Since(Counted - NvsTotal, b) /\ saved.at <= b
          /\ time - b < SaveInterval + age + (IF Saving THEN Period ELSE 0)
  BY <1>1 DEF RecentInv
<1>10. Since(Counted - NvsTotal', b)
  <2>1. Counted - NvsTotal' <= Counted - NvsTotal /\ MaxInterval \in Nat
    BY <1>6, PassNumbers, EnergyLimits
  <2> QED
    BY <1>2, <1>6, <1>9, <2>1, PassNumbers DEF Since
<1>11. \E c \in 0..time' :
          /\ Since(Counted - NvsTotal, c)'
          /\ IF ppc' = "apply" /\ taken'.save THEN taken'.at <= c ELSE saved'.at <= c
          /\ time' - c < SaveInterval + age' + (IF Saving' THEN Period ELSE 0)
  BY <1>1, <1>5, <1>9, <1>10 DEF Since
<1> QED
  BY <1>7, <1>8, <1>11 DEF RecentInv

(* A checkpoint that was written holds all up to the moment it was taken.  *)
LEMMA LossSave ==
    ASSUME EnergyInv, SpanInv, CheckpointInv, RecentInv, PersistSave
    PROVE  CheckpointInv' /\ RecentInv'
<1>1. /\ ppc = "save" /\ ppc' = "apply"
      /\ nvsToday' = IF taken.save THEN taken.day ELSE nvsToday
      /\ UNCHANGED <<time, led, saved, pending, nvsLife, taken, age, Counted>>
  BY DEF PersistSave, Counted
<1>2. time \in Nat /\ age \in Nat /\ taken.at \in Nat /\ SaveInterval \in Nat /\ SaveInterval > 0
  BY TimeNumbers, EnergyLimits
<1>3. ~Saving' /\ (Saving <=> taken.save)
  BY <1>1 DEF Saving
<1>4. /\ Counted' = Counted /\ Carried(led.day)' = Carried(led.day)
      /\ NvsTotal' = IF taken.save THEN PassTotal ELSE NvsTotal
      /\ Current(nvsToday)' = IF taken.save THEN Current(taken.day) ELSE Current(nvsToday)
  BY <1>1 DEF Carried, Current, Waits, NvsTotal, PassTotal, Found
<1>5. CheckpointInv'
  BY <1>1, <1>3, <1>4 DEF CheckpointInv
<1>6. CASE taken.save
  <2>1. taken.at + age = time
    BY <1>1 DEF SpanInv
  <2>2. taken.at \in 0..time /\ taken.at <= taken.at /\ time - taken.at < SaveInterval + age + 0
    BY <1>2, <2>1
  <2>3. Since(Counted - NvsTotal, taken.at)'
    BY <1>1, <1>3, <1>4, <1>6 DEF RecentInv, Since
  <2>4. \E c \in 0..time' :
          /\ Since(Counted - NvsTotal, c)'
          /\ IF ppc' = "apply" /\ taken'.save THEN taken'.at <= c ELSE saved'.at <= c
          /\ time' - c < SaveInterval + age' + (IF Saving' THEN Period ELSE 0)
    BY <1>1, <1>3, <1>6, <2>2, <2>3 DEF Since
  <2> QED
    BY <1>3, <1>5, <2>4 DEF RecentInv
<1>7. CASE ~taken.save
  <2>1. \E c \in 0..time' :
          /\ Since(Counted - NvsTotal, c)'
          /\ IF ppc' = "apply" /\ taken'.save THEN taken'.at <= c ELSE saved'.at <= c
          /\ time' - c < SaveInterval + age' + (IF Saving' THEN Period ELSE 0)
    BY <1>1, <1>3, <1>4, <1>7 DEF RecentInv, Since
  <2> QED
    BY <1>3, <1>5, <2>1 DEF RecentInv
<1> QED
  BY <1>6, <1>7

(* What persistEnergyLedger wrote is taken over.                           *)
LEMMA LossApply ==
    ASSUME EnergyInv, CheckpointInv, RecentInv, PersistApply
    PROVE  CheckpointInv' /\ RecentInv'
<1>1. /\ ppc = "apply" /\ ppc' = "idle"
      /\ UNCHANGED <<time, led, nvsToday, nvsLife, age, Counted>>
      /\ pending' = IF taken.closed # NoDay THEN NoDay ELSE pending
      /\ saved' = IF taken.save THEN [day |-> taken.day, at |-> taken.at] ELSE saved
  BY DEF PersistApply, Counted
<1>2. LedgerTypeOK /\ TakenInv
  BY TimeNumbers
<1>3. ~Saving /\ ~Saving'
  BY <1>1 DEF Saving
<1>4. /\ Carried(led.day)' = Carried(led.day) /\ (Current(nvsToday) => Current(nvsToday)')
  <2>1. CASE taken.closed # NoDay
    <3>1. pending.date <= nvsLife.through /\ pending' = NoDay
      BY <1>1, <1>2, <2>1 DEF TakenInv
    <3> QED
      BY <1>1, <3>1, PassNumbers DEF Carried, Current, Waits
  <2>2. CASE taken.closed = NoDay
    BY <1>1, <2>2 DEF Carried, Current, Waits
  <2> QED
    BY <2>1, <2>2
<1>5. saved'.day = nvsToday /\ saved'.at = IF taken.save THEN taken.at ELSE saved.at
  BY <1>1 DEF CheckpointInv
<1>6. CheckpointInv'
  BY <1>1, <1>3, <1>4, <1>5 DEF CheckpointInv
<1>7. \E c \in 0..time' :
          /\ Since(Counted - NvsTotal, c)'
          /\ IF ppc' = "apply" /\ taken'.save THEN taken'.at <= c ELSE saved'.at <= c
          /\ time' - c < SaveInterval + age' + (IF Saving' THEN Period ELSE 0)
  BY <1>1, <1>3, <1>5 DEF RecentInv, Since, NvsTotal
<1> QED
  BY <1>3, <1>6, <1>7 DEF RecentInv

(* Time passes for the checkpoint and for the recorder alike.              *)
LEMMA LossTick ==
    ASSUME EnergyInv, CheckpointInv, RecentInv, EnergyTick
    PROVE  CheckpointInv' /\ RecentInv'
<1>1. /\ time' = time + 1 /\ age' = age + 1
      /\ UNCHANGED <<led, saved, pending, nvsToday, nvsLife, ppc, taken, Counted>>
  BY DEF EnergyTick, Counted
<1>2. time \in Nat /\ age \in Nat /\ SaveInterval \in Nat /\ Period \in Nat
  BY TimeNumbers, EnergyLimits
<1>3. CheckpointInv'
  BY <1>1 DEF CheckpointInv, Carried, Current, Waits, Saving
<1>4. /\ NvsTotal' = NvsTotal /\ PassTotal' = PassTotal /\ (Saving' <=> Saving)
  BY <1>1 DEF NvsTotal, PassTotal, Found, Saving
<1>5. Saving' => Since(Counted - PassTotal, taken.at)'
  BY <1>1, <1>4 DEF RecentInv, Since
<1>6. PICK b \in 0..time :
          /\ Since(Counted - NvsTotal, b)
          /\ IF ppc = "apply" /\ taken.save THEN taken.at <= b ELSE saved.at <= b
          /\ time - b < SaveInterval + age + (IF Saving THEN Period ELSE 0)
  BY DEF RecentInv
<1>7. b \in 0..time + 1 /\ (time + 1) - b < SaveInterval + (age + 1) + (IF Saving THEN Period ELSE 0)
  BY <1>2, <1>6
<1>8. \E c \in 0..time' :
          /\ Since(Counted - NvsTotal, c)'
          /\ IF ppc' = "apply" /\ taken'.save THEN taken'.at <= c ELSE saved'.at <= c
          /\ time' - c < SaveInterval + age' + (IF Saving' THEN Period ELSE 0)
  BY <1>1, <1>4, <1>6, <1>7 DEF Since
<1> QED
  BY <1>3, <1>5, <1>8 DEF RecentInv

-----------------------------------------------------------------------------
(* What an unplanned reset loses                                           *)

(* An empty NVS and a ledger that is not loaded.                           *)
LEMMA LossStart == LedgerInit => LossInv
<1> SUFFICES ASSUME LedgerInit PROVE LossInv
  OBVIOUS
<1>1. /\ ~loaded /\ booked = 0 /\ wasted = 0 /\ saved = [day |-> NoDay, at |-> 0] /\ led = NoLed
      /\ nvsToday = NoDay /\ nvsLife = [through |-> 0, total |-> 0] /\ taken = NoCopy /\ ppc = "idle"
      /\ time = FirstTime /\ zone \in Zones
  BY DEF LedgerInit
<1>2. booked = NvsTotal /\ saved.at = 0 /\ saved.day = NoDay
  BY <1>1 DEF NvsTotal, NoDay
<1>3. DateAt(time, zone) \in Nat /\ DateAt(time, zone) > 0
  BY <1>1, LocalDay, EnergyLimits
<1>4. /\ ~led.open /\ led.day = NoDay /\ taken.day = NoDay /\ NoDay.date = 0
  BY <1>1 DEF NoLed, NoCopy, NoDay
<1>5. SpanInv
  BY <1>1, <1>3, <1>4, EnergyLimits DEF SpanInv, OffsetOK
<1> QED
  BY <1>1, <1>2, <1>5 DEF LossInv

(* What is needed once the ledger is loaded.                               *)
LEMMA LossKept ==
    ASSUME EnergyInv, EnergyInv', LossInv, LedgerNext, loaded', ~failed', changes' = 0
    PROVE  CheckpointInv' /\ RecentInv'
<1>1. TakenInv /\ LedgerTypeOK
  BY TimeNumbers
<1>2. changes = 0 /\ ~ClockChange /\ ~LedgerFault /\ ~EnergyRestart /\ ~failed
  <2>1. ~LedgerFault /\ ~EnergyRestart
    BY DEF LedgerFault, CommitFails, SaveFails, PersistUnapplied, PersistMissed, EnergyRestart
  <2>2. ~ClockChange
    <3>1. changes \in Nat /\ (ClockChange => changes' = changes + 1)
      <4>1. changes \in 0..MaxZones
        BY <1>1 DEF LedgerTypeOK
      <4>2. ClockChange => changes' = changes + 1
        BY DEF ClockChange, ChangeZone, SetClockBack
      <4> QED
        BY <4>1, <4>2, EnergyLimits
    <3> QED
      BY <3>1
  <2>3. LedgerStep
    BY <2>1, <2>2 DEF LedgerNext
  <2>4. changes' = changes
    BY <2>3 DEF LedgerStep, EnergyReading, PersistEnergy, PersistLoad, PersistCommit, PersistSave,
                PersistApply, EnergyTick
  <2>5. ~failed
    <3>1. ASSUME NEW on \in BOOLEAN, EnergyReading(on) PROVE ~failed
      BY <3>1 DEF EnergyReading
    <3>2. ASSUME \/ \E restart \in BOOLEAN : PersistEnergy(restart)
                 \/ PersistLoad \/ PersistCommit \/ PersistSave \/ PersistApply \/ EnergyTick
          PROVE ~failed
      BY <3>2 DEF PersistEnergy, PersistLoad, PersistCommit, PersistSave, PersistApply, EnergyTick
    <3> QED
      BY <2>3, <3>1, <3>2 DEF LedgerStep
  <2> QED
    BY <2>1, <2>2, <2>4, <2>5
<1>3. SpanInv /\ (loaded => CheckpointInv /\ RecentInv)
  BY <1>2 DEF LossInv
<1>4. ASSUME NEW on \in BOOLEAN, EnergyReading(on)
      PROVE  CheckpointInv' /\ RecentInv'
  <2>1. loaded
    BY <1>4 DEF EnergyReading
  <2> QED
    BY <1>3, <1>4, <2>1, CheckpointReading, RecentReading
<1>5. ASSUME NEW restart \in BOOLEAN, PersistEnergy(restart)
      PROVE  CheckpointInv' /\ RecentInv'
  <2>1. loaded
    BY <1>5 DEF PersistEnergy
  <2> QED
    BY <1>3, <1>5, <2>1, LossPersistEnergy
<1>6. CASE PersistLoad
  <2>1. ~loaded
    BY <1>6 DEF PersistLoad
  <2>2. Counted = NvsTotal
    BY <2>1, PassNumbers DEF LossInv, Counted
  <2> QED
    BY <1>6, <2>1, <2>2, LossLoad DEF LossInv
<1>7. CASE PersistCommit
  <2>1. loaded
    BY <1>1, <1>7 DEF PersistCommit, TakenInv
  <2> QED
    BY <1>3, <1>7, <2>1, LossCommit
<1>8. CASE PersistSave
  <2>1. loaded
    BY <1>1, <1>8 DEF PersistSave, TakenInv
  <2> QED
    BY <1>3, <1>8, <2>1, LossSave
<1>9. CASE PersistApply
  <2>1. loaded
    BY <1>1, <1>9 DEF PersistApply, TakenInv
  <2> QED
    BY <1>3, <1>9, <2>1, LossApply
<1>10. CASE EnergyTick
  <2>1. loaded
    BY <1>10 DEF EnergyTick
  <2> QED
    BY <1>3, <1>10, <2>1, LossTick
<1> QED
  BY <1>2, <1>4, <1>5, <1>6, <1>7, <1>8, <1>9, <1>10 DEF LedgerNext, LedgerStep

(* Every step keeps what bounds the loss.                                  *)
LEMMA LossStep == EnergyInv /\ EnergyInv' /\ LossInv /\ [LedgerNext]_ledgerVars => LossInv'
<1> SUFFICES ASSUME EnergyInv, EnergyInv', LossInv, [LedgerNext]_ledgerVars PROVE LossInv'
  OBVIOUS
<1>1. CASE UNCHANGED ledgerVars
  BY <1>1 DEF ledgerVars, LossInv, NvsTotal, SpanInv, OffsetOK, OpenSpan, Overrun, DateAt, Midnight,
              Ahead, CheckpointInv, Counted, Carried, Waits, Current, Saving, RecentInv, PassTotal,
              Found, Since
<1>2. CASE LedgerNext
  <2>1. TakenInv /\ LedgerTypeOK
    BY TimeNumbers
  <2>2. ~loaded' => booked' = NvsTotal' /\ wasted' = 0 /\ saved'.at = 0 /\ saved'.day = NoDay
    <3>1. CASE EnergyRestart
      BY <3>1 DEF EnergyRestart, NvsTotal
    <3>2. CASE EnergyTick \/ ClockChange \/ PersistMissed
      BY <3>2 DEF EnergyTick, ClockChange, ChangeZone, SetClockBack, PersistMissed, NvsTotal, LossInv
    <3>3. CASE \/ CommitFails \/ SaveFails \/ PersistUnapplied
               \/ PersistCommit \/ PersistSave \/ PersistApply
      BY <2>1, <3>3 DEF CommitFails, SaveFails, PersistUnapplied, PersistCommit, PersistSave,
                        PersistApply, TakenInv
    <3>4. CASE \/ PersistLoad \/ \E restart \in BOOLEAN : PersistEnergy(restart)
               \/ \E on \in BOOLEAN : EnergyReading(on)
      BY <3>4 DEF PersistLoad, PersistEnergy, EnergyReading
    <3> QED
      BY <1>2, <3>1, <3>2, <3>3, <3>4 DEF LedgerNext, LedgerStep, LedgerFault
  <2>3. changes' = 0 => SpanInv'
    <3> SUFFICES ASSUME changes' = 0 PROVE SpanInv'
      OBVIOUS
    <3>1. ~ClockChange
      BY <2>1 DEF LedgerTypeOK, ClockChange, ChangeZone, SetClockBack
    <3>2. changes' = changes
      BY <1>2, <3>1 DEF LedgerNext, LedgerStep, EnergyReading, PersistEnergy, PersistLoad,
         PersistCommit, PersistSave, PersistApply, EnergyTick, LedgerFault, CommitFails, SaveFails,
         PersistUnapplied, PersistMissed, EnergyRestart
    <3>3. SpanInv
      BY <3>2 DEF LossInv
    <3>4. CASE PersistLoad
      <4>1. wasted = 0
        BY <3>4 DEF PersistLoad, LossInv
      <4> QED
        BY <3>3, <3>4, <4>1, SpanLoad
    <3> QED
      BY <1>2, <3>1, <3>3, <3>4, SpanReading, SpanPersist, SpanTick DEF LedgerNext, LedgerStep
  <2>4. loaded' /\ ~failed' /\ changes' = 0 => CheckpointInv' /\ RecentInv'
    BY <1>2, LossKept
  <2> QED
    BY <2>2, <2>3, <2>4 DEF LossInv
<1> QED
  BY <1>1, <1>2

(* What was booked and is not in NVS was booked after a moment that is not *)
(* too long ago.                                                           *)
LEMMA RecentIsBounded == EnergyInv /\ LossInv => LossBounded
<1> SUFFICES ASSUME EnergyInv, LossInv, ~failed, changes = 0
             PROVE  Counted - NvsTotal < SaveInterval + 2 * Period + MaxInterval
  BY DEF LossBounded, LossInv, SpanInv
<1>1. /\ SaveInterval \in Nat /\ SaveInterval > 0 /\ Period \in Nat /\ MaxInterval \in Nat
  BY EnergyLimits
<1>2. /\ time \in Nat /\ age \in Nat /\ age <= Period /\ led.prev \in Int /\ led.prev <= time
  <2>1. ~led.open => led.prev = -1
    BY TimeNumbers DEF DateInv, NoLed
  <2>2. led.open => led.prev <= time
    BY DEF LossInv, SpanInv, OpenSpan
  <2> QED
    BY TimeNumbers, <2>1, <2>2
<1>3. Counted \in Int /\ NvsTotal \in Int
  BY PassNumbers
<1>4. CASE ~loaded
  BY <1>1, <1>3, <1>4, PassNumbers DEF LossInv, Counted
<1>5. CASE loaded
  <2>1. PICK b \in 0..time :
          /\ Since(Counted - NvsTotal, b)
          /\ time - b < SaveInterval + age + (IF Saving THEN Period ELSE 0)
    BY <1>5 DEF LossInv, RecentInv
  <2>2. time - b < SaveInterval + 2 * Period
    BY <1>1, <1>2, <2>1
  <2>3. CASE Counted - NvsTotal <= 0
    BY <1>1, <1>3, <2>3
  <2>4. CASE Counted - NvsTotal <= MaxInterval + led.prev - b
    BY <1>1, <1>2, <1>3, <2>2, <2>4
  <2> QED
    BY <2>1, <2>3, <2>4 DEF Since
<1> QED
  BY <1>4, <1>5

(* energy_store.h promises that an unplanned reset loses at most what was  *)
(* booked since the last checkpoint: with writes that succeed and a clock  *)
(* that nobody changes, that is less than the save interval, two periods   *)
(* of the recorder and one interval between readings; and when summer time *)
(* begins, what a restored day that was already committed is open too      *)
(* long, an hour.  For every length of the day and of the hour, wherever   *)
(* summer time begins and ends, every interval and number of starts.       *)
THEOREM LossIsBounded == LedgerSpec => []LossBounded
<1>1. LedgerInit => LossInv
  BY LossStart
<1>2. EnergyInv /\ EnergyInv' /\ LossInv /\ [LedgerNext]_ledgerVars => LossInv'
  BY LossStep
<1>3. EnergyInv /\ LossInv => LossBounded
  BY RecentIsBounded
<1> QED
  BY <1>1, <1>2, <1>3, EnergyInvariant, PTL DEF LedgerSpec

-----------------------------------------------------------------------------
(* The two ledgers together                                                *)

(* A step of the two ledgers is a step of one, and leaves the other alone. *)
LEMMA LedgersStep == [LedgersNext]_allVars => [RunNext]_vars /\ [LedgerNext]_ledgerVars
<1>1. CASE part = "runs" /\ Listings /\ UNCHANGED <<part, ledgerVars>>
  BY <1>1 DEF Listings, RunNext
<1>6. CASE part = "shifts" /\ Shifts /\ UNCHANGED <<part, ledgerVars>>
  BY <1>6 DEF Shifts
<1>2. CASE part = "crash" /\ Crash /\ UNCHANGED <<part, vars>>
  BY <1>2 DEF Crash, LedgerNext
<1>3. CASE part = "faults" /\ Faults /\ UNCHANGED <<part, vars>>
  BY <1>3 DEF Faults, LedgerNext
<1>4. CASE part = "zones" /\ Zoned /\ UNCHANGED <<part, vars>>
  BY <1>4 DEF Zoned, LedgerNext
<1>5. CASE UNCHANGED allVars
  BY <1>5 DEF allVars
<1> QED BY <1>1, <1>2, <1>3, <1>4, <1>5, <1>6 DEF LedgersNext

(* The two ledgers of the heat pump controller side by side behave as each *)
(* does alone.                                                             *)
THEOREM LedgersAreBoth == LedgersSpec => RunSpec /\ LedgerSpec
<1>1. LedgersInit => RunInit /\ LedgerInit
  BY DEF LedgersInit
<1> QED BY <1>1, LedgersStep, PTL DEF LedgersSpec, RunSpec, LedgerSpec

(* What is stored of a run only grows, a listing misses no run it could    *)
(* have seen, and the energy total that getEnergyTotals reports never      *)
(* falls while the device runs.                                            *)
THEOREM LedgersOnlyGrow == LedgersSpec => LedgersGrow
BY LedgersAreBoth, StoredRunsGrow, ListingsMissNone, ReportedNeverFalls, PTL DEF LedgersGrow
=============================================================================
