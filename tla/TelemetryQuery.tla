--------------------------- MODULE TelemetryQuery ---------------------------
(***************************************************************************)
(* history_storage_query_telemetry: one pass over the sectors in the order *)
(* of the flash, keeping the newest samples that fit the caller's buffer,  *)
(* and a sort at the end.                                                  *)
(***************************************************************************)
EXTENDS TelemetryJournal, Sequences, FiniteSets

CONSTANT MaxCapacity    \* bound on the caller's buffer

ASSUME CapacityAssumption == MaxCapacity \in Nat

(* telemetry_sample_compare                                                *)
Before(a, b) == a.ts < b.ts \/ (a.ts = b.ts /\ a.seq < b.seq)

(* Index of the first of the oldest samples in the buffer.                 *)
Oldest(buf) ==
    CHOOSE i \in DOMAIN buf :
        /\ \A j \in DOMAIN buf : ~Before(buf[j], buf[i])
        /\ \A j \in 1..(i - 1) : Before(buf[i], buf[j])

(* Mutant: a full buffer takes nothing more.                               *)
CollectFirst(buf, r, cap) == IF Len(buf) < cap THEN Append(buf, r) ELSE buf

(* The next sample of the pass: it takes a free place or that of the       *)
(* oldest sample.                                                          *)
Collect(buf, r, cap) ==
    IF Len(buf) < cap THEN Append(buf, r)
    ELSE IF Before(buf[Oldest(buf)], r) THEN [buf EXCEPT ![Oldest(buf)] = r]
    ELSE buf

(* Slot n of the pass.                                                     *)
SlotAt(n) == rec[n \div Most][n % Most]

InRange(n, start, end) ==
    /\ SlotAt(n) \in Samples(n \div Most) /\ (n % Most) \in SlotsIn(n \div Most)
    /\ SlotAt(n).ts >= start /\ SlotAt(n).ts < end

(* The buffer after the pass.                                              *)
Collected(start, end, cap) ==
    LET Pass[n \in 0..(Sectors * Most)] ==
            IF n = 0 THEN <<>>
            ELSE IF InRange(n - 1, start, end) THEN Collect(Pass[n - 1], SlotAt(n - 1), cap)
            ELSE Pass[n - 1]
    IN Pass[Sectors * Most]

(* qsort: an order of the places of the buffer in which no sample comes    *)
(* before an older one.                                                    *)
Sorting(buf) ==
    CHOOSE p \in [DOMAIN buf -> DOMAIN buf] :
        /\ \A k \in DOMAIN buf : \E i \in DOMAIN buf : p[i] = k
        /\ \A i, j \in DOMAIN buf : i < j => ~Before(buf[p[j]], buf[p[i]])

Sorted(buf) == [i \in DOMAIN buf |-> buf[Sorting(buf)[i]]]

Query(start, end, cap) == Sorted(Collected(start, end, cap))

(* A query returns, in order of time, the newest samples of the range that *)
(* fit the buffer: none is missing while an older one is reported.         *)
QueryNewest ==
    pc = "idle" =>
        \A start \in 0..MaxTime, end \in 1..(MaxTime + 1), cap \in 1..MaxCapacity :
            start < end =>
                LET got == Query(start, end, cap)
                    all == {n \in 0..(Sectors * Most - 1) : InRange(n, start, end)}
                IN /\ Len(got) = IF Cardinality(all) < cap THEN Cardinality(all) ELSE cap
                   /\ \A i \in 1..(Len(got) - 1) : ~Before(got[i + 1], got[i])
                   /\ \A n \in all :
                        SlotAt(n) \in {got[i] : i \in DOMAIN got} \/ ~Before(got[1], SlotAt(n))
=============================================================================
