--------------------------- MODULE TelemetryProofs ---------------------------
(***************************************************************************)
(* Proofs about the telemetry journal, for any ring of two sectors or      *)
(* more, sectors of any size in either format and any number of failures,  *)
(* losses of power and runs of older firmware: the position the program    *)
(* recovers fits the flash, the newest acknowledged sample is kept,        *)
(* sequence numbers follow time, and the journal implements SampleLog.     *)
(*                                                                         *)
(* Four invariants, each on top of the ones before: RingInv says where the *)
(* program is in the ring, NewestInv where the newest acknowledged sample  *)
(* is, SequenceInv how samples are numbered, and OrderInv that the samples *)
(* are in order around the ring, so that a rotation takes the oldest ones. *)
(***************************************************************************)
EXTENDS TelemetryQuery, WellFoundedInduction, FiniteSetTheorems, TLAPS

-----------------------------------------------------------------------------
(* Induction over numbers                                                  *)

(* A set of numbers that is not empty has a least element.                 *)
LEMMA LeastNumber ==
  ASSUME NEW T \in SUBSET Nat, T # {}
  PROVE  \E m \in T : \A k \in T : m <= k
<1> DEFINE R == {p \in Nat \X Nat : p[1] < p[2]}
<1>1. IsWellFoundedOn(R, Nat)
  BY NatLessThanWellFounded DEF OpToRel
<1>2. PICK x \in T : \A y \in T : ~ (<<y, x>> \in R)
  <2> HIDE DEF R
  <2> QED BY <1>1, WFMin, Zenon
<1>3. \A y \in T : y < x => <<y, x>> \in R
  OBVIOUS
<1> HIDE DEF R
<1>4. \A y \in T : ~(y < x)
  BY <1>2, <1>3
<1> QED BY <1>4

(* What holds of 0 and passes from each number to the next holds up to N.  *)
LEMMA UpTo ==
  ASSUME NEW N \in Nat, NEW S, 0 \in S,
         \A n \in 0..N : n < N /\ n \in S => (n + 1) \in S
  PROVE  0..N \subseteq S
<1> DEFINE T == {n \in 0..N : n \notin S}
<1> SUFFICES ASSUME T # {} PROVE FALSE
  OBVIOUS
<1>1. T \in SUBSET Nat
  OBVIOUS
<1>2. PICK m \in T : \A k \in T : m <= k
  BY <1>1, LeastNumber
<1>3. m \in Nat /\ m # 0 /\ m <= N /\ m \notin S
  OBVIOUS
<1>4. m - 1 \in 0..N /\ m - 1 < N /\ (m - 1) + 1 = m
  BY <1>3
<1>5. m - 1 \in S
  BY <1>2, <1>4
<1> QED BY <1>3, <1>4, <1>5

(* A bounded set of numbers that is not empty has a greatest element.      *)
LEMMA GreatestNumber ==
  ASSUME NEW T \in SUBSET Nat, T # {}, NEW B \in Nat, \A k \in T : k <= B
  PROVE  \E m \in T : \A k \in T : k <= m
<1> DEFINE D == {B - k : k \in T}
<1>1. D \in SUBSET Nat /\ D # {}
  <2>1. \A k \in T : k \in Nat /\ k <= B /\ B - k \in Nat
    OBVIOUS
  <2> QED BY <2>1
<1>2. PICK d \in D : \A e \in D : d <= e
  BY <1>1, LeastNumber
<1>3. PICK m \in T : d = B - m
  OBVIOUS
<1>4. ASSUME NEW k \in T PROVE k <= m
  <2>1. B - k \in D
    OBVIOUS
  <2>2. B - m <= B - k /\ k \in Nat /\ m \in Nat
    BY <1>2, <1>3, <2>1
  <2> QED BY <2>2
<1> QED BY <1>4

(* Finitely many numbers have a bound.                                     *)
LEMMA Bounded ==
  ASSUME NEW N \in Nat, NEW f, \A i \in 0..N : f[i] \in Nat
  PROVE  \E B \in Nat : \A i \in 0..N : f[i] <= B
<1> DEFINE S == {n \in 0..N : \E B \in Nat : \A i \in 0..n : f[i] <= B}
<1>1. 0 \in S
  <2>1. \A i \in 0..0 : f[i] <= f[0] /\ f[0] \in Nat
    OBVIOUS
  <2> QED BY <2>1
<1>2. ASSUME NEW n \in 0..N, n < N, n \in S PROVE (n + 1) \in S
  <2>1. PICK B \in Nat : \A i \in 0..n : f[i] <= B
    BY <1>2
  <2>2. n + 1 \in 0..N /\ f[n + 1] \in Nat
    BY <1>2
  <2>3. B + f[n + 1] \in Nat
    BY <2>2
  <2>4. ASSUME NEW i \in 0..(n + 1) PROVE f[i] <= B + f[n + 1]
    <3>1. i \in 0..n \/ i = n + 1
      OBVIOUS
    <3>2. i \in 0..N
      BY <1>2
    <3> QED BY <2>1, <2>2, <3>1, <3>2
  <2> QED BY <2>2, <2>3, <2>4
<1> HIDE DEF S
<1>3. 0..N \subseteq S
  BY <1>1, <1>2, UpTo
<1>4. N \in S
  BY <1>3
<1> QED BY <1>4 DEF S

(* f[n] is h of f[n - 1] and n; h stays in V.                              *)
Computes(f, N, V, base, h) ==
    /\ f \in [0..N -> V] /\ f[0] = base
    /\ \A n \in 1..N : f[n] = h[<<f[n - 1], n>>]

(* What h computes stays in V.                                             *)
StaysIn(N, V, base, h) == base \in V /\ \A v \in V, n \in 1..N : h[<<v, n>>] \in V

(* A value for each number up to N can be computed from the one before it. *)
LEMMA Recursion ==
  ASSUME NEW N \in Nat, NEW V, NEW base, NEW h, StaysIn(N, V, base, h)
  PROVE  \E f : Computes(f, N, V, base, h)
<1> base \in V /\ \A v \in V, n \in 1..N : h[<<v, n>>] \in V
  BY DEF StaysIn
<1> DEFINE Good(f, m) == f[0] = base /\ \A n \in 1..m : f[n] = h[<<f[n - 1], n>>]
           S == {m \in 0..N : \E f \in [0..m -> V] : Good(f, m)}
<1>1. 0 \in S
  <2> DEFINE g == [i \in 0..0 |-> base]
  <2>1. g \in [0..0 -> V] /\ Good(g, 0)
    OBVIOUS
  <2> HIDE DEF g, Good
  <2> QED BY <2>1
<1>2. ASSUME NEW m \in 0..N, m < N, m \in S PROVE (m + 1) \in S
  <2>1. PICK f \in [0..m -> V] : Good(f, m)
    BY <1>2
  <2> DEFINE g == [i \in 0..(m + 1) |-> IF i = m + 1 THEN h[<<f[m], m + 1>>] ELSE f[i]]
  <2>2. m + 1 \in 1..N /\ f[m] \in V
    BY <1>2
  <2>3. h[<<f[m], m + 1>>] \in V
    BY <2>2
  <2>4. g \in [0..(m + 1) -> V]
    BY <2>3
  <2>5. g[0] = base
    BY <2>1
  <2>6. ASSUME NEW n \in 1..(m + 1) PROVE g[n] = h[<<g[n - 1], n>>]
    <3>1. CASE n = m + 1
      <4>1. n - 1 = m /\ m \in 0..(m + 1) /\ m # m + 1
        BY <3>1
      <4>2. g[n] = h[<<f[m], m + 1>>] /\ g[n - 1] = f[m]
        BY <3>1, <4>1
      <4> QED BY <3>1, <4>2
    <3>2. CASE n # m + 1
      <4>1. n \in 1..m /\ n - 1 \in 0..m
        BY <3>2
      <4>2. g[n] = f[n] /\ g[n - 1] = f[n - 1]
        BY <4>1
      <4> QED BY <4>1, <4>2, <2>1
    <3> QED BY <3>1, <3>2
  <2>7. Good(g, m + 1)
    BY <2>5, <2>6
  <2> HIDE DEF g, Good
  <2> QED BY <2>2, <2>4, <2>7
<1> HIDE DEF S
<1>3. 0..N \subseteq S
  BY <1>1, <1>2, UpTo
<1>4. N \in S
  BY <1>3
<1>5. PICK f \in [0..N -> V] : Good(f, N)
  BY <1>4 DEF S
<1> QED BY <1>5 DEF Computes

-----------------------------------------------------------------------------
(* What the scan of the flash returns                                      *)

(* The time stamps that can be read from sector s.                         *)
TS(s) == {r.ts : r \in Samples(s)}

(* MaxOf is the maximum of a bounded set, and 0 for the empty one.         *)
LEMMA MaxOfFact ==
  ASSUME NEW S \in SUBSET Nat, NEW B \in Nat, \A k \in S : k <= B
  PROVE  /\ MaxOf(S) \in S \union {0} /\ MaxOf(S) \in Nat
         /\ \A k \in S : k <= MaxOf(S)
<1>1. \E m \in S \union {0} : \A k \in S : k <= m
  <2>1. CASE S = {}
    BY <2>1
  <2>2. CASE S # {}
    <3>1. \E m \in S : \A k \in S : k <= m
      BY <2>2, GreatestNumber
    <3> QED BY <3>1
  <2> QED BY <2>1, <2>2
<1>2. MaxOf(S) \in S \union {0} /\ \A k \in S : k <= MaxOf(S)
  BY <1>1, Zenon DEF MaxOf
<1>3. S \union {0} \subseteq Nat
  OBVIOUS
<1> QED BY <1>2, <1>3, Zenon

(* The parameters of the ring.                                             *)
LEMMA RingFacts ==
  /\ Sectors \in Nat /\ Sectors >= 2 /\ Slots \in Nat /\ Slots >= 1
  /\ OldSlots \in Nat /\ OldSlots >= 1
  /\ Most \in Nat /\ Slots <= Most /\ OldSlots <= Most
  /\ MaxTime \in Nat /\ GenMod \in Nat /\ GenMod > 1
  /\ 0 \in Ring /\ Ring \subseteq Nat /\ \A s \in Ring : s < Sectors
  /\ Slots - 1 \in Places /\ 0 \in Places /\ Places \subseteq Nat
  /\ Places = 0..(Most - 1) /\ 0..(Slots - 1) \subseteq Places /\ 0..(OldSlots - 1) \subseteq Places
<1>1. Most \in Nat /\ Most >= 1 /\ Slots <= Most /\ OldSlots <= Most
  BY TelemetryAssumption DEF Most
<1>2. Places = 0..(Most - 1)
  BY DEF Places
<1> QED BY <1>1, <1>2, TelemetryAssumption DEF Ring

(* Positions in a sector.                                                  *)
LEMMA PlaceFacts == 0 \in 0..Most /\ 0 \in 0..Slots /\ 0..Slots \subseteq 0..Most /\ 0..Most \subseteq Nat
BY RingFacts

(* Multiples of the size of a sector, for leaves of linear arithmetic.     *)
LEMMA RowLimitFact ==
  /\ RowLimit \in Nat /\ RowLimit >= 1
  /\ \A g \in Nat : g * Slots \in Nat /\ (g * Slots < RowLimit => g < Sectors - 1)
<1>1. Sectors - 1 \in Nat /\ Sectors - 1 >= 1 /\ Slots \in Nat /\ Slots >= 1
  BY RingFacts
<1>2. \A g \in Nat, h \in Nat : g * Slots \in Nat /\ (h <= g => h * Slots <= g * Slots)
  BY <1>1, SMT
<1>3. 1 * Slots = Slots
  BY <1>1
<1>4. RowLimit \in Nat /\ Slots <= RowLimit
  BY <1>1, <1>2, <1>3 DEF RowLimit
<1>5. ASSUME NEW g \in Nat, g * Slots < RowLimit PROVE g < Sectors - 1
  <2>1. Sectors - 1 <= g => RowLimit <= g * Slots
    BY <1>1, <1>2 DEF RowLimit
  <2>2. g * Slots \in Nat
    BY <1>2
  <2> QED BY <1>1, <1>4, <1>5, <2>1, <2>2
<1> QED BY <1>1, <1>2, <1>4, <1>5

(* The numbers of a well-typed journal are numbers.                        *)
LEMMA NumberFacts ==
  ASSUME TelemetryTypeOK
  PROVE  /\ failRow \in Nat /\ nextSlot \in Nat /\ lastTs \in Nat /\ want \in Nat
         /\ nextSeq \in Nat /\ nextSeq # 0 /\ old \in Nat
<1>1. failRow \in 0..RowLimit /\ nextSlot \in 0..Most
  BY DEF TelemetryTypeOK
<1>2. 0..RowLimit \subseteq Nat /\ Times \subseteq Nat
  BY RowLimitFact, RingFacts DEF Times
<1>3. /\ lastTs \in Times \union {0} /\ want \in Times \union {0}
      /\ nextSeq \in Nat \ {0} /\ {faults, cuts, old} \subseteq Nat
  BY DEF TelemetryTypeOK
<1> QED BY <1>1, <1>2, <1>3, PlaceFacts

(* Samples are neither erased nor torn slots.                              *)
LEMMA SlotKinds ==
  Erased # Torn /\ Erased \notin Records /\ Torn \notin Records
<1>1. Erased.ts = 0 /\ Torn.ts = -1
  BY DEF Erased, Torn
<1>2. \A r \in Records : r.ts \in Times
  BY DEF Records
<1>3. 0 \notin Times /\ -1 \notin Times
  BY RingFacts DEF Times
<1> QED BY <1>1, <1>2, <1>3

(* The next sector is another one of the ring.                             *)
LEMMA NextSectorFact ==
  ASSUME NEW s \in Ring
  PROVE  /\ NextSector(s) \in Ring /\ NextSector(s) # s
         /\ NextSector(s) = IF s + 1 = Sectors THEN 0 ELSE s + 1
<1>1. s \in Nat /\ s < Sectors /\ Sectors \in Nat /\ Sectors >= 2
  BY RingFacts
<1>2. CASE s + 1 = Sectors
  <2>1. (s + 1) % Sectors = 0
    BY <1>1, <1>2
  <2> QED BY <1>1, <1>2, <2>1 DEF NextSector, Ring
<1>3. CASE s + 1 # Sectors
  <2>1. s + 1 \in 0..(Sectors - 1)
    BY <1>1, <1>3
  <2>2. (s + 1) % Sectors = s + 1
    BY <1>1, <2>1
  <2> QED BY <1>1, <1>3, <2>1, <2>2 DEF NextSector, Ring
<1> QED BY <1>2, <1>3

(* Two sectors with the same successor are the same.                       *)
LEMMA NextSectorInjective ==
  ASSUME NEW s1 \in Ring, NEW s2 \in Ring, NextSector(s1) = NextSector(s2)
  PROVE  s1 = s2
BY NextSectorFact, RingFacts

(* Generations stay in their range.                                        *)
LEMMA NextGenerationType ==
  ASSUME NEW g \in 0..(GenMod - 1)
  PROVE  NextGeneration(g) \in 0..(GenMod - 1)
<1>1. g + 1 \in Int /\ GenMod \in Nat /\ GenMod > 1
  BY RingFacts
<1>2. (g + 1) % GenMod \in 0..(GenMod - 1)
  BY <1>1
<1> QED BY <1>1, <1>2 DEF NextGeneration

(* Each slot of a sector is erased, torn or a record.                      *)
LEMMA SlotType ==
  ASSUME TelemetryTypeOK, NEW s \in Ring
  PROVE  /\ rec[s] \in [Places -> Records \union {Erased, Torn}]
         /\ \A k \in Places : rec[s][k] \in Records \union {Erased, Torn}
         /\ SlotsIn(s) \subseteq Places
         /\ hdr[s].fmt # "v1" => SlotsIn(s) = 0..(Slots - 1)
         /\ hdr[s].gen \in 0..(GenMod - 1) /\ hdr[s].first \in Nat
<1>1. rec[s] \in [Places -> Records \union {Erased, Torn}]
  BY DEF TelemetryTypeOK
<1>2. SlotsIn(s) \subseteq Places
  BY RingFacts DEF SlotsIn
<1>3. hdr[s] \in [fmt : {"none", "half", "v1", "v2"}, gen : 0..(GenMod - 1), first : Nat]
  BY DEF TelemetryTypeOK
<1>4. hdr[s].gen \in 0..(GenMod - 1) /\ hdr[s].first \in Nat
  BY <1>3
<1>5. hdr[s].fmt # "v1" => SlotsIn(s) = 0..(Slots - 1)
  BY DEF SlotsIn
<1> QED BY <1>1, <1>2, <1>4, <1>5

(* What can be read from a sector: its records, under a valid header.      *)
LEMMA SamplesFact ==
  ASSUME TelemetryTypeOK, NEW s \in Ring
  PROVE  /\ Samples(s) \subseteq Records
         /\ \A r \in Samples(s) : r.ts \in Times /\ r.seq \in Nat \ {0}
         /\ TS(s) \subseteq Times
         /\ ~Readable(s) => Samples(s) = {}
<1>1. Samples(s) \subseteq Records
  BY SlotType DEF Samples
<1>2. \A r \in Records : r.ts \in Times /\ r.seq \in Nat \ {0}
  BY DEF Records
<1>3. \A r \in Samples(s) : r.ts \in Times /\ r.seq \in Nat \ {0}
  BY <1>1, <1>2
<1>4. ~Readable(s) => Samples(s) = {}
  BY DEF Samples
<1> QED BY <1>1, <1>3, <1>4 DEF TS

(* What can be read at all.                                                *)
LEMMA KeptFact ==
  ASSUME TelemetryTypeOK
  PROVE  /\ Kept \subseteq Times
         /\ \A t : t \in Kept <=> \E s \in Ring : t \in TS(s)
         /\ \A r \in AllSamples : r.ts \in Kept /\ r.seq \in Nat \ {0}
<1>1. \A r : r \in AllSamples <=> \E s \in Ring : r \in Samples(s)
  BY DEF AllSamples
<1>2. \A t : t \in Kept <=> \E s \in Ring : t \in TS(s)
  BY <1>1 DEF Kept, TS
<1>3. \A r \in AllSamples : r.ts \in Kept
  BY DEF Kept
<1>4. \A r \in AllSamples : r.seq \in Nat \ {0}
  BY <1>1, SamplesFact
<1>5. Kept \subseteq Times
  BY <1>2, SamplesFact
<1> QED BY <1>2, <1>3, <1>4, <1>5

(* The newest sample of a sector.                                          *)
LEMMA SectorNewestFact ==
  ASSUME TelemetryTypeOK, NEW s \in Ring
  PROVE  /\ SectorNewest(s) \in TS(s) \union {0} /\ SectorNewest(s) \in Nat
         /\ \A t \in TS(s) : t <= SectorNewest(s)
<1>1. TS(s) \in SUBSET Nat /\ \A t \in TS(s) : t <= MaxTime
  BY SamplesFact, RingFacts DEF Times
<1>2. SectorNewest(s) = MaxOf(TS(s))
  BY DEF SectorNewest, TS
<1> QED BY <1>1, <1>2, MaxOfFact, RingFacts

(* No slot at or after the free slot is programmed.                        *)
LEMMA FreeSlotFact ==
  ASSUME TelemetryTypeOK, NEW s \in Ring
  PROVE  /\ FreeSlot(s) \in 0..Most
         /\ hdr[s].fmt # "v1" => FreeSlot(s) \in 0..Slots
         /\ \A k \in SlotsIn(s) : k >= FreeSlot(s) => rec[s][k] = Erased
<1> DEFINE S == {k + 1 : k \in {j \in SlotsIn(s) : rec[s][j] # Erased}}
<1>1. PICK b \in Nat : b = IF hdr[s].fmt = "v1" THEN OldSlots ELSE Slots
  BY RingFacts
<1>2. SlotsIn(s) = 0..(b - 1) /\ b <= Most /\ Most \in Nat
  BY <1>1, RingFacts DEF SlotsIn
<1>3. \A k \in SlotsIn(s) : k \in Nat /\ k + 1 <= b
  BY <1>2
<1>4. S \in SUBSET Nat /\ \A k \in S : k <= b
  BY <1>3
<1>5. \A k \in SlotsIn(s) : rec[s][k] # Erased => k + 1 \in S
  OBVIOUS
<1>6. FreeSlot(s) = MaxOf(S)
  BY DEF FreeSlot
<1> HIDE DEF S
<1>7. FreeSlot(s) \in S \union {0} /\ FreeSlot(s) \in Nat /\ \A k \in S : k <= FreeSlot(s)
  BY <1>4, <1>6, MaxOfFact
<1>8. FreeSlot(s) \in 0..b
  BY <1>4, <1>7
<1>9. ASSUME NEW k \in SlotsIn(s), k >= FreeSlot(s), rec[s][k] # Erased PROVE FALSE
  <2>1. k + 1 <= FreeSlot(s)
    BY <1>5, <1>7, <1>9
  <2> QED BY <1>3, <1>7, <1>9, <2>1
<1> QED BY <1>1, <1>2, <1>8, <1>9

(* The last time stamp is that of the newest sample.                       *)
LEMMA LastTimestampFact ==
  ASSUME TelemetryTypeOK
  PROVE  /\ LastTimestamp \in Kept \union {0} /\ LastTimestamp \in Times \union {0}
         /\ LastTimestamp \in Nat /\ \A t \in Kept : t <= LastTimestamp
<1>1. Kept \in SUBSET Nat /\ \A t \in Kept : t <= MaxTime
  BY KeptFact, RingFacts DEF Times
<1>2. /\ LastTimestamp \in Kept \union {0} /\ LastTimestamp \in Nat
      /\ \A t \in Kept : t <= LastTimestamp
  BY <1>1, MaxOfFact, RingFacts DEF LastTimestamp
<1> QED BY <1>2, KeptFact

(* The next sequence number is above every one that can be read.           *)
LEMMA NextSequenceFact ==
  ASSUME TelemetryTypeOK
  PROVE  NextSequence \in Nat \ {0} /\ \A r \in AllSamples : r.seq < NextSequence
<1> DEFINE F == {hdr[s].first : s \in {s \in Ring : Readable(s)}}
           Q == {r.seq + 1 : r \in AllSamples}
           S == {1} \union F \union Q
<1>1. \A s \in Ring : \E b \in Nat : \A k \in Places : rec[s][k] \in Records => rec[s][k].seq <= b
  <2> SUFFICES ASSUME NEW s \in Ring
               PROVE  \E b \in Nat : \A k \in Places : rec[s][k] \in Records => rec[s][k].seq <= b
    OBVIOUS
  <2> DEFINE f == [k \in Places |-> IF rec[s][k] \in Records THEN rec[s][k].seq ELSE 0]
  <2>1. \A r \in Records : r.seq \in Nat
    BY DEF Records
  <2>2. \A k \in Places : f[k] \in Nat
    BY <2>1
  <2>3. Places = 0..(Most - 1) /\ Most - 1 \in Nat
    BY RingFacts
  <2> HIDE DEF f
  <2>4. PICK b \in Nat : \A k \in 0..(Most - 1) : f[k] <= b
    BY <2>2, <2>3, Bounded
  <2>5. \A k \in Places : rec[s][k] \in Records => rec[s][k].seq <= b
    BY <2>3, <2>4 DEF f
  <2> QED BY <2>5
<1>2. PICK B \in [Ring -> Nat] :
          \A s \in Ring : \A k \in Places : rec[s][k] \in Records => rec[s][k].seq <= B[s]
  <2> DEFINE P(s, b) == \A k \in Places : rec[s][k] \in Records => rec[s][k].seq <= b
             C == [s \in Ring |-> CHOOSE b \in Nat : P(s, b)]
  <2>1. \A s \in Ring : \E b \in Nat : P(s, b)
    BY <1>1
  <2> HIDE DEF P
  <2>2. \A s \in Ring : C[s] \in Nat /\ P(s, C[s])
    BY <2>1
  <2>3. C \in [Ring -> Nat]
    BY <2>2
  <2> HIDE DEF C
  <2>4. \A s \in Ring : \A k \in Places : rec[s][k] \in Records => rec[s][k].seq <= C[s]
    BY <2>2 DEF P
  <2> QED BY <2>3, <2>4
<1>3. Ring = 0..(Sectors - 1) /\ Sectors - 1 \in Nat
  BY RingFacts DEF Ring
<1>4. PICK b1 \in Nat : \A s \in Ring : B[s] <= b1
  BY <1>2, <1>3, Bounded
<1>5. PICK b2 \in Nat : \A s \in Ring : hdr[s].first <= b2
  <2> DEFINE f == [s \in Ring |-> hdr[s].first]
  <2>1. \A s \in Ring : f[s] \in Nat
    BY SlotType
  <2>2. \A s \in Ring : f[s] = hdr[s].first
    OBVIOUS
  <2> HIDE DEF f
  <2>3. \E b \in Nat : \A s \in Ring : f[s] <= b
    BY <1>3, <2>1, Bounded
  <2> QED BY <2>2, <2>3
<1>6. \A r \in AllSamples : r.seq \in Nat /\ r.seq <= b1
  <2> SUFFICES ASSUME NEW r \in AllSamples PROVE r.seq \in Nat /\ r.seq <= b1
    OBVIOUS
  <2>1. PICK s \in Ring : r \in Samples(s)
    BY DEF AllSamples
  <2>2. PICK k \in Places : r = rec[s][k]
    BY <2>1, SlotType DEF Samples
  <2>3. r \in Records /\ r.seq \in Nat
    BY <2>1, SamplesFact
  <2>4. r.seq <= B[s] /\ B[s] \in Nat
    BY <1>2, <2>2, <2>3
  <2> QED BY <1>4, <2>3, <2>4
<1>7. F \in SUBSET Nat /\ \A n \in F : n <= b2
  BY <1>5, SlotType
<1>8. Q \in SUBSET Nat /\ \A n \in Q : n <= b1 + 1
  BY <1>6
<1>9. 1 \in S /\ \A r \in AllSamples : r.seq + 1 \in S
  OBVIOUS
<1> HIDE DEF F, Q
<1>10. S \in SUBSET Nat /\ \A n \in S : n <= b1 + b2 + 1
  BY <1>7, <1>8
<1>11. NextSequence = MaxOf(S)
  BY DEF NextSequence, F, Q
<1> HIDE DEF S
<1>12. b1 + b2 + 1 \in Nat
  OBVIOUS
<1>13. NextSequence \in Nat /\ \A n \in S : n <= NextSequence
  BY <1>10, <1>11, <1>12, MaxOfFact
<1>14. NextSequence >= 1
  BY <1>9, <1>13
<1>15. \A r \in AllSamples : r.seq < NextSequence
  BY <1>6, <1>9, <1>13
<1> QED BY <1>13, <1>14, <1>15

(* One step of the scan: what sector s makes of the result p so far.       *)
ScanResults == [found : BOOLEAN, best : Ring, maxGen : 0..(GenMod - 1)]

(* A step of the scan.                                                     *)
ScanStep(p, s) ==
    IF ~Readable(s) THEN p
    ELSE [found |-> TRUE,
          best |-> IF TakesOver(s, p.found, p.best) THEN s ELSE p.best,
          maxGen |-> IF ~p.found \/ GenerationNewer(hdr[s].gen, p.maxGen)
                     THEN hdr[s].gen ELSE p.maxGen]

(* The scan is well defined: the result for each sector comes from the one *)
(* for the sectors before it.                                              *)
LEMMA ScanUnfolds ==
  ASSUME TelemetryTypeOK
  PROVE  /\ \A n \in 0..Sectors : Scan[n] \in ScanResults
         /\ Scan[0] = [found |-> FALSE, best |-> 0, maxGen |-> 0]
         /\ \A n \in 1..Sectors : Scan[n] = ScanStep(Scan[n - 1], n - 1)
<1> DEFINE base == [found |-> FALSE, best |-> 0, maxGen |-> 0]
           h == [x \in ScanResults \X (1..Sectors) |-> ScanStep(x[1], x[2] - 1)]
           E(f) == [n \in 0..Sectors |-> IF n = 0 THEN base ELSE ScanStep(f[n - 1], n - 1)]
<1>1. Sectors \in Nat /\ \A n \in 1..Sectors : /\ n - 1 \in Ring /\ n - 1 \in 0..Sectors
                                            /\ n \in 0..Sectors /\ n # 0
  BY RingFacts DEF Ring
<1>2. base \in ScanResults
  BY RingFacts DEF ScanResults
<1>3. \A p \in ScanResults, s \in Ring : ScanStep(p, s) \in ScanResults
  <2> SUFFICES ASSUME NEW p \in ScanResults, NEW s \in Ring PROVE ScanStep(p, s) \in ScanResults
    OBVIOUS
  <2>1. p.best \in Ring /\ p.maxGen \in 0..(GenMod - 1) /\ hdr[s].gen \in 0..(GenMod - 1)
    BY SlotType DEF ScanResults
  <2> QED BY <2>1 DEF ScanStep, ScanResults
<1>4. \A p \in ScanResults, n \in 1..Sectors : h[<<p, n>>] \in ScanResults
  BY <1>1, <1>3
<1>5. \A p \in ScanResults, n \in 1..Sectors : h[<<p, n>>] = ScanStep(p, n - 1)
  OBVIOUS
<1> HIDE DEF base, h
<1>6. PICK f : Computes(f, Sectors, ScanResults, base, h)
  <2>1. StaysIn(Sectors, ScanResults, base, h)
    BY <1>2, <1>4 DEF StaysIn
  <2> QED BY <1>1, <2>1, Recursion
<1>f. /\ f \in [0..Sectors -> ScanResults] /\ f[0] = base
      /\ \A n \in 1..Sectors : f[n] = h[<<f[n - 1], n>>]
  BY <1>6 DEF Computes
<1>7. \A n \in 1..Sectors : f[n] = ScanStep(f[n - 1], n - 1)
  <2> SUFFICES ASSUME NEW n \in 1..Sectors PROVE f[n] = ScanStep(f[n - 1], n - 1)
    OBVIOUS
  <2>1. f[n - 1] \in ScanResults
    BY <1>1, <1>f
  <2> QED BY <1>5, <1>f, <2>1
<1>8. f = E(f)
  <2>1. \A n \in 0..Sectors : n # 0 => n \in 1..Sectors
    BY <1>1
  <2>2. \A n \in 0..Sectors : f[n] = IF n = 0 THEN base ELSE ScanStep(f[n - 1], n - 1)
    BY <1>7, <1>f, <2>1
  <2> QED BY <1>f, <2>2
<1>9. Scan = CHOOSE g : g = E(g)
  BY DEF Scan, ScanStep, base
<1> HIDE DEF E
<1>10. Scan = E(Scan)
  BY <1>8, <1>9
<1>11. /\ Scan[0] = base
       /\ \A n \in 1..Sectors : Scan[n] = ScanStep(Scan[n - 1], n - 1)
  <2>1. \A n \in 0..Sectors : E(Scan)[n] = IF n = 0 THEN base ELSE ScanStep(Scan[n - 1], n - 1)
    BY DEF E
  <2>2. 0 \in 0..Sectors
    BY <1>1
  <2> QED BY <1>1, <1>10, <2>1, <2>2
<1> DEFINE S == {n \in 0..Sectors : Scan[n] \in ScanResults}
<1>12. 0 \in S
  BY <1>1, <1>2, <1>11
<1>13. ASSUME NEW n \in 0..Sectors, n < Sectors, n \in S PROVE (n + 1) \in S
  <2>1. n + 1 \in 1..Sectors /\ (n + 1) - 1 = n /\ n + 1 \in 0..Sectors /\ n \in Ring
    BY <1>1, <1>13 DEF Ring
  <2>2. Scan[n + 1] = ScanStep(Scan[n], n)
    BY <1>11, <2>1
  <2> QED BY <1>3, <1>13, <2>1, <2>2
<1> HIDE DEF S
<1>14. 0..Sectors \subseteq S
  BY <1>1, <1>12, <1>13, UpTo
<1> QED BY <1>11, <1>14 DEF S, base

(* The scan finds a readable sector if there is one, and none has a newer  *)
(* sample than the sector it settles for.                                  *)
LEMMA ScanFact ==
  ASSUME TelemetryTypeOK
  PROVE  /\ Scan[Sectors].best \in Ring /\ Scan[Sectors].maxGen \in 0..(GenMod - 1)
         /\ Scan[Sectors].found \in BOOLEAN
         /\ ~Scan[Sectors].found => Scan[Sectors].best = 0 /\ \A s \in Ring : ~Readable(s)
         /\ Scan[Sectors].found =>
                /\ Readable(Scan[Sectors].best)
                /\ \A s \in Ring : \A t \in TS(s) : \E u \in TS(Scan[Sectors].best) : t <= u
<1> DEFINE Good(n) ==
             IF Scan[n].found
             THEN /\ Readable(Scan[n].best)
                  /\ \A s \in Ring : s < n /\ Readable(s) =>
                        SectorNewest(s) <= SectorNewest(Scan[n].best)
             ELSE Scan[n].best = 0 /\ \A s \in Ring : s < n => ~Readable(s)
           S == {n \in 0..Sectors : Good(n)}
<1>1. Sectors \in Nat /\ Ring \subseteq Nat /\ \A s \in Ring : s < Sectors
  BY RingFacts
<1>2. \A n \in 0..Sectors : Scan[n].best \in Ring /\ Scan[n].found \in BOOLEAN
                            /\ Scan[n].maxGen \in 0..(GenMod - 1)
  BY ScanUnfolds DEF ScanResults
<1>3. 0 \in S
  <2>1. Scan[0].found = FALSE /\ Scan[0].best = 0
    BY ScanUnfolds
  <2>2. \A s \in Ring : ~(s < 0)
    BY <1>1
  <2> QED BY <1>1, <2>1, <2>2
<1>4. ASSUME NEW n \in 0..Sectors, n < Sectors, n \in S PROVE (n + 1) \in S
  <2>1. n + 1 \in 1..Sectors /\ (n + 1) - 1 = n /\ n + 1 \in 0..Sectors /\ n \in Ring
    BY <1>1, <1>4 DEF Ring
  <2>2. Scan[n + 1] = ScanStep(Scan[n], n)
    BY ScanUnfolds, <2>1
  <2>3. Good(n)
    BY <1>4
  <2>4. \A s \in Ring : s < n + 1 <=> s < n \/ s = n
    BY <1>1, <2>1
  <2>5. Good(n + 1)
    <3>1. CASE ~Readable(n)
      <4>1. Scan[n + 1] = Scan[n]
        BY <2>2, <3>1 DEF ScanStep
      <4> QED BY <2>3, <2>4, <3>1, <4>1
    <3>2. CASE Readable(n) /\ ~Scan[n].found
      <4>1. Scan[n + 1].found = TRUE /\ Scan[n + 1].best = n
        BY <2>2, <3>2 DEF ScanStep, TakesOver
      <4>2. SectorNewest(n) <= SectorNewest(n)
        BY SectorNewestFact, <2>1
      <4> QED BY <2>3, <2>4, <3>2, <4>1, <4>2
    <3>3. CASE Readable(n) /\ Scan[n].found
      <4>1. /\ Scan[n + 1].found = TRUE
            /\ Scan[n + 1].best = IF TakesOver(n, TRUE, Scan[n].best) THEN n ELSE Scan[n].best
        BY <1>2, <2>2, <3>3 DEF ScanStep
      <4>2. \A s \in Ring : SectorNewest(s) \in Nat
        BY SectorNewestFact
      <4> SectorNewest(n) \in Nat /\ SectorNewest(Scan[n].best) \in Nat
        BY <1>2, <2>1, <4>2
      <4>3. /\ SectorNewest(n) <= SectorNewest(Scan[n + 1].best)
            /\ SectorNewest(Scan[n].best) <= SectorNewest(Scan[n + 1].best)
            /\ Scan[n + 1].best \in Ring
        <5>1. CASE TakesOver(n, TRUE, Scan[n].best)
          <6>1. Scan[n + 1].best = n
            BY <4>1, <5>1
          <6>2. SectorNewest(n) >= SectorNewest(Scan[n].best)
            BY <5>1 DEF TakesOver
          <6> QED BY <1>2, <2>1, <6>1, <6>2
        <5>2. CASE ~TakesOver(n, TRUE, Scan[n].best)
          <6>1. Scan[n + 1].best = Scan[n].best
            BY <4>1, <5>2
          <6>2. ~(SectorNewest(n) > SectorNewest(Scan[n].best))
            BY <5>2 DEF TakesOver
          <6> QED BY <1>2, <2>1, <6>1, <6>2
        <5> QED BY <5>1, <5>2
      <4>4. Readable(Scan[n + 1].best)
        BY <2>3, <3>3, <4>1
      <4>5. ASSUME NEW s \in Ring, s < n + 1, Readable(s)
            PROVE  SectorNewest(s) <= SectorNewest(Scan[n + 1].best)
        <5>1. CASE s = n
          BY <4>3, <5>1
        <5>2. CASE s < n
          <6>1. SectorNewest(s) <= SectorNewest(Scan[n].best)
            BY <2>3, <3>3, <4>5, <5>2
          <6> QED BY <1>2, <4>2, <4>3, <6>1
        <5> QED BY <2>4, <4>5, <5>1, <5>2
      <4> QED BY <4>1, <4>4, <4>5
    <3> QED BY <3>1, <3>2, <3>3
  <2> QED BY <2>1, <2>5
<1> HIDE DEF S
<1>5. 0..Sectors \subseteq S
  BY <1>1, <1>3, <1>4, UpTo
<1>6. Sectors \in 0..Sectors
  BY <1>1
<1>7. Good(Sectors)
  BY <1>5, <1>6 DEF S
<1>8. ~Scan[Sectors].found => Scan[Sectors].best = 0 /\ \A s \in Ring : ~Readable(s)
  BY <1>1, <1>7
<1>9. ASSUME Scan[Sectors].found, NEW s \in Ring, NEW t \in TS(s)
      PROVE  \E u \in TS(Scan[Sectors].best) : t <= u
  <2>1. Readable(s)
    BY SamplesFact, <1>9 DEF TS
  <2>2. SectorNewest(s) <= SectorNewest(Scan[Sectors].best)
    BY <1>1, <1>7, <1>9, <2>1
  <2>3. t <= SectorNewest(s) /\ t \in Nat /\ t >= 1
    BY SectorNewestFact, SamplesFact, <1>9, RingFacts DEF Times
  <2>4. SectorNewest(Scan[Sectors].best) \in TS(Scan[Sectors].best) \union {0}
    BY SectorNewestFact, <1>2, <1>6
  <2>5. SectorNewest(s) \in Nat /\ SectorNewest(Scan[Sectors].best) \in Nat
    BY SectorNewestFact, <1>2, <1>6
  <2>6. t <= SectorNewest(Scan[Sectors].best) /\ SectorNewest(Scan[Sectors].best) # 0
    BY <2>2, <2>3, <2>5
  <2> QED BY <2>4, <2>6
<1>10. Scan[Sectors].found => Readable(Scan[Sectors].best)
  BY <1>7
<1> QED BY <1>2, <1>6, <1>8, <1>9, <1>10

-----------------------------------------------------------------------------
(* The position in the ring                                                *)

(* telemetry_commit_sector is at work.                                     *)
Rotating == pc \in {"erase", "header", "commit"}

(* The position in the ring is known.                                      *)
Working == ready \/ Rotating

(* Nothing is programmed in sector s.                                      *)
Blank(s) == \A k \in Places : rec[s][k] = Erased

(* What the operation under way has established.                           *)
OperationInv ==
    /\ pc = "off" => ~ready
    /\ pc \in {"off", "idle"} => want = 0 /\ attempts = 0
    /\ pc = "record" => ready /\ nextSlot < Slots
    /\ pc \in {"header", "commit"} => Blank(target) /\ ~Readable(target)
    /\ Rotating /\ ready => target = NextSector(active) /\ nextSlot = Slots
    /\ Rotating /\ ~ready => target = NextSector(active) \/ \A s \in Ring : ~Readable(s)
    /\ pc = "record" \/ (Rotating /\ ready) => want > lastTs
    /\ pc = "record" \/ Rotating => attempts \in {1, 2}

(* Once the journal is initialized, the rest of the active sector is free. *)
PositionInv ==
    ready => /\ hdr[active].fmt = "v2"
             /\ nextSlot \in 0..Slots
             /\ \A k \in 0..(Slots - 1) : k >= nextSlot => rec[active][k] = Erased

(* The first invariant: the position fits the flash.                       *)
RingInv == TelemetryTypeOK /\ OperationInv /\ PositionInv

(* Flash operations that leave nothing to read in sector x.                *)
Wiped(x) ==
    /\ \A s \in Ring \ {x} : hdr'[s] = hdr[s] /\ rec'[s] = rec[s]
    /\ hdr'[x].fmt \in {"none", "half", "v2"}
    /\ \A k \in Places : rec'[x][k] \in {Erased, Torn}

(* Flash operations that add nothing to read to sector x, done in part or  *)
(* whole: a part of an erase takes some records away, or the header.       *)
Thinned(x) ==
    /\ \A s \in Ring \ {x} : hdr'[s] = hdr[s] /\ rec'[s] = rec[s]
    /\ \/ hdr'[x] = hdr[x] /\ \A k \in Places : rec'[x][k] \in {rec[x][k], Erased, Torn}
       \/ hdr'[x].fmt \in {"none", "half"}
       \/ hdr'[x].fmt = "v2" /\ \A k \in Places : rec'[x][k] \in {Erased, Torn}

(* A record write, whatever becomes of it.                                 *)
Recorded(a, n, v) ==
    /\ hdr' = hdr /\ rec' = [rec EXCEPT ![a][n] = v]
    /\ rec[a][n] = Erased /\ v \in {Erased, Torn, NewRecord}

(* The types of what is in flash.                                          *)
HeaderType == [Ring -> [fmt : {"none", "half", "v1", "v2"}, gen : 0..(GenMod - 1), first : Nat]]
RecordType == [Ring -> [Places -> Records \union {Erased, Torn}]]

(* A step of telemetry_commit_sector, done in part or whole, adds nothing  *)
(* to read to its target.                                                  *)
LEMMA RotationEffect ==
  ASSUME RingInv, Rotating, NEW f \in PartialFlash
  PROVE  /\ f[1] \in HeaderType /\ f[2] \in RecordType
         /\ \A s \in Ring \ {target} : f[1][s] = hdr[s] /\ f[2][s] = rec[s]
         /\ \/ /\ f[1][target] = hdr[target]
               /\ \A k \in Places : f[2][target][k] \in {rec[target][k], Erased, Torn}
            \/ f[1][target].fmt \in {"none", "half"}
            \/ f[1][target].fmt = "v2" /\ \A k \in Places : f[2][target][k] \in {Erased, Torn}
<1> hdr \in HeaderType /\ rec \in RecordType /\ target \in Ring
  BY DEF RingInv, TelemetryTypeOK, HeaderType, RecordType
<1> tgen \in 0..(GenMod - 1) /\ nextSeq \in Nat
  BY DEF RingInv, TelemetryTypeOK
<1>1. CASE pc = "erase"
  <2>1. PICK h \in {hdr, [hdr EXCEPT ![target] = NoHeader]}, t \in HalfErased :
            f = <<h, [rec EXCEPT ![target] = t]>>
    BY <1>1 DEF PartialFlash
  <2>2. /\ NoHeader \in [fmt : {"none", "half", "v1", "v2"}, gen : 0..(GenMod - 1), first : Nat]
        /\ NoHeader.fmt = "none"
    BY RingFacts DEF NoHeader
  <2>3. /\ h \in HeaderType /\ \A s \in Ring \ {target} : h[s] = hdr[s]
        /\ h[target] = hdr[target] \/ h[target].fmt = "none"
    BY <2>2 DEF HeaderType
  <2>4. rec[target] \in [Places -> Records \union {Erased, Torn}]
    BY DEF RecordType
  <2>5. t \in [Places -> {Erased, Torn} \union {rec[target][k] : k \in Places}]
        /\ \A k \in Places : t[k] \in {rec[target][k], Erased, Torn}
    BY DEF HalfErased
  <2>6. t \in [Places -> Records \union {Erased, Torn}]
    BY <2>4, <2>5
  <2>7. /\ [rec EXCEPT ![target] = t] \in RecordType
        /\ \A s \in Ring \ {target} : [rec EXCEPT ![target] = t][s] = rec[s]
        /\ [rec EXCEPT ![target] = t][target] = t
    BY <2>6 DEF RecordType
  <2>8. f[1] = h /\ f[2] = [rec EXCEPT ![target] = t]
    BY <2>1
  <2> QED BY <2>3, <2>5, <2>7, <2>8
<1>2. CASE pc = "header"
  <2>1. Blank(target)
    BY <1>2 DEF RingInv, OperationInv
  <2>2. f = <<hdr, rec>> \/ f = <<[hdr EXCEPT ![target] = NewHeader], rec>>
    BY <1>2 DEF PartialFlash
  <2>3. /\ NewHeader \in [fmt : {"none", "half", "v1", "v2"}, gen : 0..(GenMod - 1), first : Nat]
        /\ NewHeader.fmt = "half"
    BY DEF NewHeader
  <2>4. /\ [hdr EXCEPT ![target] = NewHeader] \in HeaderType
        /\ \A s \in Ring \ {target} : [hdr EXCEPT ![target] = NewHeader][s] = hdr[s]
        /\ [hdr EXCEPT ![target] = NewHeader][target].fmt = "half"
    BY <2>3 DEF HeaderType
  <2>5. CASE f = <<[hdr EXCEPT ![target] = NewHeader], rec>>
    <3>1. f[1] = [hdr EXCEPT ![target] = NewHeader] /\ f[2] = rec
      BY <2>5
    <3> QED BY <2>1, <2>4, <3>1 DEF Blank
  <2> QED BY <2>2, <2>5
<1>3. CASE pc = "commit"
  <2>1. Blank(target)
    BY <1>3 DEF RingInv, OperationInv
  <2>2. f = <<hdr, rec>> \/ f = <<[hdr EXCEPT ![target].fmt = "v2"], rec>>
    BY <1>3 DEF PartialFlash
  <2>3. /\ [hdr EXCEPT ![target].fmt = "v2"] \in HeaderType
        /\ \A s \in Ring \ {target} : [hdr EXCEPT ![target].fmt = "v2"][s] = hdr[s]
        /\ [hdr EXCEPT ![target].fmt = "v2"][target].fmt = "v2"
    BY DEF HeaderType
  <2>4. CASE f = <<[hdr EXCEPT ![target].fmt = "v2"], rec>>
    <3>1. f[1] = [hdr EXCEPT ![target].fmt = "v2"] /\ f[2] = rec
      BY <2>4
    <3> QED BY <2>1, <2>3, <3>1 DEF Blank
  <2> QED BY <2>2, <2>4
<1> QED BY <1>1, <1>2, <1>3 DEF Rotating

(* What a record write leaves: its slot was erased before.                 *)
LEMMA RecordEffect ==
  ASSUME RingInv, pc = "record", NEW f \in PartialFlash
  PROVE  /\ f[1] = hdr
         /\ \E v \in {Erased, Torn, NewRecord} : f[2] = [rec EXCEPT ![active][nextSlot] = v]
         /\ rec[active][nextSlot] = Erased
<1>1. nextSlot \in Places /\ rec[active][nextSlot] = Erased
  BY RingFacts DEF RingInv, OperationInv, PositionInv
<1>2. PICK v \in {rec[active][nextSlot], Torn, Programmed(rec[active][nextSlot], NewRecord)} :
          f = <<hdr, [rec EXCEPT ![active][nextSlot] = v]>>
  BY DEF PartialFlash
<1>3. v \in {Erased, Torn, NewRecord}
  BY <1>1, <1>2 DEF Programmed
<1>4. f[1] = hdr /\ f[2] = [rec EXCEPT ![active][nextSlot] = v]
  BY <1>2
<1> QED BY <1>1, <1>3, <1>4

(* Outside of a flash operation there is nothing to interrupt.             *)
LEMMA IdleEffect ==
  ASSUME pc \in {"off", "idle"}, NEW f \in PartialFlash
  PROVE  f[1] = hdr /\ f[2] = rec
BY DEF PartialFlash

(* The new record is of the right type.                                    *)
LEMMA NewRecordType ==
  ASSUME RingInv, pc = "record"
  PROVE  /\ want \in Times /\ NewRecord \in Records /\ NewRecord.ts = want /\ NewRecord.seq = nextSeq
         /\ want > lastTs /\ active \in Ring /\ nextSlot \in Places /\ rec[active][nextSlot] = Erased
         /\ hdr[active].fmt = "v2" /\ nextSlot \in 0..(Slots - 1) /\ nextSlot \in 0..Slots
<1>1. want \in Times \union {0} /\ lastTs \in Times \union {0} /\ want > lastTs
  BY DEF RingInv, TelemetryTypeOK, OperationInv
<1>2. want \in Times
  BY <1>1, RingFacts DEF Times
<1>3. nextSeq \in Nat \ {0} /\ active \in Ring
  BY DEF RingInv, TelemetryTypeOK
<1>4. nextSlot \in Places /\ rec[active][nextSlot] = Erased /\ hdr[active].fmt = "v2"
      /\ nextSlot \in 0..(Slots - 1) /\ nextSlot \in 0..Slots
  BY RingFacts DEF RingInv, OperationInv, PositionInv
<1> QED BY <1>1, <1>2, <1>3, <1>4 DEF NewRecord, Records

(* What the part of an append before its flash operations decides.         *)
LEMMA AppendToFact ==
  ASSUME TelemetryTypeOK,
         NEW a \in Ring, NEW g \in 0..(GenMod - 1), NEW slot \in 0..Slots,
         NEW last \in Times \union {0}, NEW ts \in Times \union {0}, NEW tries \in {1, 2},
         AppendTo(a, g, slot, last, ts, tries)
  PROVE  /\ pc' \in {"idle", "erase", "record"} /\ want' \in Times \union {0} /\ attempts' \in 0..2
         /\ target' \in Ring /\ tgen' \in 0..(GenMod - 1)
         /\ pc' = "idle" => want' = 0 /\ attempts' = 0
         /\ pc' = "record" => slot < Slots
         /\ pc' = "erase" => slot = Slots /\ target' = NextSector(a)
         /\ pc' # "idle" => want' = ts /\ ts > last /\ attempts' = tries
<1>1. target \in Ring /\ tgen \in 0..(GenMod - 1)
  BY DEF TelemetryTypeOK
<1>2. NextSector(a) \in Ring /\ NextGeneration(g) \in 0..(GenMod - 1)
  BY NextSectorFact, NextGenerationType
<1>3. ts \in Nat /\ last \in Nat /\ slot \in Nat /\ Slots \in Nat
  BY RingFacts DEF Times
<1>4. CASE ts = 0 \/ ts <= last
  <2>1. pc' = "idle" /\ want' = 0 /\ attempts' = 0 /\ target' = target /\ tgen' = tgen
    BY <1>4 DEF AppendTo
  <2> QED BY <1>1, <2>1
<1>5. CASE ~(ts = 0 \/ ts <= last)
  <2>1. ts > last /\ want' = ts /\ attempts' = tries
    BY <1>3, <1>5 DEF AppendTo
  <2>2. CASE slot >= Slots
    <3>1. pc' = "erase" /\ target' = NextSector(a) /\ tgen' = NextGeneration(g)
      BY <1>5, <2>2 DEF AppendTo, CommitSector
    <3>2. slot = Slots
      BY <1>3, <2>2
    <3> QED BY <1>2, <2>1, <3>1, <3>2
  <2>3. CASE ~(slot >= Slots)
    <3>1. pc' = "record" /\ target' = target /\ tgen' = tgen
      BY <1>5, <2>3 DEF AppendTo
    <3>2. slot < Slots
      BY <1>3, <2>3
    <3> QED BY <1>1, <2>1, <3>1, <3>2
  <2> QED BY <2>2, <2>3
<1> QED BY <1>4, <1>5

(* Firmware of the older format leaves a well-formed flash, with its       *)
(* sample in it.                                                           *)
LEMMA OldFirmwareEffect ==
  ASSUME RingInv, NEW ts \in Times, OldFirmware(ts)
  PROVE  /\ hdr' \in HeaderType /\ rec' \in RecordType
         /\ \E s \in Ring : /\ hdr'[s].fmt = "v1"
                            /\ \E k \in 0..(OldSlots - 1) :
                                  rec'[s][k] \in Records /\ rec'[s][k].ts = ts
<1> DEFINE Own == {o \in Ring : hdr[o].fmt = "v1"}
           a   == CHOOSE o \in Own : \A o2 \in Own : hdr[o2].gen <= hdr[o].gen
           s   == IF Own = {} THEN 0 ELSE IF FreeSlot(a) < OldSlots THEN a ELSE NextSector(a)
           new == Own = {} \/ s # a
           seq == MaxOf({1} \union {r.seq + 1 : r \in UNION {Samples(o) : o \in Own}})
           g   == IF Own = {} THEN 1 ELSE NextGeneration(hdr[a].gen)
           n   == IF new THEN 0 ELSE FreeSlot(a)
           here == IF new THEN [k \in Places |-> Erased] ELSE rec[s]
           r0  == [ts |-> ts, seq |-> seq]
           h0  == [fmt |-> "v1", first |-> seq, gen |-> g]
<1>1. /\ hdr' = IF new THEN [hdr EXCEPT ![s] = h0] ELSE hdr
      /\ rec' = [rec EXCEPT ![s] = [here EXCEPT ![n] = r0]]
  BY Zenon DEF OldFirmware
<1>2. TelemetryTypeOK /\ hdr \in HeaderType /\ rec \in RecordType
  BY DEF RingInv, TelemetryTypeOK, HeaderType, RecordType
<1>3. seq \in Nat \ {0}
  <2> DEFINE Q == {r.seq + 1 : r \in UNION {Samples(o) : o \in Own}}
             S == {1} \union Q
  <2>1. \A r \in UNION {Samples(o) : o \in Own} : r \in AllSamples
    BY DEF AllSamples
  <2>2. \A q \in Q : q \in Nat /\ q <= NextSequence
    <3> SUFFICES ASSUME NEW r \in UNION {Samples(o) : o \in Own}
                 PROVE  r.seq + 1 \in Nat /\ r.seq + 1 <= NextSequence
      OBVIOUS
    <3>1. r \in AllSamples
      BY <2>1
    <3>2. r.seq < NextSequence /\ NextSequence \in Nat /\ r.seq \in Nat
      BY <1>2, <3>1, NextSequenceFact, KeptFact
    <3> QED BY <3>2
  <2> HIDE DEF Q
  <2>3. NextSequence \in Nat /\ NextSequence >= 1
    BY <1>2, NextSequenceFact
  <2>4. S \in SUBSET Nat /\ 1 \in S /\ \A q \in S : q <= NextSequence
    BY <2>2, <2>3
  <2> HIDE DEF S
  <2>5. MaxOf(S) \in Nat /\ 1 <= MaxOf(S)
    BY <2>3, <2>4, MaxOfFact
  <2>6. seq = MaxOf(S)
    BY DEF S, Q
  <2> HIDE DEF seq
  <2> QED BY <2>5, <2>6
<1>4. Own # {} => a \in Own
  <2> SUFFICES ASSUME Own # {} PROVE a \in Own
    OBVIOUS
  <2> DEFINE G == {hdr[o].gen : o \in Own}
  <2>1. \A o \in Own : hdr[o].gen \in Nat /\ hdr[o].gen <= GenMod
    BY <1>2, SlotType, RingFacts
  <2>2. G \in SUBSET Nat /\ G # {} /\ \A m \in G : m <= GenMod
    BY <2>1
  <2> HIDE DEF G
  <2>3. PICK m \in G : \A m2 \in G : m2 <= m
    BY <2>2, GreatestNumber, RingFacts
  <2>4. \E o \in Own : \A o2 \in Own : hdr[o2].gen <= hdr[o].gen
    BY <2>3 DEF G
  <2> QED BY <2>4
<1> HIDE DEF seq, a
<1>5. s \in Ring
  BY <1>4, RingFacts, NextSectorFact
<1>6. g \in 0..(GenMod - 1)
  <2>1. CASE Own = {}
    BY <2>1, RingFacts
  <2>2. CASE Own # {}
    <3>1. a \in Ring
      BY <1>4, <2>2
    <3>2. hdr[a].gen \in 0..(GenMod - 1)
      BY <1>2, <3>1, SlotType
    <3>3. NextGeneration(hdr[a].gen) \in 0..(GenMod - 1)
      BY <3>2, NextGenerationType
    <3> QED BY <2>2, <3>3
  <2> QED BY <2>1, <2>2
<1>7. n \in 0..(OldSlots - 1) /\ n \in Places
  <2>1. CASE new
    BY <2>1, RingFacts
  <2>2. CASE ~new
    <3>1. Own # {} /\ s = a /\ a \in Ring /\ NextSector(a) # a
      BY <1>4, <2>2, NextSectorFact
    <3>2. FreeSlot(a) < OldSlots /\ FreeSlot(a) \in 0..Most
      BY <1>2, <3>1, FreeSlotFact
    <3>3. n = FreeSlot(a)
      BY <2>2
    <3> QED BY <3>2, <3>3, RingFacts
  <2> QED BY <2>1, <2>2
<1>8. r0 \in Records /\ r0.ts = ts
  BY <1>3 DEF Records
<1>9. h0 \in [fmt : {"none", "half", "v1", "v2"}, gen : 0..(GenMod - 1), first : Nat] /\ h0.fmt = "v1"
  BY <1>3, <1>6
<1>10. here \in [Places -> Records \union {Erased, Torn}]
  BY <1>2, <1>5 DEF RecordType
<1>11. ~new => hdr[s].fmt = "v1"
  BY <1>4
<1> HIDE DEF g, r0, h0, n, here, s, new
<1>12. hdr' \in HeaderType /\ hdr'[s].fmt = "v1"
  <2>1. CASE new
    <3>1. hdr' = [hdr EXCEPT ![s] = h0]
      BY <1>1, <2>1
    <3> QED BY <1>2, <1>5, <1>9, <3>1 DEF HeaderType
  <2>2. CASE ~new
    BY <1>1, <1>2, <1>11, <2>2
  <2> QED BY <2>1, <2>2
<1>13. rec' \in RecordType
  <2>1. [here EXCEPT ![n] = r0] \in [Places -> Records \union {Erased, Torn}]
    BY <1>7, <1>8, <1>10
  <2> QED BY <1>1, <1>2, <1>5, <2>1 DEF RecordType
<1>14. rec'[s][n] = r0
  BY <1>1, <1>2, <1>5, <1>7, <1>10 DEF RecordType
<1>15. rec'[s][n] \in Records /\ rec'[s][n].ts = ts
  BY <1>8, <1>14
<1> QED BY <1>5, <1>7, <1>12, <1>13, <1>15

(* The parts of the type invariant.                                        *)
PositionType ==
    /\ ready \in BOOLEAN /\ active \in Ring /\ gen \in 0..(GenMod - 1) /\ nextSeq \in Nat \ {0}
    /\ nextSlot \in 0..Most /\ lastTs \in Times \union {0}

(* The types of the operation under way.                                   *)
OperationType ==
    /\ pc \in {"off", "idle", "erase", "header", "commit", "record"}
    /\ want \in Times \union {0} /\ attempts \in 0..2
    /\ target \in Ring /\ tgen \in 0..(GenMod - 1)

(* The types of the environment and the history.                           *)
HistoryType ==
    /\ acked \subseteq Times /\ {faults, cuts, old} \subseteq Nat
    /\ failRow \in 0..RowLimit /\ stray \in BOOLEAN

(* The history of failing writes stays in its range.                       *)
LEMMA RowEndsType ==
  ASSUME HistoryType
  PROVE  RowEnds \in 0..RowLimit /\ RowEnds <= failRow /\ (RowEnds < RowLimit <=> failRow < RowLimit)
BY RowLimitFact DEF HistoryType, RowEnds

(* A call on an initialized journal: nothing happens in flash yet.         *)
LEMMA CallRingInv ==
  ASSUME RingInv, NEW ts \in Times \union {0}, Call(ts)
  PROVE  RingInv'
<1> USE DEF RingInv
<1>1. UNCHANGED <<flash, journal, acked, faults, cuts, old, history>> /\ pc = "idle" /\ ready
  BY DEF Call
<1>2. UNCHANGED <<hdr, rec, ready, active, gen, nextSeq, nextSlot, lastTs>>
      /\ UNCHANGED <<acked, faults, cuts, old, failRow, stray>>
  BY <1>1 DEF flash, journal, history
<1>3. AppendTo(active, gen, nextSlot, lastTs, ts, 2)
  BY DEF Call
<1>4. /\ pc' \in {"idle", "erase", "record"} /\ OperationType'
      /\ pc' = "idle" => want' = 0 /\ attempts' = 0
      /\ pc' = "record" => nextSlot < Slots
      /\ pc' = "erase" => nextSlot = Slots /\ target' = NextSector(active)
      /\ pc' # "idle" => want' = ts /\ ts > lastTs /\ attempts' = 2
  BY <1>1, <1>3, AppendToFact DEF TelemetryTypeOK, OperationType, PositionInv
<1>5. TelemetryTypeOK'
  BY <1>2, <1>4 DEF OperationType, TelemetryTypeOK
<1>6. PositionInv'
  BY <1>2 DEF PositionInv
<1>7. OperationInv'
  BY <1>1, <1>2, <1>4 DEF OperationInv, Rotating, Blank, Readable, NextSector
<1> QED BY <1>5, <1>6, <1>7

(* Initializing picks a sector and a slot after which nothing is           *)
(* programmed.                                                             *)
LEMMA CallInitRingInv ==
  ASSUME RingInv, NEW ts \in Times \union {0}, CallInit(ts)
  PROVE  RingInv'
<1> USE DEF RingInv
<1> DEFINE sc == Scan[Sectors]
<1>1. UNCHANGED <<flash, acked, faults, cuts, old, history>> /\ pc = "idle" /\ ~ready
  BY DEF CallInit
<1>2. UNCHANGED <<hdr, rec>> /\ UNCHANGED <<acked, faults, cuts, old, failRow, stray>>
  BY <1>1 DEF flash, history
<1>3. /\ active' = sc.best /\ gen' = sc.maxGen /\ nextSeq' = NextSequence
      /\ nextSlot' = IF sc.found THEN FreeSlot(sc.best) ELSE 0
      /\ lastTs' = LastTimestamp
  BY DEF CallInit
<1>4. /\ sc.best \in Ring /\ sc.maxGen \in 0..(GenMod - 1) /\ sc.found \in BOOLEAN
      /\ ~sc.found => sc.best = 0 /\ \A s \in Ring : ~Readable(s)
      /\ sc.found => Readable(sc.best)
  BY ScanFact
<1> HIDE DEF sc
<1>5. /\ FreeSlot(sc.best) \in 0..Most /\ NextSector(sc.best) \in Ring
      /\ NextGeneration(sc.maxGen) \in 0..(GenMod - 1)
      /\ LastTimestamp \in Times \union {0} /\ NextSequence \in Nat \ {0}
  BY <1>4, FreeSlotFact, NextSectorFact, NextGenerationType, LastTimestampFact, NextSequenceFact
<1>6. 0 \in 0..Most /\ 0 \in Ring /\ 1 \in 0..(GenMod - 1)
  BY RingFacts
<1>7. ready' \in BOOLEAN => PositionType'
  BY <1>3, <1>4, <1>5, <1>6 DEF PositionType
<1>8. HistoryType' /\ hdr' \in HeaderType /\ rec' \in RecordType
  BY <1>2 DEF TelemetryTypeOK, HistoryType, HeaderType, RecordType
<1>9. CASE ~sc.found
  <2>1. pc' = "erase" /\ target' = 0 /\ tgen' = 1 /\ want' = ts /\ attempts' = 2 /\ ready' = ready
    BY <1>9 DEF CallInit, CommitSector, sc
  <2>2. OperationType'
    BY <1>6, <2>1 DEF OperationType
  <2>3. TelemetryTypeOK'
    BY <1>1, <1>7, <1>8, <2>1, <2>2 DEF TelemetryTypeOK, PositionType, OperationType, HistoryType,
                                       HeaderType, RecordType
  <2>4. PositionInv'
    BY <1>1, <2>1 DEF PositionInv
  <2>5. \A s \in Ring : ~Readable(s)'
    BY <1>2, <1>4, <1>9 DEF Readable
  <2>6. OperationInv'
    BY <1>1, <2>1, <2>5 DEF OperationInv, Rotating
  <2> QED BY <2>3, <2>4, <2>6
<1>10. CASE sc.found /\ hdr[sc.best].fmt # "v2"
  <2>1. /\ pc' = "erase" /\ target' = NextSector(sc.best) /\ tgen' = NextGeneration(sc.maxGen)
        /\ want' = ts /\ attempts' = 2 /\ ready' = ready
    BY <1>10 DEF CallInit, CommitSector, sc
  <2>2. OperationType'
    BY <1>5, <2>1 DEF OperationType
  <2>3. TelemetryTypeOK'
    BY <1>1, <1>7, <1>8, <2>1, <2>2 DEF TelemetryTypeOK, PositionType, OperationType, HistoryType,
                                       HeaderType, RecordType
  <2>4. PositionInv'
    BY <1>1, <2>1 DEF PositionInv
  <2>5. target' = NextSector(active)'
    BY <1>3, <2>1 DEF NextSector
  <2>6. OperationInv'
    BY <1>1, <2>1, <2>5 DEF OperationInv, Rotating
  <2> QED BY <2>3, <2>4, <2>6
<1>11. CASE sc.found /\ hdr[sc.best].fmt = "v2"
  <2>1. ready' = TRUE /\ AppendTo(sc.best, sc.maxGen, FreeSlot(sc.best), LastTimestamp, ts, 2)
    BY <1>11 DEF CallInit, sc
  <2>0. FreeSlot(sc.best) \in 0..Slots
    BY <1>4, <1>11, FreeSlotFact
  <2>2. /\ pc' \in {"idle", "erase", "record"} /\ OperationType'
        /\ pc' = "idle" => want' = 0 /\ attempts' = 0
        /\ pc' = "record" => FreeSlot(sc.best) < Slots
        /\ pc' = "erase" => FreeSlot(sc.best) = Slots /\ target' = NextSector(sc.best)
        /\ pc' # "idle" => want' = ts /\ ts > LastTimestamp /\ attempts' = 2
    BY <1>4, <1>5, <2>0, <2>1, AppendToFact DEF OperationType
  <2>3. TelemetryTypeOK'
    BY <1>7, <1>8, <2>1, <2>2 DEF TelemetryTypeOK, PositionType, OperationType, HistoryType,
                                       HeaderType, RecordType
  <2>4. /\ FreeSlot(sc.best) \in 0..Slots
        /\ \A k \in 0..(Slots - 1) : k >= FreeSlot(sc.best) => rec[sc.best][k] = Erased
    BY <1>4, <1>11, FreeSlotFact, SlotType
  <2>5. PositionInv'
    BY <1>2, <1>3, <1>11, <2>4 DEF PositionInv
  <2>6. pc' = "erase" => target' = NextSector(active)'
    BY <1>3, <2>2 DEF NextSector
  <2>7. OperationInv'
    BY <1>3, <1>11, <2>1, <2>2, <2>6 DEF OperationInv, Rotating
  <2> QED BY <2>3, <2>5, <2>7
<1> QED BY <1>4, <1>9, <1>10, <1>11

(* The first operation of telemetry_commit_sector.                         *)
LEMMA EraseRingInv ==
  ASSUME RingInv, EraseSector
  PROVE  RingInv'
<1> USE DEF RingInv
<1>1. UNCHANGED <<journal, want, attempts, target, tgen, acked, faults, cuts, old, history>>
      /\ pc = "erase" /\ pc' = "header"
  BY DEF EraseSector
<1>2. /\ UNCHANGED <<ready, active, gen, nextSeq, nextSlot, lastTs>>
      /\ UNCHANGED <<want, attempts, target, tgen, acked, faults, cuts, old, failRow, stray>>
  BY <1>1 DEF journal, history
<1>3. /\ hdr' = [hdr EXCEPT ![target] = NoHeader]
      /\ rec' = [rec EXCEPT ![target] = [k \in Places |-> Erased]]
  BY DEF EraseSector
<1>4. target \in Ring /\ active \in Ring /\ hdr \in HeaderType /\ rec \in RecordType
  BY DEF TelemetryTypeOK, HeaderType, RecordType
<1>5. NoHeader \in [fmt : {"none", "half", "v1", "v2"}, gen : 0..(GenMod - 1), first : Nat]
  BY RingFacts DEF NoHeader
<1>6. hdr' \in HeaderType /\ rec' \in RecordType
  BY <1>3, <1>4, <1>5 DEF HeaderType, RecordType
<1>7. TelemetryTypeOK'
  BY <1>1, <1>2, <1>6 DEF TelemetryTypeOK, HeaderType, RecordType
<1>8. ready => target # active
  BY <1>1, <1>4, NextSectorFact DEF OperationInv, Rotating
<1>9. \A s \in Ring : s # target => hdr'[s] = hdr[s] /\ rec'[s] = rec[s]
  BY <1>3, <1>4 DEF HeaderType, RecordType
<1>10. PositionInv'
  BY <1>2, <1>4, <1>8, <1>9 DEF PositionInv
<1>11. Blank(target)' /\ ~Readable(target)'
  BY <1>2, <1>3, <1>4 DEF Blank, Readable, NoHeader, HeaderType, RecordType
<1>12. (\A s \in Ring : ~Readable(s)) => (\A s \in Ring : ~Readable(s))'
  <2>1. ~(hdr'[target].fmt \in {"v1", "v2"})
    BY <1>2, <1>11 DEF Readable
  <2> QED BY <1>9, <2>1 DEF Readable
<1>13. OperationInv'
  BY <1>1, <1>2, <1>11, <1>12 DEF OperationInv, Rotating, NextSector
<1> QED BY <1>7, <1>10, <1>13

(* The second one.                                                         *)
LEMMA HeaderRingInv ==
  ASSUME RingInv, WriteHeader
  PROVE  RingInv'
<1> USE DEF RingInv
<1>1. UNCHANGED <<rec, journal, want, attempts, target, tgen, acked, faults, cuts, old, history>>
      /\ pc = "header" /\ pc' = "commit"
  BY DEF WriteHeader
<1>2. /\ UNCHANGED <<rec, ready, active, gen, nextSeq, nextSlot, lastTs>>
      /\ UNCHANGED <<want, attempts, target, tgen, acked, faults, cuts, old, failRow, stray>>
  BY <1>1 DEF journal, history
<1>3. hdr' = [hdr EXCEPT ![target] = NewHeader]
  BY DEF WriteHeader
<1>4. target \in Ring /\ active \in Ring /\ hdr \in HeaderType /\ rec \in RecordType
  BY DEF TelemetryTypeOK, HeaderType, RecordType
<1>5. NewHeader \in [fmt : {"none", "half", "v1", "v2"}, gen : 0..(GenMod - 1), first : Nat]
  BY DEF NewHeader, TelemetryTypeOK
<1>6. hdr' \in HeaderType
  BY <1>3, <1>4, <1>5 DEF HeaderType
<1>7. TelemetryTypeOK'
  BY <1>1, <1>2, <1>6 DEF TelemetryTypeOK, HeaderType
<1>8. ready => target # active
  BY <1>1, <1>4, NextSectorFact DEF OperationInv, Rotating
<1>9. \A s \in Ring : s # target => hdr'[s] = hdr[s]
  BY <1>3, <1>4 DEF HeaderType
<1>10. PositionInv'
  BY <1>2, <1>4, <1>8, <1>9 DEF PositionInv
<1>11. Blank(target)' /\ ~Readable(target)'
  <2>1. hdr'[target].fmt = "half"
    BY <1>3, <1>4 DEF NewHeader, HeaderType
  <2>2. Blank(target)
    BY <1>1 DEF OperationInv
  <2> QED BY <1>2, <2>1, <2>2 DEF Blank, Readable
<1>12. (\A s \in Ring : ~Readable(s)) => (\A s \in Ring : ~Readable(s))'
  <2>1. ~(hdr'[target].fmt \in {"v1", "v2"})
    BY <1>2, <1>11 DEF Readable
  <2> QED BY <1>9, <2>1 DEF Readable
<1>13. OperationInv'
  BY <1>1, <1>2, <1>11, <1>12 DEF OperationInv, Rotating, NextSector
<1> QED BY <1>7, <1>10, <1>13

(* The last one: the caller goes on in an empty sector.                    *)
LEMMA CommitRingInv ==
  ASSUME RingInv, WriteCommit
  PROVE  /\ RingInv' /\ pc' \in {"idle", "record"}
         /\ pc' = "record" => want' = want /\ want > lastTs /\ attempts' = attempts
<1> USE DEF RingInv
<1>1. UNCHANGED <<rec, nextSeq, lastTs, acked, faults, cuts, old, history>> /\ pc = "commit"
  BY DEF WriteCommit
<1>2. UNCHANGED <<rec, nextSeq, lastTs>> /\ UNCHANGED <<acked, faults, cuts, old, failRow, stray>>
  BY <1>1 DEF history
<1>3. /\ hdr' = [hdr EXCEPT ![target].fmt = "v2"]
      /\ active' = target /\ gen' = tgen /\ nextSlot' = 0 /\ ready' = TRUE
      /\ AppendTo(target, tgen, 0, lastTs, want, attempts)
  BY DEF WriteCommit
<1>4. /\ target \in Ring /\ tgen \in 0..(GenMod - 1) /\ hdr \in HeaderType /\ 0 \in 0..Slots
      /\ lastTs \in Times \union {0} /\ want \in Times \union {0}
  BY RingFacts DEF TelemetryTypeOK, HeaderType
<1>5. Rotating /\ attempts \in {1, 2} /\ Blank(target)
  BY <1>1 DEF OperationInv, Rotating
<1>6. /\ pc' \in {"idle", "erase", "record"} /\ OperationType'
      /\ pc' = "idle" => want' = 0 /\ attempts' = 0
      /\ pc' = "erase" => 0 = Slots
      /\ pc' # "idle" => want' = want /\ want > lastTs /\ attempts' = attempts
  BY <1>3, <1>4, <1>5, AppendToFact DEF OperationType
<1>7. pc' \in {"idle", "record"}
  BY <1>6, RingFacts
<1>8. hdr' \in HeaderType /\ hdr'[target].fmt = "v2"
  BY <1>3, <1>4 DEF HeaderType
<1>9. TelemetryTypeOK'
  <2>1. nextSlot' \in 0..Most
    BY <1>3, PlaceFacts
  <2> QED BY <1>2, <1>3, <1>4, <1>6, <1>8, <2>1 DEF TelemetryTypeOK, OperationType, HeaderType
<1>10. PositionInv'
  <2>1. nextSlot' \in 0..Slots /\ \A k \in 0..(Slots - 1) : k \in Places
    BY <1>3, PlaceFacts, RingFacts
  <2> QED BY <1>2, <1>3, <1>5, <1>8, <2>1 DEF PositionInv, Blank
<1>11. OperationInv'
  BY <1>2, <1>3, <1>5, <1>6, <1>7, RingFacts DEF OperationInv, Rotating
<1> QED BY <1>6, <1>7, <1>9, <1>10, <1>11

(* The record write.                                                       *)
LEMMA RecordRingInv ==
  ASSUME RingInv, WriteRecord
  PROVE  RingInv' /\ Recorded(active, nextSlot, NewRecord)
<1> USE DEF RingInv
<1>1. UNCHANGED <<hdr, ready, active, gen, target, tgen, faults, cuts, old, stray>> /\ pc = "record"
  BY DEF WriteRecord
<1>2. /\ rec' = [rec EXCEPT ![active][nextSlot] = Programmed(@, NewRecord)]
      /\ nextSlot' = nextSlot + 1 /\ lastTs' = want /\ nextSeq' = nextSeq + 1
      /\ acked' = acked \union {want}
      /\ pc' = "idle" /\ want' = 0 /\ attempts' = 0 /\ failRow' = RowEnds
  BY DEF WriteRecord
<1>3. /\ want \in Times /\ NewRecord \in Records /\ want > lastTs
      /\ active \in Ring /\ nextSlot \in Places /\ rec[active][nextSlot] = Erased
      /\ hdr[active].fmt = "v2"
  BY <1>1, NewRecordType
<1>4. rec \in RecordType /\ nextSlot \in Nat /\ nextSlot < Slots /\ HistoryType
  <2>1. nextSlot \in 0..(Slots - 1) /\ Slots \in Nat
    BY <1>1, NewRecordType, RingFacts
  <2>2. rec \in RecordType /\ HistoryType
    BY DEF TelemetryTypeOK, RecordType, HistoryType
  <2> QED BY <2>1, <2>2
<1>5. rec' = [rec EXCEPT ![active][nextSlot] = NewRecord]
  BY <1>2, <1>3, <1>4 DEF Programmed, RecordType
<1>6. rec' \in RecordType
  BY <1>3, <1>4, <1>5 DEF RecordType
<1>7. nextSlot + 1 \in 0..Slots /\ nextSlot' \in 0..Most
  BY <1>2, <1>4, RingFacts
<1>8. RowEnds \in 0..RowLimit
  BY <1>4, RowEndsType
<1>9. TelemetryTypeOK'
  <2>1. nextSeq' \in Nat \ {0}
    BY <1>2 DEF TelemetryTypeOK
  <2>2. HistoryType'
    BY <1>1, <1>2, <1>3, <1>4, <1>8 DEF HistoryType
  <2> QED BY <1>1, <1>2, <1>3, <1>6, <1>7, <2>1, <2>2 DEF TelemetryTypeOK, RecordType, HistoryType
<1>10. PositionInv'
  <2>1. \A k \in 0..(Slots - 1) : k >= nextSlot + 1 => rec'[active][k] = Erased
    <3> SUFFICES ASSUME NEW k \in 0..(Slots - 1), k >= nextSlot + 1 PROVE rec'[active][k] = Erased
      OBVIOUS
    <3>1. k # nextSlot /\ k >= nextSlot
      BY <1>4, RingFacts
    <3>2. rec'[active][k] = rec[active][k]
      BY <1>3, <1>4, <1>5, <3>1 DEF RecordType
    <3>3. ready
      BY <1>1 DEF OperationInv
    <3> QED BY <3>1, <3>2, <3>3 DEF PositionInv
  <2> QED BY <1>2, <1>1, <1>3, <1>7, <2>1 DEF PositionInv
<1>11. OperationInv'
  BY <1>2 DEF OperationInv, Rotating
<1> QED BY <1>1, <1>3, <1>5, <1>9, <1>10, <1>11 DEF Recorded

(* A rotation that fails adds nothing to read.                             *)
LEMMA CommitFailsRingInv ==
  ASSUME RingInv, CommitFails
  PROVE  RingInv' /\ Rotating /\ Thinned(target)
<1> USE DEF RingInv
<1>1. /\ UNCHANGED <<journal, target, tgen, acked, cuts, old, failRow>> /\ Rotating
      /\ faults' = faults + 1 /\ pc' = "idle" /\ want' = 0 /\ attempts' = 0
      /\ stray' = (stray \/ want \in Kept')
  BY DEF CommitFails, Rotating
<1>2. UNCHANGED <<ready, active, gen, nextSeq, nextSlot, lastTs>>
  BY <1>1 DEF journal
<1>3. PICK f \in PartialFlash : hdr' = f[1] /\ rec' = f[2]
  BY DEF CommitFails
<1>4. hdr' \in HeaderType /\ rec' \in RecordType /\ Thinned(target)
  BY <1>1, <1>3, RotationEffect DEF Thinned
<1>5. TelemetryTypeOK'
  <2>1. stray' \in BOOLEAN /\ faults' \in Nat
    BY <1>1 DEF TelemetryTypeOK
  <2> QED BY <1>1, <1>2, <1>4, <2>1 DEF TelemetryTypeOK, HeaderType, RecordType
<1>6. ready => target # active /\ active \in Ring
  BY <1>1, NextSectorFact DEF OperationInv, TelemetryTypeOK
<1>7. PositionInv'
  BY <1>2, <1>4, <1>6 DEF PositionInv, Thinned
<1>8. OperationInv'
  BY <1>1, <1>2 DEF OperationInv, Rotating
<1> QED BY <1>1, <1>4, <1>5, <1>7, <1>8

(* A record write that fails: the slot is given up, and the next one tried *)
(* once.                                                                   *)
LEMMA RecordFailsRingInv ==
  ASSUME RingInv, RecordFails
  PROVE  /\ RingInv' /\ \E v \in {Erased, Torn, NewRecord} : Recorded(active, nextSlot, v)
         /\ pc' \in {"idle", "erase", "record"}
         /\ pc' # "idle" => /\ attempts = 2 /\ attempts' = 1 /\ want' = want /\ UNCHANGED stray
         /\ attempts = 2 => pc' # "idle"
         /\ attempts = 1 => pc' = "idle" /\ stray' = (stray \/ want \in Kept')
<1> USE DEF RingInv
<1>1. /\ UNCHANGED <<ready, active, gen, nextSeq, lastTs, acked, cuts, old>> /\ pc = "record"
      /\ faults' = faults + 1 /\ nextSlot' = nextSlot + 1
      /\ failRow' = IF failRow < RowLimit THEN failRow + 1 ELSE failRow
  BY DEF RecordFails
<1>2. /\ want \in Times /\ NewRecord \in Records /\ want > lastTs
      /\ active \in Ring /\ nextSlot \in Places /\ rec[active][nextSlot] = Erased
      /\ hdr[active].fmt = "v2"
  BY <1>1, NewRecordType
<1>3. PICK f \in PartialFlash : hdr' = f[1] /\ rec' = f[2]
  BY DEF RecordFails
<1>4. f[1] = hdr /\ \E v \in {Erased, Torn, NewRecord} : f[2] = [rec EXCEPT ![active][nextSlot] = v]
  BY <1>1, RecordEffect
<1>5. PICK v \in {Erased, Torn, NewRecord} : rec' = [rec EXCEPT ![active][nextSlot] = v]
  BY <1>3, <1>4
<1>6. rec \in RecordType /\ nextSlot \in Nat /\ nextSlot < Slots /\ HistoryType
  <2>1. nextSlot \in 0..(Slots - 1) /\ Slots \in Nat
    BY <1>1, NewRecordType, RingFacts
  <2>2. rec \in RecordType /\ HistoryType
    BY DEF TelemetryTypeOK, RecordType, HistoryType
  <2> QED BY <2>1, <2>2
<1>7. hdr' = hdr /\ rec' \in RecordType
  BY <1>2, <1>3, <1>4, <1>5, <1>6 DEF RecordType
<1>8. /\ nextSlot + 1 \in 0..Slots /\ nextSlot' \in 0..Slots /\ nextSlot' \in 0..Most
      /\ attempts \in {1, 2}
  BY <1>1, <1>6, RingFacts DEF OperationInv
<1>9. failRow' \in 0..RowLimit /\ faults' \in Nat
  BY <1>1, <1>6, RowLimitFact DEF HistoryType
<1>10. PositionInv'
  <2>1. \A k \in 0..(Slots - 1) : k >= nextSlot + 1 => rec'[active][k] = Erased
    <3> SUFFICES ASSUME NEW k \in 0..(Slots - 1), k >= nextSlot + 1 PROVE rec'[active][k] = Erased
      OBVIOUS
    <3>1. k # nextSlot /\ k >= nextSlot
      BY <1>6, RingFacts
    <3>2. rec'[active][k] = rec[active][k]
      BY <1>2, <1>5, <1>6, <3>1 DEF RecordType
    <3>3. ready
      BY <1>1 DEF OperationInv
    <3> QED BY <3>1, <3>2, <3>3 DEF PositionInv
  <2> QED BY <1>1, <1>2, <1>7, <1>8, <2>1 DEF PositionInv
<1>11. /\ OperationType' /\ stray' \in BOOLEAN
       /\ pc' \in {"idle", "erase", "record"}
       /\ pc' = "idle" => want' = 0 /\ attempts' = 0
       /\ pc' = "record" => nextSlot + 1 < Slots
       /\ pc' = "erase" => nextSlot + 1 = Slots /\ target' = NextSector(active)
       /\ pc' # "idle" => /\ attempts = 2 /\ attempts' = 1 /\ want' = want /\ UNCHANGED stray
       /\ attempts = 2 => pc' # "idle"
       /\ attempts = 1 => pc' = "idle" /\ stray' = (stray \/ want \in Kept')
  <2>1. CASE attempts = 2
    <3>1. AppendTo(active, gen, nextSlot + 1, lastTs, want, 1) /\ stray' = stray
      BY <2>1 DEF RecordFails
    <3>2. gen \in 0..(GenMod - 1) /\ lastTs \in Times \union {0} /\ want \in Times \union {0}
      BY DEF TelemetryTypeOK
    <3>3. /\ OperationType' /\ pc' \in {"idle", "erase", "record"}
          /\ pc' = "idle" => want' = 0 /\ attempts' = 0
          /\ pc' = "record" => nextSlot + 1 < Slots
          /\ pc' = "erase" => nextSlot + 1 = Slots /\ target' = NextSector(active)
          /\ pc' # "idle" => attempts' = 1 /\ want' = want
      BY <1>2, <1>8, <3>1, <3>2, AppendToFact DEF OperationType
    <3>4. pc' # "idle"
      <4>1. ~(want = 0 \/ want <= lastTs)
        BY <1>2, <3>2, RingFacts DEF Times
      <4> QED BY <3>1, <4>1 DEF AppendTo, CommitSector
    <3> QED BY <2>1, <3>1, <3>3, <3>4 DEF TelemetryTypeOK
  <2>2. CASE attempts = 1
    <3>1. /\ pc' = "idle" /\ want' = 0 /\ attempts' = 0
          /\ stray' = (stray \/ want \in Kept') /\ target' = target /\ tgen' = tgen
      BY <2>2 DEF RecordFails
    <3>2. stray' \in BOOLEAN
      BY <3>1
    <3> QED BY <2>2, <3>1, <3>2 DEF TelemetryTypeOK, OperationType
  <2> QED BY <1>8, <2>1, <2>2
<1>12. TelemetryTypeOK'
  BY <1>1, <1>7, <1>8, <1>9, <1>11 DEF TelemetryTypeOK, OperationType, RecordType
<1>13. OperationInv'
  <2>1. ready /\ pc' = "erase" => target' = NextSector(active)'
    BY <1>1, <1>11 DEF NextSector
  <2>2. ready
    BY <1>1 DEF OperationInv
  <2> QED BY <1>1, <1>2, <1>11, <2>1, <2>2 DEF OperationInv, Rotating
<1> QED BY <1>2, <1>5, <1>7, <1>10, <1>11, <1>12, <1>13 DEF Recorded

(* A loss of power, in the middle of an operation or between two.          *)
LEMMA PowerCutRingInv ==
  ASSUME RingInv, PowerCut
  PROVE  /\ RingInv'
         /\ \/ UNCHANGED <<hdr, rec>>
            \/ Rotating /\ Thinned(target)
            \/ pc = "record" /\ \E v \in {Erased, Torn, NewRecord} : Recorded(active, nextSlot, v)
<1> USE DEF RingInv
<1>1. /\ cuts' = cuts + 1 /\ pc' = "off"
      /\ ready' = FALSE /\ active' = 0 /\ gen' = 0 /\ nextSeq' = 1 /\ nextSlot' = 0 /\ lastTs' = 0
      /\ want' = 0 /\ attempts' = 0 /\ target' = 0 /\ tgen' = 0
      /\ failRow' = RowEnds /\ UNCHANGED <<acked, faults, old, stray>>
  BY DEF PowerCut
<1>2. PICK f \in PartialFlash : hdr' = f[1] /\ rec' = f[2]
  BY DEF PowerCut
<1>3. hdr \in HeaderType /\ rec \in RecordType
  BY DEF TelemetryTypeOK, HeaderType, RecordType
<1>4. /\ hdr' \in HeaderType /\ rec' \in RecordType
      /\ \/ UNCHANGED <<hdr, rec>>
         \/ Rotating /\ Thinned(target)
         \/ pc = "record" /\ \E v \in {Erased, Torn, NewRecord} : Recorded(active, nextSlot, v)
  <2>1. CASE Rotating
    <3>1. hdr' \in HeaderType /\ rec' \in RecordType /\ Thinned(target)
      BY <1>2, <2>1, RotationEffect DEF Thinned
    <3> QED BY <2>1, <3>1
  <2>2. CASE pc = "record"
    <3>1. /\ f[1] = hdr /\ rec[active][nextSlot] = Erased
          /\ \E v \in {Erased, Torn, NewRecord} : f[2] = [rec EXCEPT ![active][nextSlot] = v]
      BY <2>2, RecordEffect
    <3>2. active \in Ring /\ nextSlot \in Places /\ NewRecord \in Records
      BY <2>2, NewRecordType
    <3>3. PICK v \in {Erased, Torn, NewRecord} : f[2] = [rec EXCEPT ![active][nextSlot] = v]
      BY <3>1
    <3>4. [rec EXCEPT ![active][nextSlot] = v] \in RecordType
      BY <1>3, <3>2 DEF RecordType
    <3> QED BY <1>2, <1>3, <2>2, <3>1, <3>3, <3>4 DEF Recorded
  <2>3. CASE pc \in {"off", "idle"}
    BY <1>2, <1>3, <2>3, IdleEffect
  <2> QED BY <2>1, <2>2, <2>3 DEF Rotating, TelemetryTypeOK
<1>5. RowEnds \in 0..RowLimit
  BY RowEndsType DEF HistoryType, TelemetryTypeOK
<1>6. 0 \in Ring /\ 0 \in 0..Most /\ 0 \in 0..(GenMod - 1) /\ cuts' \in Nat
  BY <1>1, RingFacts DEF TelemetryTypeOK
<1>7. TelemetryTypeOK'
  <2>1. PositionType'
    <3>1. 1 \in Nat \ {0}
      OBVIOUS
    <3> QED BY <1>1, <1>6, <3>1, Zenon DEF PositionType
  <2>2. OperationType'
    BY <1>1, <1>6 DEF OperationType
  <2>3. HistoryType'
    BY <1>1, <1>5, <1>6 DEF HistoryType, TelemetryTypeOK
  <2> QED BY <1>4, <2>1, <2>2, <2>3 DEF TelemetryTypeOK, HeaderType, RecordType, PositionType,
                                       OperationType, HistoryType
<1>8. PositionInv' /\ OperationInv'
  BY <1>1 DEF PositionInv, OperationInv, Rotating
<1> QED BY <1>4, <1>7, <1>8

(* Older firmware writes while the journal is not initialized.             *)
LEMMA OldFirmwareRingInv ==
  ASSUME RingInv, NEW ts \in Times, OldFirmware(ts)
  PROVE  RingInv'
<1> USE DEF RingInv
<1>1. UNCHANGED <<journal, op, faults, cuts, history>> /\ acked' = acked \union {ts} /\ old' = old + 1
      /\ pc = "off"
  BY DEF OldFirmware
<1>2. /\ UNCHANGED <<ready, active, gen, nextSeq, nextSlot, lastTs, pc, want, attempts, target, tgen>>
      /\ UNCHANGED <<faults, cuts, failRow, stray>>
  BY <1>1 DEF journal, op, history
<1>3. hdr' \in HeaderType /\ rec' \in RecordType
  BY OldFirmwareEffect
<1>4. TelemetryTypeOK'
  <2>1. HistoryType'
    BY <1>1, <1>2 DEF HistoryType, TelemetryTypeOK
  <2>2. PositionType' /\ OperationType'
    BY <1>2 DEF PositionType, OperationType, TelemetryTypeOK
  <2> QED BY <1>3, <2>1, <2>2 DEF TelemetryTypeOK, HeaderType, RecordType, HistoryType,
                                 PositionType, OperationType
<1>5. PositionInv' /\ OperationInv'
  BY <1>1, <1>2 DEF PositionInv, OperationInv, Rotating
<1> QED BY <1>4, <1>5

(* A start.                                                                *)
LEMMA StartRingInv ==
  ASSUME RingInv, Start
  PROVE  RingInv' /\ UNCHANGED <<hdr, rec>>
<1> USE DEF RingInv
<1>1. /\ pc = "off" /\ pc' = "idle"
      /\ UNCHANGED <<flash, journal, want, attempts, target, tgen, acked, faults, cuts, old, history>>
  BY DEF Start
<1>2. /\ UNCHANGED <<hdr, rec, ready, active, gen, nextSeq, nextSlot, lastTs>>
      /\ UNCHANGED <<want, attempts, target, tgen, acked, faults, cuts, old, failRow, stray>>
  BY <1>1 DEF flash, journal, history
<1>3. TelemetryTypeOK'
  BY <1>1, <1>2 DEF TelemetryTypeOK
<1>4. PositionInv' /\ OperationInv'
  BY <1>1, <1>2 DEF PositionInv, OperationInv, Rotating
<1> QED BY <1>2, <1>3, <1>4

(* The virgin flash.                                                       *)
LEMMA InitRingInv ==
  ASSUME TelemetryInit
  PROVE  RingInv
<1> USE DEF RingInv, TelemetryInit
<1>1. NoHeader \in [fmt : {"none", "half", "v1", "v2"}, gen : 0..(GenMod - 1), first : Nat]
  BY RingFacts DEF NoHeader
<1>2. hdr \in HeaderType /\ rec \in RecordType
  BY <1>1 DEF HeaderType, RecordType
<1>3. 0 \in Ring /\ 0 \in 0..Most /\ 0 \in 0..(GenMod - 1) /\ 0 \in 0..2 /\ 1 \in Nat \ {0} /\ 0 \in Nat
      /\ 0 \in 0..RowLimit
  BY RingFacts, RowLimitFact
<1>4. TelemetryTypeOK
  <2>1. PositionType
    BY <1>3, Zenon DEF PositionType
  <2>2. OperationType
    BY <1>3 DEF OperationType
  <2>3. HistoryType
    BY <1>3, Zenon DEF HistoryType
  <2> QED BY <1>2, <2>1, <2>2, <2>3 DEF TelemetryTypeOK, HeaderType, RecordType, PositionType,
                                       OperationType, HistoryType
<1>5. PositionInv /\ OperationInv
  BY DEF PositionInv, OperationInv, Rotating
<1> QED BY <1>4, <1>5

(* Every step keeps the position.                                          *)
LEMMA RingInvStep ==
  ASSUME RingInv, [TelemetryNext]_vars
  PROVE  RingInv'
<1>1. CASE UNCHANGED vars
  BY <1>1 DEF vars, RingInv, TelemetryTypeOK, PositionInv, OperationInv, Rotating, Blank, Readable,
              NextSector
<1>2. ASSUME NEW ts \in Times \union {0}, Call(ts) PROVE RingInv'
  BY <1>2, CallRingInv
<1>3. ASSUME NEW ts \in Times \union {0}, CallInit(ts) PROVE RingInv'
  BY <1>3, CallInitRingInv
<1>4. ASSUME NEW ts \in Times, OldFirmware(ts) PROVE RingInv'
  BY <1>4, OldFirmwareRingInv
<1> QED BY <1>1, <1>2, <1>3, <1>4, EraseRingInv, HeaderRingInv, CommitRingInv, RecordRingInv,
           CommitFailsRingInv, RecordFailsRingInv, PowerCutRingInv, StartRingInv DEF TelemetryNext

(* The journal's variables and the flash always have their types, and the  *)
(* position in the ring fits what the operation under way has established. *)
THEOREM RingInvAlways == TelemetrySpec => []RingInv
BY InitRingInv, RingInvStep, PTL DEF TelemetrySpec

-----------------------------------------------------------------------------
(* What the steps do to what can be read                                   *)

LEMMA SameSamples ==
  ASSUME UNCHANGED <<hdr, rec>>
  PROVE  /\ \A s \in Ring : Samples(s)' = Samples(s) /\ TS(s)' = TS(s) /\ Readable(s)' = Readable(s)
         /\ AllSamples' = AllSamples /\ Kept' = Kept
<1>1. \A s : Readable(s)' = Readable(s) /\ SlotsIn(s)' = SlotsIn(s)
  BY DEF Readable, SlotsIn
<1>2. \A s \in Ring : Samples(s)' = Samples(s)
  BY <1>1 DEF Samples
<1>3. \A s \in Ring : TS(s)' = TS(s)
  BY <1>2 DEF TS
<1>4. AllSamples' = AllSamples
  BY <1>2 DEF AllSamples
<1>5. Kept' = Kept
  BY <1>4 DEF Kept
<1> QED BY <1>1, <1>2, <1>3, <1>4, <1>5

(* A wiped sector has no samples.                                          *)
LEMMA WipedSamples ==
  ASSUME TelemetryTypeOK', NEW x \in Ring, Wiped(x)
  PROVE  /\ \A s \in Ring \ {x} : Samples(s)' = Samples(s) /\ TS(s)' = TS(s)
         /\ Samples(x)' = {} /\ TS(x)' = {}
<1>1. \A s \in Ring \ {x} : Samples(s)' = Samples(s)
  <2> SUFFICES ASSUME NEW s \in Ring \ {x} PROVE Samples(s)' = Samples(s)
    OBVIOUS
  <2>1. hdr'[s] = hdr[s] /\ rec'[s] = rec[s]
    BY DEF Wiped
  <2> QED BY <2>1 DEF Samples, Readable, SlotsIn
<1>2. Samples(x)' = {}
  <2>1. SlotsIn(x)' \subseteq Places
    BY RingFacts DEF SlotsIn
  <2> QED BY <2>1 DEF Samples, Wiped
<1>3. \A s \in Ring \ {x} : TS(s)' = TS(s)
  BY <1>1 DEF TS
<1>4. TS(x)' = {}
  BY <1>2 DEF TS
<1> QED BY <1>1, <1>2, <1>3, <1>4

(* A thinned sector has no new ones.                                       *)
LEMMA ThinnedSamples ==
  ASSUME TelemetryTypeOK', NEW x \in Ring, Thinned(x)
  PROVE  /\ \A s \in Ring \ {x} : Samples(s)' = Samples(s) /\ TS(s)' = TS(s)
         /\ Samples(x)' \subseteq Samples(x) /\ TS(x)' \subseteq TS(x)
<1>1. \A s \in Ring \ {x} : Samples(s)' = Samples(s)
  <2> SUFFICES ASSUME NEW s \in Ring \ {x} PROVE Samples(s)' = Samples(s)
    OBVIOUS
  <2>1. hdr'[s] = hdr[s] /\ rec'[s] = rec[s]
    BY DEF Thinned
  <2> QED BY <2>1 DEF Samples, Readable, SlotsIn
<1>2. Samples(x)' \subseteq Samples(x)
  <2>1. SlotsIn(x)' \subseteq Places
    BY RingFacts DEF SlotsIn
  <2>2. CASE hdr'[x] = hdr[x] /\ \A k \in Places : rec'[x][k] \in {rec[x][k], Erased, Torn}
    <3>1. Readable(x)' = Readable(x) /\ SlotsIn(x)' = SlotsIn(x)
      BY <2>2 DEF Readable, SlotsIn
    <3>2. CASE Readable(x)
      <4>1. /\ Samples(x) = {rec[x][k] : k \in SlotsIn(x)} \ {Erased, Torn}
            /\ Samples(x)' = {rec'[x][k] : k \in SlotsIn(x)} \ {Erased, Torn}
        BY <3>1, <3>2 DEF Samples
      <4> QED BY <2>1, <2>2, <3>1, <4>1
    <3>3. CASE ~Readable(x)
      BY <3>1, <3>3 DEF Samples
    <3> QED BY <3>2, <3>3
  <2>3. CASE hdr'[x].fmt \in {"none", "half"}
    BY <2>3 DEF Samples, Readable
  <2>4. CASE \A k \in Places : rec'[x][k] \in {Erased, Torn}
    BY <2>1, <2>4 DEF Samples
  <2> QED BY <2>2, <2>3, <2>4 DEF Thinned
<1>3. \A s \in Ring \ {x} : TS(s)' = TS(s)
  BY <1>1 DEF TS
<1>4. TS(x)' \subseteq TS(x)
  BY <1>2 DEF TS
<1> QED BY <1>1, <1>2, <1>3, <1>4

(* A record write adds a sample, or nothing that can be read.              *)
LEMMA RecordedSamples ==
  ASSUME TelemetryTypeOK, NEW a \in Ring, NEW n \in 0..(Slots - 1), NEW v, Recorded(a, n, v),
         hdr[a].fmt = "v2", NewRecord \in Records
  PROVE  /\ \A s \in Ring \ {a} : Samples(s)' = Samples(s) /\ TS(s)' = TS(s) /\ rec'[s] = rec[s]
         /\ v # NewRecord => Samples(a)' = Samples(a) /\ TS(a)' = TS(a)
         /\ v = NewRecord => /\ Samples(a)' = Samples(a) \union {NewRecord}
                             /\ TS(a)' = TS(a) \union {NewRecord.ts}
         /\ rec'[a] = [rec[a] EXCEPT ![n] = v]
<1>1. rec \in RecordType /\ rec[a] \in [Places -> Records \union {Erased, Torn}]
  BY DEF TelemetryTypeOK, RecordType
<1>2. hdr' = hdr /\ rec' = [rec EXCEPT ![a][n] = v] /\ rec[a][n] = Erased
      /\ v \in {Erased, Torn, NewRecord}
  BY DEF Recorded
<1>3. /\ \A s \in Ring \ {a} : rec'[s] = rec[s]
      /\ rec'[a] = [rec[a] EXCEPT ![n] = v]
  BY <1>1, <1>2 DEF RecordType
<1>4. \A s \in Ring : Readable(s)' = Readable(s) /\ SlotsIn(s)' = SlotsIn(s)
  BY <1>2 DEF Readable, SlotsIn
<1>5. \A s \in Ring \ {a} : Samples(s)' = Samples(s)
  BY <1>3, <1>4 DEF Samples
<1>6. Readable(a) /\ SlotsIn(a) = 0..(Slots - 1)
  BY DEF Readable, SlotsIn
<1>7. /\ Samples(a) = {rec[a][k] : k \in 0..(Slots - 1)} \ {Erased, Torn}
      /\ Samples(a)' = {rec'[a][k] : k \in 0..(Slots - 1)} \ {Erased, Torn}
  BY <1>4, <1>6 DEF Samples
<1>8. /\ rec'[a][n] = v
      /\ \A k \in 0..(Slots - 1) : k # n => rec'[a][k] = rec[a][k]
  BY <1>1, <1>3, RingFacts
<1>9. v # NewRecord => Samples(a)' = Samples(a)
  BY <1>2, <1>7, <1>8
<1>10. v = NewRecord => Samples(a)' = Samples(a) \union {NewRecord}
  BY <1>2, <1>7, <1>8, SlotKinds
<1>11. \A s \in Ring \ {a} : TS(s)' = TS(s)
  BY <1>5 DEF TS
<1>12. v # NewRecord => TS(a)' = TS(a)
  BY <1>9 DEF TS
<1>13. v = NewRecord => TS(a)' = TS(a) \union {NewRecord.ts}
  BY <1>10 DEF TS
<1> QED BY <1>3, <1>5, <1>9, <1>10, <1>11, <1>12, <1>13

(* What can be read after a step, in terms of its sectors.                 *)
LEMMA KeptAfter ==
  /\ \A t : t \in Kept' <=> \E s \in Ring : t \in TS(s)'
  /\ \A r : r \in AllSamples' <=> \E s \in Ring : r \in Samples(s)'
BY DEF Kept, AllSamples, TS

(* A sample is one of some sector.                                         *)
LEMMA KeptNow ==
  /\ \A t : t \in Kept <=> \E s \in Ring : t \in TS(s)
  /\ \A r : r \in AllSamples <=> \E s \in Ring : r \in Samples(s)
BY DEF Kept, AllSamples, TS

(* The rotation a step belongs to: what it does to the flash.              *)
LEMMA RotationWipes ==
  ASSUME RingInv, EraseSector \/ WriteHeader \/ WriteCommit
  PROVE  Rotating /\ Wiped(target) /\ Thinned(target)
<1> SUFFICES Rotating /\ Wiped(target)
  BY DEF Wiped, Thinned
<1>1. target \in Ring /\ hdr \in HeaderType /\ rec \in RecordType
  BY DEF RingInv, TelemetryTypeOK, HeaderType, RecordType
<1>2. CASE EraseSector
  BY <1>1, <1>2 DEF EraseSector, Wiped, Rotating, HeaderType, RecordType, NoHeader
<1>3. CASE WriteHeader
  <2>1. Blank(target) /\ rec' = rec /\ hdr' = [hdr EXCEPT ![target] = NewHeader] /\ pc = "header"
    BY <1>3 DEF WriteHeader, RingInv, OperationInv
  <2> QED BY <1>1, <2>1 DEF Wiped, Blank, Rotating, HeaderType, RecordType, NewHeader
<1>4. CASE WriteCommit
  <2>1. Blank(target) /\ rec' = rec /\ hdr' = [hdr EXCEPT ![target].fmt = "v2"] /\ pc = "commit"
    BY <1>4 DEF WriteCommit, RingInv, OperationInv
  <2> QED BY <1>1, <2>1 DEF Wiped, Blank, Rotating, HeaderType, RecordType
<1> QED BY <1>2, <1>3, <1>4

-----------------------------------------------------------------------------
(* The newest sample is kept                                               *)

(* Sector s holds a sample at least as new as each one of T.               *)
Reaches(T, s) == \A t \in T : \E u \in TS(s) : t <= u

(* How many sectors after p sector a follows.                              *)
Gap(p, a) == IF a >= p THEN a - p ELSE a - p + Sectors

(* The slots used since the last one of sector p, when the next is slot n  *)
(* of sector a.                                                            *)
Spent(p, a, n) == IF p = a THEN 0 ELSE n + (Gap(p, a) - 1) * Slots

(* Where it is: in the active sector, or in one before as long as failing  *)
(* writes have used all slots since.                                       *)
NewestAt(T) ==
    /\ ready => \E p \in Ring : Reaches(T, p) /\ Spent(p, active, nextSlot) <= failRow
    /\ Rotating /\ ~ready => Reaches(T, active)
    /\ \A t \in T : \E u \in Kept : t <= u

(* A failing write spends a slot, a rotation none; the ring is used up     *)
(* before a rotation comes back to p.                                      *)
LEMMA SpentFacts ==
  ASSUME NEW p \in Ring, NEW a \in Ring, NEW n \in 0..Slots
  PROVE  /\ Spent(p, a, n) \in Nat /\ Spent(a, a, n) = 0
         /\ n < Slots => Spent(p, a, n + 1) <= Spent(p, a, n) + 1
         /\ n = Slots /\ Spent(p, a, n) < RowLimit
            => NextSector(a) # p /\ Spent(p, NextSector(a), 0) <= Spent(p, a, n)
<1> DEFINE g == Gap(p, a)
<1>1. /\ p \in Nat /\ a \in Nat /\ Sectors \in Nat /\ Slots \in Nat /\ Sectors >= 2
      /\ p < Sectors /\ a < Sectors /\ n \in Nat
  BY RingFacts
<1>2. NextSector(a) = IF a + 1 = Sectors THEN 0 ELSE a + 1
  BY NextSectorFact
<1>3. /\ g \in Nat /\ (p # a => g >= 1)
      /\ NextSector(a) # p => Gap(p, NextSector(a)) = g + 1
      /\ NextSector(a) = p => g = Sectors - 1
  BY <1>1, <1>2 DEF Gap
<1> HIDE DEF g
<1>4. p # a => /\ g - 1 \in Nat /\ (g - 1) * Slots \in Nat
               /\ \A k : Spent(p, a, k) = k + (g - 1) * Slots
  BY <1>3, RowLimitFact DEF Spent, g
<1>5. p = a => \A k : Spent(p, a, k) = 0
  BY DEF Spent
<1>6. Spent(a, a, n) = 0
  BY DEF Spent
<1>7. Spent(p, a, n) \in Nat /\ (n < Slots => Spent(p, a, n + 1) <= Spent(p, a, n) + 1)
  BY <1>1, <1>4, <1>5
<1>8. ASSUME n = Slots, Spent(p, a, n) < RowLimit
      PROVE  NextSector(a) # p /\ Spent(p, NextSector(a), 0) <= Spent(p, a, n)
  <2>1. NextSector(a) # p => Spent(p, NextSector(a), 0) = g * Slots
    <3>1. NextSector(a) # p => Spent(p, NextSector(a), 0) = 0 + (g + 1 - 1) * Slots
      BY <1>3 DEF Spent
    <3>2. g + 1 - 1 = g
      BY <1>3
    <3>3. 0 + g * Slots = g * Slots
      BY <1>3, RowLimitFact
    <3> QED BY <3>1, <3>2, <3>3
  <2>2. CASE p = a
    <3>1. NextSector(a) # p
      BY <2>2, NextSectorFact
    <3>2. g = 0
      BY <1>1, <2>2 DEF g, Gap
    <3>3. g * Slots = 0
      BY <1>1, <3>2
    <3> QED BY <1>5, <2>1, <2>2, <3>1, <3>3
  <2>3. CASE p # a
    <3>1. Spent(p, a, n) = g * Slots
      <4>1. Slots + (g - 1) * Slots = g * Slots
        BY <1>1, <1>3, SMT
      <4> QED BY <1>4, <1>8, <2>3, <4>1
    <3>2. g < Sectors - 1
      BY <1>3, <1>8, <3>1, RowLimitFact
    <3>3. NextSector(a) # p
      BY <1>1, <1>3, <3>2
    <3> QED BY <1>7, <2>1, <3>1, <3>3
  <2> QED BY <2>2, <2>3
<1> QED BY <1>6, <1>7, <1>8

(* A rotation never touches the sector with the newest sample.             *)
LEMMA NewestSpared ==
  ASSUME RingInv, RingInv', Rotating, failRow < RowLimit, NEW T, NewestAt(T), Thinned(target)
  PROVE  /\ \A s \in Ring : s # target => TS(s)' = TS(s)
         /\ T = {} \/ \E p \in Ring :
                /\ p # target /\ Reaches(T, p) /\ Spent(p, target, 0) <= failRow
                /\ IF ready THEN Spent(p, active, nextSlot) <= failRow ELSE p = active
                /\ \A u \in TS(p) : u \in Kept'
<1> /\ active \in Ring /\ target \in Ring /\ TelemetryTypeOK /\ TelemetryTypeOK'
    /\ failRow \in Nat /\ Slots \in Nat /\ nextSlot \in Nat
  BY RingFacts, NumberFacts DEF RingInv, TelemetryTypeOK
<1>1. \A s \in Ring : s # target => TS(s)' = TS(s)
  BY ThinnedSamples
<1>2. \A s \in Ring : s # target => \A u \in TS(s) : u \in Kept'
  BY <1>1, KeptAfter
<1>3. CASE ready
  <2>1. nextSlot = Slots /\ target = NextSector(active) /\ Slots \in 0..Slots
    BY <1>3 DEF RingInv, OperationInv
  <2>2. PICK p \in Ring : Reaches(T, p) /\ Spent(p, active, nextSlot) <= failRow
    BY <1>3 DEF NewestAt
  <2>3. Spent(p, active, Slots) \in Nat /\ Spent(p, active, Slots) <= failRow
    BY <2>1, <2>2, SpentFacts
  <2>4. Spent(p, active, Slots) < RowLimit
    BY <2>3, RowLimitFact
  <2>5. NextSector(active) # p /\ Spent(p, NextSector(active), 0) <= Spent(p, active, Slots)
    BY <2>1, <2>4, SpentFacts
  <2>6. Spent(p, NextSector(active), 0) \in Nat
    BY NextSectorFact, SpentFacts
  <2>7. p # target /\ Spent(p, target, 0) <= failRow
    BY <2>1, <2>3, <2>5, <2>6
  <2> QED BY <1>1, <1>2, <1>3, <2>2, <2>7
<1>4. CASE ~ready
  <2>1. Reaches(T, active)
    BY <1>4 DEF NewestAt
  <2>2. CASE target = NextSector(active)
    <3>1. active # target
      BY <2>2, NextSectorFact
    <3>2. Spent(active, active, Slots) = 0 /\ 0 < RowLimit
      BY SpentFacts, RowLimitFact
    <3>3. Spent(active, target, 0) <= 0
      BY <2>2, <3>2, SpentFacts
    <3>4. Spent(active, target, 0) \in Nat
      BY SpentFacts
    <3>5. PICK p \in Ring : p = active
      OBVIOUS
    <3>6. /\ p # target /\ Reaches(T, p) /\ Spent(p, target, 0) <= failRow
      BY <2>1, <3>1, <3>3, <3>4, <3>5
    <3> QED BY <1>1, <1>2, <1>4, <3>5, <3>6
  <2>3. CASE \A s \in Ring : ~Readable(s)
    <3>1. TS(active) = {}
      BY <2>3, SamplesFact DEF TS
    <3>2. T = {}
      BY <2>1, <3>1 DEF Reaches
    <3> QED BY <1>1, <3>2
  <2> QED BY <1>4, <2>2, <2>3 DEF RingInv, OperationInv
<1> QED BY <1>3, <1>4

(* The newest of T, or of U, which adds at most what a record write        *)
(* programs, stays where NewestAt says.                                    *)
LEMMA NewestStep ==
  ASSUME RingInv, RingInv', TelemetryNext, ~\E ts \in Times : OldFirmware(ts),
         failRow' < RowLimit, NEW T \in SUBSET Nat, NewestAt(T), NEW U,
         \/ U \subseteq T
         \/ /\ pc = "record" /\ Recorded(active, nextSlot, NewRecord)
            /\ U \subseteq T \union {want} /\ \A t \in T : t <= want,
         WriteRecord => \A t \in T : t <= want
  PROVE  NewestAt(U)'
<1> /\ active \in Ring /\ target \in Ring /\ TelemetryTypeOK /\ TelemetryTypeOK'
    /\ failRow \in Nat /\ Slots \in Nat /\ nextSlot \in Nat /\ failRow' \in Nat
  <2>1. TelemetryTypeOK /\ TelemetryTypeOK' /\ active \in Ring /\ target \in Ring
    BY DEF RingInv, TelemetryTypeOK
  <2>2. failRow' \in Nat
    <3>1. failRow' \in 0..RowLimit
      BY <2>1 DEF TelemetryTypeOK
    <3> QED BY <3>1, RowLimitFact
  <2> QED BY <2>1, <2>2, RingFacts, NumberFacts
<1>1. \A W \in SUBSET T : \A s : Reaches(T, s) => Reaches(W, s)
  BY DEF Reaches
<1>2. ASSUME NEW ts \in Times \union {0}, Call(ts) PROVE NewestAt(U)'
  <2>1. pc = "idle" /\ ready /\ U \subseteq T
    BY <1>2 DEF Call
  <2>2. UNCHANGED <<hdr, rec, ready, active, nextSlot, failRow>>
    BY <1>2 DEF Call, flash, journal, history
  <2>3. Kept' = Kept /\ \A s \in Ring : TS(s)' = TS(s)
    BY <2>2, SameSamples
  <2>4. ASSUME NEW s \in Ring, Reaches(T, s) PROVE Reaches(U, s)'
    BY <2>1, <2>3, <2>4 DEF Reaches
  <2>5. Reaches(T, active) => \E s \in Ring : active' = s /\ Reaches(U, s)'
    BY <2>2, <2>4
  <2>6. Reaches(T, active) => Reaches(U, active)'
    BY <2>5 DEF Reaches
  <2>7. ASSUME NEW p \in Ring, active = NextSector(p) PROVE active' = NextSector(p)'
    BY <2>2, <2>7 DEF NextSector
  <2>8. \A t \in U : \E u \in Kept' : t <= u
    BY <2>1, <2>3 DEF NewestAt
  <2> QED BY <2>1, <2>2, <2>4, <2>6, <2>7, <2>8 DEF NewestAt
<1>3. ASSUME NEW ts \in Times \union {0}, CallInit(ts) PROVE NewestAt(U)'
  <2>0. PICK b \in Ring : b = Scan[Sectors].best
    BY ScanFact
  <2>1. pc = "idle" /\ ~ready /\ U \subseteq T
    BY <1>3 DEF CallInit
  <2>2. UNCHANGED <<hdr, rec, failRow>> /\ active' = b
    BY <1>3, <2>0 DEF CallInit, flash, history
  <2>3. Kept' = Kept /\ \A s \in Ring : TS(s)' = TS(s)
    BY <2>2, SameSamples
  <2>5. ASSUME NEW t \in T PROVE \E u \in TS(b) : t <= u
    <3>1. PICK u \in Kept : t <= u
      BY DEF NewestAt
    <3>2. PICK s \in Ring : u \in TS(s)
      BY <3>1, KeptNow
    <3>3. Scan[Sectors].found
      BY <3>2, ScanFact, SamplesFact DEF TS
    <3>4. PICK w \in TS(b) : u <= w
      BY <2>0, <3>2, <3>3, ScanFact
    <3>5. u \in Nat /\ w \in Nat
      BY <3>2, <3>4, SamplesFact, RingFacts DEF Times
    <3> QED BY <3>1, <3>4, <3>5
  <2>6. Reaches(U, b)'
    BY <2>1, <2>3, <2>5 DEF Reaches
  <2>7. Reaches(U, active)'
    BY <2>2, <2>6 DEF Reaches
  <2>8. \A t \in U : \E u \in Kept' : t <= u
    BY <2>1, <2>3 DEF NewestAt
  <2>9. Spent(b, active', nextSlot') = 0
    BY <2>2 DEF Spent
  <2> QED BY <2>6, <2>7, <2>8, <2>9 DEF NewestAt
<1>4. ASSUME Rotating, Thinned(target), failRow' = failRow, U \subseteq T
      PROVE  /\ \A t \in U : \E u \in Kept' : t <= u
             /\ \E p \in Ring :
                    /\ Reaches(U, p)' /\ (Spent(p, target, 0) <= failRow' \/ U = {})
                    /\ IF ready THEN Spent(p, active, nextSlot) <= failRow' ELSE p = active
  <2>1. /\ \A s \in Ring : s # target => TS(s)' = TS(s)
        /\ T = {} \/ \E p \in Ring :
                /\ p # target /\ Reaches(T, p) /\ Spent(p, target, 0) <= failRow
                /\ IF ready THEN Spent(p, active, nextSlot) <= failRow ELSE p = active
                /\ \A u \in TS(p) : u \in Kept'
    BY <1>4, NewestSpared
  <2>2. CASE U = {}
    <3>1. PICK p \in Ring : p = active
      OBVIOUS
    <3>2. Spent(p, active, nextSlot) = 0 /\ Reaches(U, p)'
      BY <2>2, <3>1 DEF Spent, Reaches
    <3> QED BY <2>2, <3>1, <3>2
  <2>3. CASE U # {}
    <3>1. PICK p \in Ring :
                /\ p # target /\ Reaches(T, p) /\ Spent(p, target, 0) <= failRow
                /\ IF ready THEN Spent(p, active, nextSlot) <= failRow ELSE p = active
                /\ \A u \in TS(p) : u \in Kept'
      BY <1>4, <2>1, <2>3
    <3>2. Reaches(U, p)' /\ \A t \in U : \E u \in Kept' : t <= u
      BY <1>4, <2>1, <3>1 DEF Reaches
    <3> QED BY <1>4, <3>1, <3>2
  <2> QED BY <2>2, <2>3
<1>5. CASE EraseSector \/ WriteHeader
  <2>1. Rotating /\ Thinned(target)
    BY <1>5, RotationWipes
  <2>2. UNCHANGED <<ready, active, nextSlot, failRow>> /\ pc' \in {"header", "commit"}
    BY <1>5 DEF EraseSector, WriteHeader, journal, history
  <2>3. U \subseteq T
    BY <2>1 DEF Rotating
  <2>4. /\ \A t \in U : \E u \in Kept' : t <= u
        /\ \E p \in Ring :
               /\ Reaches(U, p)'
               /\ IF ready THEN Spent(p, active, nextSlot) <= failRow' ELSE p = active
    BY <1>4, <2>1, <2>2, <2>3
  <2>5. ~ready => Reaches(U, active)'
    BY <2>2, <2>4 DEF Reaches
  <2> QED BY <2>2, <2>4, <2>5 DEF NewestAt
<1>6. CASE WriteCommit
  <2>1. Rotating /\ Thinned(target)
    BY <1>6, RotationWipes
  <2>2. /\ active' = target /\ nextSlot' = 0 /\ ready' = TRUE /\ failRow' = failRow
    BY <1>6 DEF WriteCommit, history
  <2>3. U \subseteq T
    BY <2>1 DEF Rotating
  <2>4. PICK p \in Ring : Reaches(U, p)' /\ (Spent(p, target, 0) <= failRow' \/ U = {})
    BY <1>4, <2>1, <2>2, <2>3
  <2>5. \A t \in U : \E u \in Kept' : t <= u
    BY <1>4, <2>1, <2>2, <2>3
  <2>6. CASE U # {}
    BY <2>2, <2>4, <2>5, <2>6 DEF NewestAt
  <2>7. CASE U = {}
    <3>1. PICK a \in Ring : a = active'
      BY <2>2
    <3>2. Spent(a, active', nextSlot') = 0 /\ Reaches(U, a)'
      BY <2>7, <3>1 DEF Spent, Reaches
    <3>3. \E s \in Ring : Reaches(U, s)' /\ Spent(s, active', nextSlot') <= failRow'
      BY <3>2
    <3>4. (Rotating /\ ~ready => Reaches(U, active))'
      BY <2>2
    <3> QED BY <2>5, <3>3, <3>4 DEF NewestAt
  <2> QED BY <2>6, <2>7
<1>7. CASE CommitFails
  <2>1. Rotating /\ Thinned(target)
    BY <1>7, CommitFailsRingInv
  <2>2. UNCHANGED <<ready, active, nextSlot, failRow>> /\ pc' = "idle"
    BY <1>7 DEF CommitFails, journal
  <2>3. U \subseteq T
    BY <2>1 DEF Rotating
  <2>4. /\ \A t \in U : \E u \in Kept' : t <= u
        /\ \E p \in Ring :
               /\ Reaches(U, p)'
               /\ IF ready THEN Spent(p, active, nextSlot) <= failRow' ELSE p = active
    BY <1>4, <2>1, <2>2, <2>3
  <2> QED BY <2>2, <2>4 DEF NewestAt, Rotating
<1>8. CASE Start
  <2>1. UNCHANGED <<hdr, rec>> /\ ~ready' /\ pc' = "idle" /\ U \subseteq T
    BY <1>8, StartRingInv DEF Start, journal, RingInv, OperationInv
  <2>2. Kept' = Kept
    BY <2>1, SameSamples
  <2> QED BY <2>1, <2>2 DEF NewestAt, Rotating
<1>9. ASSUME pc = "record", NEW v \in {Erased, Torn, NewRecord}, Recorded(active, nextSlot, v),
             U \subseteq T \/ (v = NewRecord /\ U \subseteq T \union {want} /\ \A t \in T : t <= want)
      PROVE  /\ \A t \in U : \E u \in Kept' : t <= u
             /\ \A s \in Ring : Reaches(T, s) => Reaches(T, s)'
             /\ /\ v = NewRecord /\ U \subseteq T \union {want} /\ active' = active
                /\ \A t \in T : t <= want
                => Reaches(U, active)'
  <2>1. /\ active \in Ring /\ nextSlot \in 0..(Slots - 1) /\ hdr[active].fmt = "v2"
        /\ NewRecord \in Records /\ NewRecord.ts = want /\ want \in Times
    BY <1>9, NewRecordType
  <2>2. PICK a \in Ring : a = active
    OBVIOUS
  <2>3. Recorded(a, nextSlot, v) /\ hdr[a].fmt = "v2"
    BY <1>9, <2>1, <2>2
  <2>4. /\ \A s \in Ring \ {a} : TS(s)' = TS(s)
        /\ v # NewRecord => TS(a)' = TS(a)
        /\ v = NewRecord => TS(a)' = TS(a) \union {want}
    BY <2>1, <2>3, RecordedSamples
  <2>5. \A s \in Ring : TS(s) \subseteq TS(s)'
    BY <2>4
  <2>6. \A s \in Ring : Reaches(T, s) => Reaches(T, s)'
    BY <2>5 DEF Reaches
  <2>7. Kept \subseteq Kept'
    BY <2>5, KeptNow, KeptAfter
  <2>8. v = NewRecord => want \in Kept' /\ want \in TS(a)'
    BY <2>4, KeptAfter
  <2>9. want \in Nat
    BY <2>1, RingFacts DEF Times
  <2>10. \A t \in U : \E u \in Kept' : t <= u
    <3>1. CASE U \subseteq T
      BY <2>7, <3>1 DEF NewestAt
    <3>2. CASE v = NewRecord /\ U \subseteq T \union {want} /\ \A t \in T : t <= want
      <4>1. \A t \in U : t <= want
        BY <2>9, <3>2
      <4> QED BY <2>8, <3>2, <4>1
    <3> QED BY <1>9, <3>1, <3>2
  <2>11. /\ v = NewRecord /\ U \subseteq T \union {want} /\ active' = active
         /\ \A t \in T : t <= want
         => Reaches(U, active)'
    <3> SUFFICES ASSUME v = NewRecord, U \subseteq T \union {want}, \A t \in T : t <= want,
                        active' = active
                 PROVE  Reaches(U, active)'
      OBVIOUS
    <3>1. \A t \in U : t <= want
      BY <2>9
    <3>2. Reaches(U, a)'
      BY <2>8, <3>1 DEF Reaches
    <3> QED BY <2>2, <3>2 DEF Reaches
  <2> QED BY <2>6, <2>10, <2>11
<1>10. CASE WriteRecord
  <2>1. Recorded(active, nextSlot, NewRecord) /\ pc = "record"
    BY <1>10, RecordRingInv DEF WriteRecord
  <2>2. UNCHANGED <<ready, active>> /\ pc' = "idle"
    BY <1>10 DEF WriteRecord
  <2>3. (\A t \in T : t <= want) /\ U \subseteq T \union {want}
    BY <1>10
  <2>4. (\A t \in U : \E u \in Kept' : t <= u) /\ Reaches(U, active)'
    BY <1>9, <2>1, <2>2, <2>3
  <2>5. active' \in Ring /\ Spent(active', active', nextSlot') = 0
    BY <2>2 DEF Spent
  <2>6. PICK a \in Ring : a = active'
    BY <2>5
  <2>7. Reaches(U, a)'
    BY <2>4, <2>6 DEF Reaches
  <2>8. Spent(a, active', nextSlot') <= failRow'
    BY <2>5, <2>6
  <2> QED BY <2>2, <2>4, <2>7, <2>8 DEF NewestAt, Rotating
<1>11. CASE RecordFails
  <2>1. pc = "record" /\ ready
    BY <1>11 DEF RecordFails, RingInv, OperationInv
  <2>2. /\ UNCHANGED <<ready, active>> /\ nextSlot' = nextSlot + 1 /\ failRow' = failRow + 1
        /\ nextSlot \in 0..Slots /\ nextSlot < Slots
    BY <1>11, NewRecordType DEF RecordFails, RingInv, OperationInv
  <2>3. PICK v \in {Erased, Torn, NewRecord} : Recorded(active, nextSlot, v)
    BY <1>11, RecordFailsRingInv
  <2>4. CASE U \subseteq T
    <3>1. /\ \A t \in U : \E u \in Kept' : t <= u
          /\ \A s \in Ring : Reaches(T, s) => Reaches(T, s)'
      BY <1>9, <2>1, <2>3, <2>4
    <3>2. \A s \in Ring : Reaches(T, s) => Reaches(U, s)'
      BY <2>4, <3>1 DEF Reaches
    <3>3. PICK p \in Ring : Reaches(T, p) /\ Spent(p, active, nextSlot) <= failRow
      BY <2>1 DEF NewestAt
    <3>4. /\ Spent(p, active, nextSlot) \in Nat
          /\ Spent(p, active, nextSlot + 1) <= Spent(p, active, nextSlot) + 1
      BY <2>2, SpentFacts
    <3>5. nextSlot + 1 \in 0..Slots
      BY <2>2
    <3>6. Spent(p, active, nextSlot + 1) \in Nat
      BY <3>5, SpentFacts
    <3>7. Spent(p, active', nextSlot') <= failRow'
      BY <2>2, <3>3, <3>4, <3>6
    <3> QED BY <2>1, <2>2, <3>1, <3>2, <3>3, <3>7 DEF NewestAt
  <2>5. CASE ~(U \subseteq T)
    <3>1. /\ Recorded(active, nextSlot, NewRecord)
          /\ U \subseteq T \union {want} /\ \A t \in T : t <= want
      BY <2>5
    <3>2. (\A t \in U : \E u \in Kept' : t <= u) /\ Reaches(U, active)'
      BY <1>9, <2>1, <2>2, <3>1
    <3>3. PICK a \in Ring : a = active'
      BY <2>2
    <3>4. Reaches(U, a)'
      BY <3>2, <3>3 DEF Reaches
    <3>5. Spent(a, active', nextSlot') = 0
      BY <3>3 DEF Spent
    <3> QED BY <2>1, <2>2, <3>2, <3>4, <3>5 DEF NewestAt
  <2> QED BY <2>4, <2>5
<1>12. CASE PowerCut
  <2>1. ~ready' /\ pc' = "off" /\ failRow' = RowEnds
    BY <1>12 DEF PowerCut
  <2>2. failRow < RowLimit
    BY <2>1, RowEndsType DEF HistoryType, TelemetryTypeOK
  <2>3. \A t \in U : \E u \in Kept' : t <= u
    <3>1. CASE UNCHANGED <<hdr, rec>> /\ U \subseteq T
      BY <3>1, SameSamples DEF NewestAt
    <3>2. CASE Rotating /\ Thinned(target)
      <4>1. U \subseteq T
        BY <3>2 DEF Rotating
      <4>2. T = {} \/ \E p \in Ring : Reaches(T, p) /\ \A u \in TS(p) : u \in Kept'
        BY <2>2, <3>2, NewestSpared
      <4> QED BY <4>1, <4>2 DEF Reaches
    <3>3. ASSUME pc = "record", NEW v \in {Erased, Torn, NewRecord}, Recorded(active, nextSlot, v),
                 U \subseteq T
          PROVE  \A t \in U : \E u \in Kept' : t <= u
      BY <1>9, <3>3
    <3>4. CASE ~(U \subseteq T)
      <4>1. /\ pc = "record" /\ Recorded(active, nextSlot, NewRecord)
            /\ U \subseteq T \union {want} /\ \A t \in T : t <= want
        BY <3>4
      <4> QED BY <1>9, <4>1
    <3> QED BY <1>12, <3>1, <3>2, <3>3, <3>4, PowerCutRingInv
  <2> QED BY <2>1, <2>3 DEF NewestAt, Rotating
<1> QED BY <1>2, <1>3, <1>5, <1>6, <1>7, <1>8, <1>10, <1>11, <1>12 DEF TelemetryNext

(* The acknowledged samples: the newest is kept, and the last time stamp   *)
(* the program knows is not older.                                         *)
NewestInv ==
    failRow < RowLimit => /\ NewestAt(acked)
                          /\ Working => \A t \in acked : t <= lastTs

(* Every step keeps the newest acknowledged sample.                        *)
LEMMA NewestInvStep ==
  ASSUME RingInv, RingInv', NewestInv, [TelemetryNext]_vars
  PROVE  NewestInv'
<1> SUFFICES ASSUME failRow' < RowLimit
             PROVE  /\ NewestAt(acked)'
                    /\ Working' => \A t \in acked' : t <= lastTs'
  BY DEF NewestInv
<1> /\ TelemetryTypeOK /\ TelemetryTypeOK' /\ failRow \in Nat /\ Slots \in Nat /\ failRow' \in Nat
  <2>1. TelemetryTypeOK /\ TelemetryTypeOK'
    BY DEF RingInv
  <2>2. failRow' \in 0..RowLimit
    BY <2>1 DEF TelemetryTypeOK
  <2> QED BY <2>1, <2>2, RingFacts, RowLimitFact, NumberFacts
<1>1. acked \in SUBSET Nat /\ lastTs \in Nat /\ lastTs' \in Nat /\ want \in Nat
  <2>1. acked \subseteq Times /\ lastTs' \in Times' \union {0}
    BY DEF TelemetryTypeOK
  <2>2. Times' = Times /\ Times \subseteq Nat
    BY RingFacts DEF Times
  <2> QED BY <2>1, <2>2, NumberFacts
<1>2. CASE UNCHANGED vars
  <2>1. UNCHANGED <<hdr, rec, ready, active, nextSlot, failRow, pc, acked, lastTs>>
    BY <1>2 DEF vars
  <2>2. NewestAt(acked) /\ (Working => \A t \in acked : t <= lastTs)
    BY <2>1 DEF NewestInv
  <2>3. Kept' = Kept /\ \A s \in Ring : TS(s)' = TS(s)
    BY <2>1, SameSamples
  <2>4. PICK T \in SUBSET Nat : T = acked
    BY <1>1
  <2>5. \A s \in Ring : Reaches(T, s) => Reaches(T, s)'
    BY <2>3 DEF Reaches
  <2>6. PICK a \in Ring : a = active
    BY DEF RingInv, TelemetryTypeOK
  <2>7. Reaches(T, active) => Reaches(T, active)'
    BY <2>1, <2>5, <2>6 DEF Reaches
  <2>8. NewestAt(T)
    BY <2>2, <2>4
  <2>9. NewestAt(T)'
    BY <2>1, <2>3, <2>5, <2>7, <2>8 DEF NewestAt, Rotating
  <2>10. NewestAt(acked)'
    BY <2>1, <2>4, <2>9 DEF NewestAt, Reaches
  <2> QED BY <2>1, <2>2, <2>10 DEF Working, Rotating
<1>3. CASE TelemetryNext /\ ~\E ts \in Times : OldFirmware(ts)
  <2>1. failRow < RowLimit
    <3>1. failRow' = failRow \/ failRow' = RowEnds
          \/ failRow' = IF failRow < RowLimit THEN failRow + 1 ELSE failRow
      BY <1>3 DEF TelemetryNext, Call, CallInit, EraseSector, WriteHeader, WriteCommit, WriteRecord,
                  CommitFails, RecordFails, PowerCut, Start, history
    <3>2. HistoryType
      BY DEF HistoryType, TelemetryTypeOK
    <3> QED BY <3>1, <3>2, RowEndsType
  <2>2. NewestAt(acked) /\ (Working => \A t \in acked : t <= lastTs)
    BY <2>1 DEF NewestInv
  <2>3. WriteRecord => /\ pc = "record" /\ Recorded(active, nextSlot, NewRecord)
                       /\ acked' = acked \union {want} /\ \A t \in acked : t <= want
    <3> SUFFICES ASSUME WriteRecord
                 PROVE  /\ pc = "record" /\ Recorded(active, nextSlot, NewRecord)
                        /\ acked' = acked \union {want} /\ \A t \in acked : t <= want
      OBVIOUS
    <3>1. pc = "record" /\ acked' = acked \union {want} /\ Recorded(active, nextSlot, NewRecord)
      BY RecordRingInv DEF WriteRecord
    <3>2. ready /\ want > lastTs
      BY <3>1 DEF RingInv, OperationInv
    <3>3. \A t \in acked : t <= want
      BY <1>1, <2>2, <3>2 DEF Working
    <3> QED BY <3>1, <3>3
  <2>4. ~WriteRecord => acked' = acked
    BY <1>3 DEF TelemetryNext, Call, CallInit, EraseSector, WriteHeader, WriteCommit,
                CommitFails, RecordFails, PowerCut, Start
  <2>5. NewestAt(acked)'
    <3>1. PICK U : U = acked'
      OBVIOUS
    <3>2. NewestAt(U)'
      BY <1>1, <1>3, <2>2, <2>3, <2>4, <3>1, NewestStep
    <3> QED BY <3>1, <3>2 DEF NewestAt, Reaches
  <2>6. ASSUME Working' PROVE \A t \in acked' : t <= lastTs'
    <3>1. CASE WriteRecord
      <4>1. lastTs' = want
        BY <3>1 DEF WriteRecord
      <4>2. \A t \in acked \union {want} : t <= want
        BY <1>1, <2>3, <3>1
      <4> QED BY <2>3, <3>1, <4>1, <4>2
    <3>2. CASE Working /\ lastTs' = lastTs /\ ~WriteRecord
      BY <2>2, <2>4, <3>2
    <3>3. ASSUME NEW ts \in Times \union {0}, CallInit(ts) PROVE \A t \in acked' : t <= lastTs'
      <4>1. lastTs' = LastTimestamp /\ acked' = acked
        BY <3>3 DEF CallInit
      <4>2. ASSUME NEW t \in acked PROVE t <= LastTimestamp
        <5>1. PICK u \in Kept : t <= u
          BY <2>2 DEF NewestAt
        <5>2. u <= LastTimestamp /\ u \in Nat /\ LastTimestamp \in Nat
          BY <5>1, LastTimestampFact, KeptFact, RingFacts DEF Times
        <5> QED BY <1>1, <5>1, <5>2
      <4> QED BY <4>1, <4>2
    <3>4. ASSUME NEW ts \in Times \union {0}, Call(ts) PROVE Working /\ lastTs' = lastTs
      BY <3>4 DEF Call, Working, journal
    <3>5. ASSUME EraseSector \/ WriteHeader \/ WriteCommit PROVE Working /\ lastTs' = lastTs
      BY <3>5 DEF EraseSector, WriteHeader, WriteCommit, Working, Rotating, journal
    <3>6. ASSUME CommitFails \/ RecordFails PROVE Working /\ lastTs' = lastTs
      BY <3>6 DEF CommitFails, RecordFails, Working, Rotating, journal, RingInv, OperationInv
    <3>7. CASE PowerCut \/ Start
      BY <2>6, <3>7 DEF PowerCut, Start, Working, Rotating, journal, RingInv, OperationInv
    <3>8. CASE \/ \E ts \in Times \union {0} : CallInit(ts)
               \/ PowerCut \/ Start
      BY <3>3, <3>7, <3>8, <2>6 DEF PowerCut, Start, Working, Rotating, journal, RingInv, OperationInv
    <3>9. CASE Working /\ lastTs' = lastTs
      BY <3>1, <3>2, <3>9
    <3> QED BY <1>3, <3>1, <3>4, <3>5, <3>6, <3>8, <3>9 DEF TelemetryNext
  <2> QED BY <2>5, <2>6
<1>4. ASSUME NEW ts \in Times, OldFirmware(ts)
      PROVE  NewestAt(acked)' /\ ~Working'
  <2>1. /\ pc = "off" /\ acked' = acked \union {ts} /\ \A t \in Kept \union acked : t < ts
        /\ UNCHANGED <<ready, pc>>
    BY <1>4 DEF OldFirmware, journal, op
  <2>2. ~ready' /\ ~Rotating'
    BY <2>1 DEF RingInv, OperationInv, Rotating
  <2>3. PICK s \in Ring : /\ hdr'[s].fmt = "v1"
                          /\ \E k \in 0..(OldSlots - 1) : rec'[s][k] \in Records /\ rec'[s][k].ts = ts
    BY <1>4, OldFirmwareEffect
  <2>4. PICK k \in 0..(OldSlots - 1) : rec'[s][k] \in Records /\ rec'[s][k].ts = ts
    BY <2>3
  <2>5. rec'[s][k] \in Samples(s)'
    BY <2>3, <2>4, SlotKinds DEF Samples, Readable, SlotsIn
  <2>6. ts \in TS(s)'
    BY <2>4, <2>5 DEF TS
  <2>7. ts \in Kept' /\ ts \in Nat
    BY <2>6, KeptAfter, RingFacts DEF Times
  <2>8. \A t \in acked' : t <= ts
    BY <1>1, <2>1, <2>7
  <2> QED BY <2>2, <2>7, <2>8 DEF NewestAt, Working
<1> QED BY <1>2, <1>3, <1>4

(* Nothing is acknowledged yet.                                            *)
LEMMA InitNewestInv ==
  ASSUME TelemetryInit
  PROVE  NewestInv
BY DEF TelemetryInit, NewestInv, NewestAt, Reaches, Rotating

(* Until failing record writes used up every other sector, what can be     *)
(* read is at every moment as new as the newest acknowledged sample.       *)
THEOREM NewestKeptAlways == TelemetrySpec => []NewestKept
<1>1. ASSUME RingInv, NewestInv PROVE NewestKept
  <2> SUFFICES ASSUME failRow < RowLimit PROVE MaxOf(Kept) >= MaxOf(acked)
    BY DEF NewestKept
  <2>1. NewestAt(acked) /\ TelemetryTypeOK
    BY <1>1 DEF NewestInv, RingInv
  <2>2. acked \in SUBSET Nat /\ \A t \in acked : t <= MaxTime
    BY <2>1, RingFacts DEF TelemetryTypeOK, Times
  <2>3. MaxOf(acked) \in acked \union {0} /\ MaxOf(acked) \in Nat
    BY <2>2, RingFacts, MaxOfFact
  <2>4. MaxOf(Kept) \in Nat /\ \A t \in Kept : t <= MaxOf(Kept)
    BY <2>1, LastTimestampFact DEF LastTimestamp
  <2>5. CASE MaxOf(acked) \in acked
    <3>1. PICK u \in Kept : MaxOf(acked) <= u
      BY <2>1, <2>5 DEF NewestAt
    <3>2. u \in Nat
      BY <2>1, <3>1, KeptFact, RingFacts DEF Times
    <3> QED BY <2>3, <2>4, <3>1, <3>2
  <2> QED BY <2>3, <2>4, <2>5
<1> QED BY <1>1, RingInvAlways, InitNewestInv, NewestInvStep, PTL DEF TelemetrySpec

-----------------------------------------------------------------------------
(* Sequence numbers follow time                                            *)

(* Only a record write adds to what can be read.                           *)
LEMMA SamplesAfter ==
  ASSUME RingInv, RingInv', TelemetryNext, ~\E ts \in Times : OldFirmware(ts)
  PROVE  \A r \in AllSamples' : r \in AllSamples \/ (pc = "record" /\ r = NewRecord)
<1> /\ active \in Ring /\ target \in Ring /\ TelemetryTypeOK /\ TelemetryTypeOK'
  BY DEF RingInv, TelemetryTypeOK
<1>1. CASE UNCHANGED <<hdr, rec>>
  BY <1>1, SameSamples
<1>2. CASE Thinned(target)
  <2>1. \A s \in Ring : Samples(s)' \subseteq Samples(s)
    BY <1>2, ThinnedSamples
  <2> QED BY <2>1, KeptNow, KeptAfter
<1>3. ASSUME pc = "record", NEW v, Recorded(active, nextSlot, v)
      PROVE  \A r \in AllSamples' : r \in AllSamples \/ (pc = "record" /\ r = NewRecord)
  <2>1. nextSlot \in 0..(Slots - 1) /\ hdr[active].fmt = "v2" /\ NewRecord \in Records
    BY <1>3, NewRecordType
  <2>2. \A s \in Ring : Samples(s)' \subseteq Samples(s) \union {NewRecord}
    BY <1>3, <2>1, RecordedSamples
  <2> QED BY <1>3, <2>2, KeptNow, KeptAfter
<1>4. ASSUME NEW ts, Call(ts) \/ CallInit(ts) PROVE UNCHANGED <<hdr, rec>>
  BY <1>4 DEF Call, CallInit, flash
<1>5. Start => UNCHANGED <<hdr, rec>>
  BY DEF Start, flash
<1>6. EraseSector \/ WriteHeader \/ WriteCommit => Thinned(target)
  BY RotationWipes
<1>7. WriteRecord => pc = "record" /\ Recorded(active, nextSlot, NewRecord)
  BY RecordRingInv DEF WriteRecord
<1>8. RecordFails => pc = "record" /\ \E v : Recorded(active, nextSlot, v)
  BY RecordFailsRingInv DEF RecordFails
<1>9. CommitFails => Thinned(target)
  BY CommitFailsRingInv
<1>10. PowerCut => \/ UNCHANGED <<hdr, rec>> \/ Thinned(target)
                   \/ pc = "record" /\ \E v : Recorded(active, nextSlot, v)
  BY PowerCutRingInv
<1> QED BY <1>1, <1>2, <1>3, <1>4, <1>5, <1>6, <1>7, <1>8, <1>9, <1>10 DEF TelemetryNext

(* No older firmware has written and no append failed although its sample  *)
(* can be read.                                                            *)
InSequence == old = 0 /\ ~stray

(* Every sample was numbered before the next one, unless the append under  *)
(* way has left it behind and tries again with the same number.            *)
Numbered(r) ==
    \/ r.ts <= lastTs /\ r.seq < nextSeq
    \/ r.ts = want /\ r.seq = nextSeq /\ attempts = 1 /\ want > lastTs

(* The third invariant: numbers follow time.                               *)
SequenceInv ==
    InSequence =>
        /\ \A r1, r2 \in AllSamples : r1.ts < r2.ts => r1.seq <= r2.seq
        /\ Working => \A r \in AllSamples : Numbered(r)

(* Every step keeps the sequence.                                          *)
LEMMA SequenceInvStep ==
  ASSUME RingInv, RingInv', SequenceInv, [TelemetryNext]_vars
  PROVE  SequenceInv'
<1> SUFFICES ASSUME InSequence'
             PROVE  /\ \A r1, r2 \in AllSamples' : r1.ts < r2.ts => r1.seq <= r2.seq
                    /\ Working' => \A r \in AllSamples' : Numbered(r)'
  BY DEF SequenceInv
<1> TelemetryTypeOK /\ TelemetryTypeOK'
  BY DEF RingInv
<1>1. /\ lastTs \in Nat /\ want \in Nat /\ nextSeq \in Nat /\ nextSeq \in Nat \ {0} /\ attempts \in 0..2
      /\ lastTs' \in Nat /\ want' \in Nat /\ nextSeq' \in Nat /\ old \in Nat
  <2>1. /\ nextSeq \in Nat \ {0} /\ attempts \in 0..2 /\ nextSeq' \in Nat \ {0}
        /\ lastTs' \in Times \union {0} /\ want' \in Times \union {0}
    BY DEF TelemetryTypeOK
  <2>2. Times \subseteq Nat
    BY RingFacts DEF Times
  <2> QED BY <2>1, <2>2, NumberFacts
<1>2. \A r \in AllSamples : r.ts \in Nat /\ r.seq \in Nat /\ r.ts \in Times
  BY KeptFact, RingFacts DEF Times
<1>3. CASE UNCHANGED vars
  <2>1. AllSamples' = AllSamples
    BY <1>3, SameSamples DEF vars
  <2>2. InSequence /\ (Working' => Working)
    BY <1>3 DEF vars, InSequence, Working, Rotating
  <2>3. \A r : Numbered(r)' <=> Numbered(r)
    BY <1>3 DEF vars, Numbered
  <2> QED BY <2>1, <2>2, <2>3 DEF SequenceInv
<1>4. CASE TelemetryNext /\ ~\E ts \in Times : OldFirmware(ts)
  <2>1. InSequence
    <3>1. old' = old
      BY <1>4 DEF TelemetryNext, Call, CallInit, EraseSector, WriteHeader, WriteCommit,
                  WriteRecord, CommitFails, RecordFails, PowerCut, Start
    <3>2. UNCHANGED stray \/ stray' = (stray \/ want \in Kept')
      BY <1>4, Zenon DEF TelemetryNext, Call, CallInit, EraseSector, WriteHeader, WriteCommit,
                  WriteRecord, CommitFails, RecordFails, PowerCut, Start, AppendTo, history
    <3>3. stray \in BOOLEAN /\ stray' \in BOOLEAN /\ ~stray' /\ old' = 0
      BY DEF InSequence, TelemetryTypeOK
    <3>4. CASE stray' = (stray \/ want \in Kept')
      BY <3>1, <3>3, <3>4 DEF InSequence
    <3>5. CASE UNCHANGED stray
      BY <3>1, <3>3, <3>5 DEF InSequence
    <3> QED BY <3>2, <3>4, <3>5
  <2>2. /\ \A r1, r2 \in AllSamples : r1.ts < r2.ts => r1.seq <= r2.seq
        /\ Working => \A r \in AllSamples : Numbered(r)
    BY <2>1 DEF SequenceInv
  <2>3. \A r \in AllSamples' : r \in AllSamples \/ (pc = "record" /\ r = NewRecord)
    BY <1>4, SamplesAfter
  <2>4. pc = "record" => /\ NewRecord.ts = want /\ NewRecord.seq = nextSeq /\ want > lastTs
                         /\ want \in Times /\ Working
    BY NewRecordType DEF Working, RingInv, OperationInv
  <2>5. ASSUME NEW r1 \in AllSamples', NEW r2 \in AllSamples', r1.ts < r2.ts
        PROVE  r1.seq <= r2.seq
    <3>1. CASE r1 \in AllSamples /\ r2 \in AllSamples
      BY <2>2, <2>5, <3>1
    <3>2. CASE pc = "record" /\ r2 = NewRecord /\ r1 \in AllSamples
      <4>1. Numbered(r1) /\ r1.ts < want
        BY <2>2, <2>4, <2>5, <3>2
      <4>2. r1.seq < nextSeq
        BY <1>1, <1>2, <3>2, <4>1 DEF Numbered
      <4> QED BY <1>1, <1>2, <2>4, <3>2, <4>2
    <3>3. CASE pc = "record" /\ r1 = NewRecord /\ r2 \in AllSamples
      <4>1. Numbered(r2) /\ want < r2.ts
        BY <2>2, <2>4, <2>5, <3>3
      <4>2. FALSE
        BY <1>1, <1>2, <2>4, <3>3, <4>1 DEF Numbered
      <4> QED BY <4>2
    <3>4. CASE pc = "record" /\ r1 = NewRecord /\ r2 = NewRecord
      BY <1>1, <2>4, <2>5, <3>4
    <3> QED BY <2>3, <3>1, <3>2, <3>3, <3>4
  <2>6. ASSUME Working' PROVE \A r \in AllSamples' : Numbered(r)'
    <3>1. ASSUME NEW ts \in Times \union {0}, Call(ts) PROVE \A r \in AllSamples' : Numbered(r)'
      <4>1. /\ Working /\ attempts = 0 /\ lastTs' = lastTs /\ nextSeq' = nextSeq /\ pc = "idle"
        BY <3>1 DEF Call, Working, journal, RingInv, OperationInv
      <4> QED BY <2>2, <2>3, <4>1 DEF Numbered
    <3>2. ASSUME NEW ts \in Times \union {0}, CallInit(ts) PROVE \A r \in AllSamples' : Numbered(r)'
      <4>1. lastTs' = LastTimestamp /\ nextSeq' = NextSequence /\ pc = "idle"
        BY <3>2 DEF CallInit
      <4>2. \A r \in AllSamples : r.ts <= LastTimestamp /\ r.seq < NextSequence
        BY LastTimestampFact, NextSequenceFact, KeptFact
      <4> QED BY <2>3, <4>1, <4>2 DEF Numbered
    <3>3. CASE EraseSector \/ WriteHeader
      <4>1. /\ Rotating /\ lastTs' = lastTs /\ nextSeq' = nextSeq /\ want' = want
            /\ attempts' = attempts
        BY <3>3 DEF EraseSector, WriteHeader, Rotating, journal
      <4>2. pc # "record" /\ Working
        BY <4>1 DEF Rotating, Working
      <4> QED BY <2>2, <2>3, <4>1, <4>2 DEF Numbered
    <3>4. CASE WriteCommit
      <4>1. Rotating /\ lastTs' = lastTs /\ nextSeq' = nextSeq /\ pc # "record"
        BY <3>4 DEF WriteCommit, Rotating
      <4>2. pc' = "record" => want' = want /\ attempts' = attempts
        BY <3>4, CommitRingInv
      <4>3. want > lastTs => pc' = "record"
        <5> SUFFICES ASSUME want > lastTs PROVE pc' = "record"
          OBVIOUS
        <5>1. AppendTo(target, tgen, 0, lastTs, want, attempts)
          BY <3>4 DEF WriteCommit
        <5>2. ~(want = 0 \/ want <= lastTs) /\ ~(0 >= Slots)
          BY <1>1, RingFacts
        <5> QED BY <5>1, <5>2 DEF AppendTo
      <4> QED BY <2>2, <2>3, <4>1, <4>2, <4>3 DEF Numbered, Working
    <3>5. CASE WriteRecord
      <4>1. pc = "record" /\ lastTs' = want /\ nextSeq' = nextSeq + 1
        BY <3>5 DEF WriteRecord
      <4>2. ASSUME NEW r \in AllSamples' PROVE r.ts <= want /\ r.seq < nextSeq + 1
        <5>1. CASE r \in AllSamples
          <6>1. Numbered(r)
            BY <2>2, <2>4, <4>1, <5>1
          <6> QED BY <1>1, <1>2, <2>4, <4>1, <5>1, <6>1 DEF Numbered
        <5>2. CASE r = NewRecord
          BY <1>1, <2>4, <4>1, <5>2
        <5> QED BY <2>3, <5>1, <5>2
      <4> QED BY <4>1, <4>2 DEF Numbered
    <3>6. CASE CommitFails
      <4>1. /\ Rotating /\ lastTs' = lastTs /\ nextSeq' = nextSeq /\ want \notin Kept'
        BY <3>6 DEF CommitFails, Rotating, journal, InSequence
      <4>2. \A r \in AllSamples' : r.ts # want
        BY <4>1 DEF Kept
      <4>3. pc # "record" /\ Working
        BY <4>1 DEF Rotating, Working
      <4> QED BY <2>2, <2>3, <4>1, <4>2, <4>3 DEF Numbered
    <3>7. CASE RecordFails
      <4>1. /\ pc = "record" /\ lastTs' = lastTs /\ nextSeq' = nextSeq
        BY <3>7 DEF RecordFails
      <4>2. attempts \in {1, 2}
        BY <4>1 DEF RingInv, OperationInv
      <4>3. CASE attempts = 2
        <5>1. attempts' = 1 /\ want' = want
          BY <3>7, <4>3, RecordFailsRingInv
        <5>2. \A r \in AllSamples : r.ts <= lastTs /\ r.seq < nextSeq
          BY <2>2, <2>4, <4>1, <4>3 DEF Numbered
        <5> QED BY <2>3, <2>4, <4>1, <5>1, <5>2 DEF Numbered
      <4>4. CASE attempts = 1
        <5>1. want \notin Kept'
          BY <3>7, <4>4, RecordFailsRingInv DEF InSequence
        <5>2. \A r \in AllSamples' : r.ts # want
          BY <5>1 DEF Kept
        <5>3. \A r \in AllSamples' : r \in AllSamples
          BY <2>3, <2>4, <5>2
        <5> QED BY <2>2, <2>4, <4>1, <5>2, <5>3 DEF Numbered
      <4> QED BY <4>2, <4>3, <4>4
    <3>8. CASE PowerCut \/ Start
      <4>1. ~Working'
        BY <3>8 DEF PowerCut, Start, Working, Rotating, journal, RingInv, OperationInv
      <4> QED BY <2>6, <4>1
    <3> QED BY <1>4, <3>1, <3>2, <3>3, <3>4, <3>5, <3>6, <3>7, <3>8 DEF TelemetryNext
  <2> QED BY <2>5, <2>6
<1>5. ASSUME NEW ts \in Times, OldFirmware(ts) PROVE FALSE
  <2>1. old' = old + 1 /\ old' = 0
    BY <1>5 DEF OldFirmware, InSequence
  <2> QED BY <1>1, <2>1
<1> QED BY <1>3, <1>4, <1>5

(* There are no samples yet.                                               *)
LEMMA InitSequenceInv ==
  ASSUME TelemetryInit
  PROVE  SequenceInv
<1>1. AllSamples = {}
  BY DEF TelemetryInit, NoHeader, AllSamples, Samples, Readable
<1> QED BY <1>1 DEF SequenceInv

(* The program's position in the ring fits what is in flash: every         *)
(* variable has its type, history_storage_append_telemetry programs an     *)
(* erased slot of a committed sector of the current format, and sequence   *)
(* numbers follow time.                                                    *)
THEOREM PositionFitsFlashAlways == TelemetrySpec => []PositionFitsFlash
<1>1. ASSUME RingInv, SequenceInv PROVE PositionFitsFlash
  <2>1. TelemetryTypeOK
    BY <1>1 DEF RingInv
  <2>2. WritesErasedSlot
    <3>1. pc = "record" => rec[active][nextSlot] = Erased /\ hdr[active].fmt = "v2"
      BY <1>1, NewRecordType
    <3> QED BY <1>1, <3>1 DEF WritesErasedSlot, RingInv, OperationInv
  <2>3. SequenceFollowsTime
    BY <1>1 DEF SequenceFollowsTime, SequenceInv, InSequence
  <2> QED BY <2>1, <2>2, <2>3 DEF PositionFitsFlash
<1> QED BY <1>1, RingInvAlways, InitSequenceInv, SequenceInvStep, PTL DEF TelemetrySpec

-----------------------------------------------------------------------------
(* The order of the samples around the ring.  T[s] is the set of samples   *)
(* of sector s, F[s] of those that are in its last slot only.              *)

(* The place of sector s when the ring is read on from the one after p.    *)
Rank(p, s) == IF s > p THEN s ELSE s + Sectors

(* Read on from the one after p the sectors hold ever newer samples; the   *)
(* first of them may instead repeat a sample of p, which a record write    *)
(* that failed only in name left there.                                    *)
Ordered(T, p) ==
    \A s1, s2 \in Ring :
        Rank(p, s1) < Rank(p, s2) =>
            \/ \A t1 \in T[s1], t2 \in T[s2] : t1 <= t2
            \/ s1 = NextSector(p) /\ \E t \in T[p] : T[s1] \subseteq {t}

(* Sector s2 goes on with sample t, the last one of s1.                    *)
Follows(T, F, s1, s2, t) ==
    /\ s2 = NextSector(s1) /\ t \in F[s1]
    /\ \A u \in T[s1] : u <= t
    /\ \A u \in T[s2] : t <= u

(* A sample is in two sectors at most, and then links them.                *)
Linked(T, F) ==
    /\ \A s1, s2 \in Ring : \A t \in T[s1] \intersect T[s2] :
            s1 # s2 => Follows(T, F, s1, s2, t) \/ Follows(T, F, s2, s1, t)
    /\ \A s1, s2, s3 \in Ring : \A t \in T[s1] \intersect T[s2] :
            t \in T[s3] => s1 = s2 \/ s1 = s3 \/ s2 = s3

(* What the samples of the sectors can be.                                 *)
Contents == [Ring -> SUBSET Times]

(* Ranks tell the sectors apart, go up from the one after p to p itself,   *)
(* and those from two places differ in where they start.                   *)
LEMMA RankFacts ==
  ASSUME NEW p \in Ring, NEW s \in Ring, NEW r \in Ring, NEW b \in Ring
  PROVE  /\ Rank(p, s) \in Nat
         /\ s # NextSector(p) => Rank(p, NextSector(p)) < Rank(p, s)
         /\ s # p => Rank(p, s) < Rank(p, p)
         /\ Rank(p, s) = Rank(p, r) => s = r
         /\ s # NextSector(p) /\ r # NextSector(p)
            /\ Rank(NextSector(p), s) < Rank(NextSector(p), r) => Rank(p, s) < Rank(p, r)
         /\ Rank(b, s) < Rank(b, r) /\ Rank(p, r) < Rank(p, s)
            => Rank(p, r) <= Rank(p, b) /\ Rank(p, b) < Rank(p, s)
         /\ b = NextSector(s) /\ Rank(p, b) < Rank(p, s) => s = p
<1>1. /\ p \in Nat /\ s \in Nat /\ r \in Nat /\ b \in Nat /\ Sectors \in Nat /\ Sectors >= 2
      /\ p < Sectors /\ s < Sectors /\ r < Sectors /\ b < Sectors
  BY RingFacts
<1>2. NextSector(p) = IF p + 1 = Sectors THEN 0 ELSE p + 1
  BY NextSectorFact
<1>3. NextSector(s) = IF s + 1 = Sectors THEN 0 ELSE s + 1
  BY NextSectorFact
<1>4. Rank(p, s) \in Nat /\ (Rank(p, s) = Rank(p, r) => s = r) /\ (s # p => Rank(p, s) < Rank(p, p))
  BY <1>1 DEF Rank
<1>5. s # NextSector(p) => Rank(p, NextSector(p)) < Rank(p, s)
  BY <1>1, <1>2 DEF Rank
<1>6. s # NextSector(p) /\ r # NextSector(p)
      /\ Rank(NextSector(p), s) < Rank(NextSector(p), r) => Rank(p, s) < Rank(p, r)
  BY <1>1, <1>2 DEF Rank
<1>7. Rank(b, s) < Rank(b, r) /\ Rank(p, r) < Rank(p, s)
      => Rank(p, r) <= Rank(p, b) /\ Rank(p, b) < Rank(p, s)
  BY <1>1 DEF Rank
<1>8. b = NextSector(s) /\ Rank(p, b) < Rank(p, s) => s = p
  BY <1>1, <1>3 DEF Rank
<1> QED BY <1>4, <1>5, <1>6, <1>7, <1>8

(* Where the newest sample is, the order starts as well.                   *)
LEMMA OrderedFromNewest ==
  ASSUME NEW T \in Contents, NEW F, NEW p \in Ring, Ordered(T, p), Linked(T, F), NEW b \in Ring,
         \A s \in Ring : \A t \in T[s] : \E u \in T[b] : t <= u
  PROVE  Ordered(T, b)
<1>1. \A s \in Ring : T[s] \subseteq Nat /\ \A t \in T[s] : t <= MaxTime
  BY RingFacts DEF Contents, Times
<1>2. SUFFICES ASSUME NEW s1 \in Ring, NEW s2 \in Ring, Rank(b, s1) < Rank(b, s2),
                      NEW t1 \in T[s1], NEW t2 \in T[s2], ~(t1 <= t2), b # p
               PROVE  s1 = NextSector(b) /\ \E t \in T[b] : T[s1] \subseteq {t}
  BY DEF Ordered
<1>3. t1 \in Nat /\ t2 \in Nat /\ t2 < t1
  BY <1>1, <1>2
<1>4. T[b] # {} /\ T[b] \in SUBSET Nat /\ \A t \in T[b] : t <= MaxTime
  BY <1>1, <1>2
<1>5. PICK n \in T[b] : \A t \in T[b] : t <= n
  BY <1>4, GreatestNumber, RingFacts
<1>6. n \in Nat /\ \A s \in Ring : \A t \in T[s] : t <= n
  <2>1. n \in Nat
    BY <1>4
  <2>2. ASSUME NEW s \in Ring, NEW t \in T[s] PROVE t <= n
    <3>1. PICK u \in T[b] : t <= u
      OBVIOUS
    <3>2. t \in Nat /\ u \in Nat /\ u <= n
      BY <1>1, <1>5
    <3> QED BY <2>1, <3>1, <3>2
  <2> QED BY <2>1, <2>2
<1>7. s1 # b /\ s1 # s2 /\ NextSector(p) \in Ring /\ NextSector(p) # p
  BY <1>2, RankFacts, NextSectorFact
<1>8. CASE Rank(p, s1) < Rank(p, s2)
  <2>1. s1 = NextSector(p) /\ \E t \in T[p] : T[s1] \subseteq {t}
    BY <1>2, <1>8 DEF Ordered
  <2>2. t1 \in T[p] /\ T[s1] \subseteq {t1}
    BY <2>1
  <2>3. CASE t1 = n
    <3>1. b = s1 \/ b = p \/ s1 = p
      BY <2>2, <2>3 DEF Linked
    <3> QED BY <1>2, <1>7, <2>1, <3>1
  <2>4. CASE t1 # n
    <3>1. Rank(p, b) < Rank(p, p)
      BY <1>2, RankFacts
    <3>2. n <= t1 \/ b = NextSector(p)
      BY <2>2, <3>1 DEF Ordered
    <3>3. t1 <= n
      BY <1>6
    <3> QED BY <1>3, <1>6, <1>7, <2>1, <2>4, <3>2, <3>3
  <2> QED BY <2>3, <2>4
<1>9. CASE Rank(p, s2) < Rank(p, s1)
  <2>1. Rank(p, s2) <= Rank(p, b) /\ Rank(p, b) < Rank(p, s1)
    BY <1>2, <1>9, RankFacts
  <2>2. b = NextSector(p) => s2 = b
    <3>1. Rank(p, s2) \in Nat /\ Rank(p, b) \in Nat
      BY RankFacts
    <3>2. b = NextSector(p) /\ s2 # b => Rank(p, b) < Rank(p, s2)
      BY RankFacts
    <3> QED BY <2>1, <3>1, <3>2
  <2>3. n <= t1 \/ (b = NextSector(p) /\ \E t \in T[p] : T[b] \subseteq {t})
    BY <2>1 DEF Ordered
  <2>4. CASE b = NextSector(p) /\ \E t \in T[p] : T[b] \subseteq {t}
    <3>1. t2 = n
      BY <2>2, <2>4
    <3>2. t1 <= n
      BY <1>6
    <3> QED BY <1>3, <3>1, <3>2
  <2>5. CASE n <= t1
    <3>1. t1 = n
      BY <1>3, <1>6, <2>5
    <3>2. Follows(T, F, b, s1, n) \/ Follows(T, F, s1, b, n)
      BY <1>7, <3>1 DEF Linked
    <3>3. CASE Follows(T, F, b, s1, n)
      <4>1. s1 = NextSector(b) /\ \A u \in T[s1] : n <= u
        BY <3>3 DEF Follows
      <4>2. \A u \in T[s1] : u = n
        BY <1>1, <1>6, <4>1
      <4> QED BY <4>1, <4>2
    <3>4. CASE Follows(T, F, s1, b, n)
      <4>1. b = NextSector(s1) /\ \A u \in T[b] : n <= u
        BY <3>4 DEF Follows
      <4>2. s1 = p
        BY <2>1, <4>1, RankFacts
      <4>3. s2 = b
        BY <2>2, <4>1, <4>2
      <4>4. n <= t2
        BY <4>1, <4>3
      <4> QED BY <1>3, <1>6, <3>1, <4>4
    <3> QED BY <3>2, <3>3, <3>4
  <2> QED BY <2>3, <2>4, <2>5
<1>10. Rank(p, s1) \in Nat /\ Rank(p, s2) \in Nat /\ Rank(p, s1) # Rank(p, s2)
  BY <1>7, RankFacts
<1> QED BY <1>8, <1>9, <1>10

(* Thinning the oldest sector keeps the order, and wiping it makes the     *)
(* order start there too.                                                  *)
LEMMA OrderedThinned ==
  ASSUME NEW T \in Contents, NEW F, NEW p \in Ring, Ordered(T, p), Linked(T, F),
         NEW U \in Contents, NEW G,
         \A s \in Ring : U[s] \subseteq T[s] /\ \A t \in F[s] : t \in U[s] => t \in G[s],
         \A s \in Ring : s # NextSector(p) => U[s] = T[s]
  PROVE  /\ Ordered(U, p) /\ Linked(U, G)
         /\ U[NextSector(p)] = {} => Ordered(U, NextSector(p))
<1>1. NextSector(p) \in Ring /\ NextSector(p) # p
  BY NextSectorFact
<1>2. Ordered(U, p)
  <2> SUFFICES ASSUME NEW s1 \in Ring, NEW s2 \in Ring, Rank(p, s1) < Rank(p, s2)
               PROVE  \/ \A t1 \in U[s1], t2 \in U[s2] : t1 <= t2
                      \/ s1 = NextSector(p) /\ \E t \in U[p] : U[s1] \subseteq {t}
    BY DEF Ordered
  <2>1. U[s1] \subseteq T[s1] /\ U[s2] \subseteq T[s2] /\ U[p] = T[p]
    BY <1>1
  <2> QED BY <2>1 DEF Ordered
<1>3. ASSUME U[NextSector(p)] = {} PROVE Ordered(U, NextSector(p))
  <2> SUFFICES ASSUME NEW s1 \in Ring, NEW s2 \in Ring,
                      Rank(NextSector(p), s1) < Rank(NextSector(p), s2),
                      NEW t1 \in U[s1], NEW t2 \in U[s2]
               PROVE  t1 <= t2
    BY <1>1 DEF Ordered
  <2>1. s1 # NextSector(p) /\ s2 # NextSector(p) /\ t1 \in T[s1] /\ t2 \in T[s2]
    BY <1>3
  <2>2. Rank(p, s1) < Rank(p, s2)
    BY <2>1, RankFacts
  <2> QED BY <2>1, <2>2 DEF Ordered
<1>4. ASSUME NEW s1 \in Ring, NEW s2 \in Ring, NEW t \in U[s1] \intersect U[s2], Follows(T, F, s1, s2, t)
      PROVE  Follows(U, G, s1, s2, t)
  BY <1>4 DEF Follows
<1>5. Linked(U, G)
  <2>1. ASSUME NEW s1 \in Ring, NEW s2 \in Ring, NEW t \in U[s1] \intersect U[s2], s1 # s2
        PROVE  Follows(U, G, s1, s2, t) \/ Follows(U, G, s2, s1, t)
    <3>1. t \in T[s1] \intersect T[s2]
      OBVIOUS
    <3>2. Follows(T, F, s1, s2, t) \/ Follows(T, F, s2, s1, t)
      BY <2>1, <3>1 DEF Linked
    <3> QED BY <1>4, <3>2
  <2>2. ASSUME NEW s1 \in Ring, NEW s2 \in Ring, NEW s3 \in Ring, NEW t \in U[s1] \intersect U[s2],
               t \in U[s3]
        PROVE  s1 = s2 \/ s1 = s3 \/ s2 = s3
    <3>1. t \in T[s1] \intersect T[s2] /\ t \in T[s3]
      BY <2>2
    <3> QED BY <3>1 DEF Linked
  <2> QED BY <2>1, <2>2 DEF Linked
<1> QED BY <1>2, <1>3, <1>5

(* So does a new sample, if it is the newest, in a sector with room.       *)
LEMMA OrderedWritten ==
  ASSUME NEW T \in Contents, NEW F, NEW p \in Ring, Ordered(T, p), Linked(T, F), F[p] = {},
         NEW w \in Times, \A s \in Ring : \A t \in T[s] : t <= w,
         \A s \in Ring : w \in T[s] => s = p \/ (p = NextSector(s) /\ T[p] = {} /\ w \in F[s]),
         NEW U \in Contents, NEW G, \A s \in Ring : F[s] \subseteq G[s],
         U[p] = T[p] \/ U[p] = T[p] \union {w}, \A s \in Ring : s # p => U[s] = T[s]
  PROVE  Ordered(U, p) /\ Linked(U, G)
<1>1. w \in Nat /\ \A s \in Ring : T[s] \subseteq Nat
  BY RingFacts DEF Contents, Times
<1>2. \A s \in Ring : T[s] \subseteq U[s] /\ \A t \in U[s] : t \in T[s] \/ (s = p /\ t = w)
  OBVIOUS
<1>3. Ordered(U, p)
  <2> SUFFICES ASSUME NEW s1 \in Ring, NEW s2 \in Ring, Rank(p, s1) < Rank(p, s2)
               PROVE  \/ \A t1 \in U[s1], t2 \in U[s2] : t1 <= t2
                      \/ s1 = NextSector(p) /\ \E t \in U[p] : U[s1] \subseteq {t}
    BY DEF Ordered
  <2>1. s1 # p
    <3>1. s1 = p => s2 # p /\ Rank(p, s2) < Rank(p, p)
      BY RankFacts
    <3>2. Rank(p, s1) \in Nat /\ Rank(p, s2) \in Nat
      BY RankFacts
    <3> QED BY <3>1, <3>2
  <2>2. U[s1] = T[s1]
    BY <2>1
  <2>3. CASE s1 = NextSector(p) /\ \E t \in T[p] : T[s1] \subseteq {t}
    BY <1>2, <2>2, <2>3
  <2>4. CASE \A t1 \in T[s1], t2 \in T[s2] : t1 <= t2
    <3>1. \A t1 \in U[s1], t2 \in U[s2] : t1 <= t2
      BY <1>2, <2>2, <2>4
    <3> QED BY <3>1
  <2> QED BY <2>3, <2>4 DEF Ordered
<1>4. ASSUME NEW s1 \in Ring, NEW s2 \in Ring, NEW t \in T[s1] \intersect T[s2], Follows(T, F, s1, s2, t)
      PROVE  Follows(U, G, s1, s2, t)
  <2>1. s1 # p
    BY <1>4 DEF Follows
  <2>2. t <= w
    OBVIOUS
  <2>3. \A u \in U[s2] : t <= u
    BY <1>2, <1>4, <2>2 DEF Follows
  <2> QED BY <1>4, <2>1, <2>3 DEF Follows
<1>5. ASSUME NEW s \in Ring, s # p, w \in T[s]
      PROVE  Follows(U, G, s, p, w)
  <2>1. p = NextSector(s) /\ T[p] = {} /\ w \in F[s]
    BY <1>5
  <2>2. \A u \in U[p] : u = w
    BY <1>2, <2>1
  <2> QED BY <1>1, <1>5, <2>1, <2>2 DEF Follows
<1>6. Linked(U, G)
  <2>1. ASSUME NEW s1 \in Ring, NEW s2 \in Ring, NEW t \in U[s1] \intersect U[s2], s1 # s2
        PROVE  Follows(U, G, s1, s2, t) \/ Follows(U, G, s2, s1, t)
    <3>1. CASE t \in T[s1] \intersect T[s2]
      <4>1. Follows(T, F, s1, s2, t) \/ Follows(T, F, s2, s1, t)
        BY <2>1, <3>1 DEF Linked
      <4> QED BY <1>4, <3>1, <4>1
    <3>2. CASE s1 = p /\ t = w
      <4>1. s2 # p /\ w \in T[s2]
        BY <1>2, <2>1, <3>2
      <4> QED BY <1>5, <3>2, <4>1
    <3>3. CASE s2 = p /\ t = w
      <4>1. s1 # p /\ w \in T[s1]
        BY <1>2, <2>1, <3>3
      <4> QED BY <1>5, <3>3, <4>1
    <3> QED BY <1>2, <3>1, <3>2, <3>3
  <2>2. ASSUME NEW s1 \in Ring, NEW s2 \in Ring, NEW s3 \in Ring, NEW t \in U[s1] \intersect U[s2],
               t \in U[s3]
        PROVE  s1 = s2 \/ s1 = s3 \/ s2 = s3
    <3>1. CASE t # w
      <4>1. t \in T[s1] \intersect T[s2] /\ t \in T[s3]
        BY <1>2, <2>2, <3>1
      <4> QED BY <4>1 DEF Linked
    <3>2. CASE t = w
      <4>1. \A s \in {s1, s2, s3} : s = p \/ p = NextSector(s)
        BY <1>2, <2>2, <3>2
      <4> QED BY <4>1, NextSectorInjective
    <3> QED BY <3>1, <3>2
  <2> QED BY <2>1, <2>2 DEF Linked
<1> QED BY <1>3, <1>6

(* All samples of T.                                                       *)
Spread(T) == {t \in Times : \E s \in Ring : t \in T[s]}

(* Going from K to L only samples are given up that are among the oldest,  *)
(* as many as a sector holds, and not the newest.                          *)
GivesUpOldest(K, L) ==
    /\ L \subseteq K
    /\ \A t \in K \ L : Cardinality({k \in K : k <= t}) <= Slots
    /\ K # L => \E k \in L : \A t \in K \ L : t <= k

(* What thinning the oldest sector takes away are oldest samples.          *)
LEMMA ThinnedIsOldest ==
  ASSUME NEW T \in Contents, NEW p \in Ring, Ordered(T, p),
         NEW q \in Ring, q # NextSector(p), \A s \in Ring : \A t \in T[s] : \E u \in T[q] : t <= u,
         NEW U \in Contents, IsFiniteSet(T[NextSector(p)]), Cardinality(T[NextSector(p)]) <= Slots,
         U[NextSector(p)] \subseteq T[NextSector(p)],
         \A s \in Ring : s # NextSector(p) => U[s] = T[s]
  PROVE  GivesUpOldest(Spread(T), Spread(U))
<1> SUFFICES ASSUME NEW K, K = Spread(T), NEW L, L = Spread(U)
             PROVE  GivesUpOldest(K, L)
  OBVIOUS
<1>a. /\ \A t : t \in K <=> \E s \in Ring : t \in T[s]
      /\ \A t : t \in L <=> \E s \in Ring : t \in U[s]
  BY DEF Spread, Contents
<1> HIDE DEF Spread
<1> DEFINE x == NextSector(p)
<1>1. x \in Ring /\ x # p
  BY NextSectorFact
<1>2. L \subseteq K /\ \A s \in Ring : s # x => T[s] \subseteq L
  BY <1>a, <1>1
<1>3. K \subseteq Nat /\ \A k \in K : k <= MaxTime
  BY <1>a, RingFacts DEF Contents, Times
<1>4. \A t \in K \ L : t \in T[x]
  BY <1>a, <1>2
<1>5. ASSUME NEW t \in K \ L PROVE Cardinality({k \in K : k <= t}) <= Slots
  <2>1. t \in T[x] /\ t \notin T[p]
    BY <1>1, <1>2, <1>4
  <2>2. ASSUME NEW k \in K, k <= t PROVE k \in T[x]
    <3>1. PICK s \in Ring : k \in T[s]
      BY <1>a
    <3>2. SUFFICES ASSUME s # x PROVE FALSE
      BY <3>1
    <3>3. Rank(p, x) < Rank(p, s)
      BY <3>2, RankFacts
    <3>4. t <= k \/ \E u \in T[p] : T[x] \subseteq {u}
      BY <1>1, <2>1, <3>1, <3>3 DEF Ordered
    <3>5. t <= k
      BY <2>1, <3>4
    <3>6. t = k
      BY <1>3, <2>2, <3>5
    <3> QED BY <1>2, <3>1, <3>2, <3>6
  <2>3. {k \in K : k <= t} \in SUBSET T[x]
    BY <2>2
  <2>4. IsFiniteSet(T[x]) /\ Cardinality(T[x]) <= Slots
    OBVIOUS
  <2> HIDE DEF x
  <2>5. /\ IsFiniteSet({k \in K : k <= t})
        /\ Cardinality({k \in K : k <= t}) <= Cardinality(T[x])
    BY <2>3, <2>4, FS_Subset
  <2>6. Cardinality({k \in K : k <= t}) \in Nat /\ Cardinality(T[x]) \in Nat
    BY <2>4, <2>5, FS_CardinalityType
  <2> QED BY <2>4, <2>5, <2>6, RingFacts
<1>6. ASSUME K # L PROVE \E k \in L : \A t \in K \ L : t <= k
  <2>1. T[q] # {} /\ T[q] \in SUBSET Nat /\ T[q] \subseteq L /\ \A t \in T[q] : t <= MaxTime
    <3>1. \A t \in K : \E u \in T[q] : t <= u
      BY <1>a
    <3>2. T[q] # {}
      BY <1>2, <1>6, <3>1
    <3> QED BY <1>2, <1>3, <3>2
  <2>2. PICK m \in T[q] : \A t \in T[q] : t <= m
    BY <2>1, GreatestNumber, RingFacts
  <2>3. ASSUME NEW t \in K \ L PROVE t <= m
    <3>1. PICK u \in T[q] : t <= u
      BY <1>a
    <3>2. u <= m /\ u \in Nat /\ m \in Nat /\ t \in Nat
      BY <1>3, <2>1, <2>2
    <3> QED BY <3>1, <3>2
  <2> QED BY <2>1, <2>3
<1> QED BY <1>2, <1>5, <1>6 DEF GivesUpOldest

-----------------------------------------------------------------------------
(* The journal implements SampleLog                                        *)

(* The samples of each sector.                                             *)
Content == [s \in Ring |-> TS(s)]

(* The samples of a sector that are in its last slot only.                 *)
LastOnly(s) ==
    {t \in TS(s) : \A k \in SlotsIn(s) : rec[s][k] \in Records /\ rec[s][k].ts = t => k = Slots - 1}

Endings == [s \in Ring |-> LastOnly(s)]

(* Where a sample of the append under way may be already, once its first   *)
(* write has failed.                                                       *)
RetryInv ==
    attempts = 1 => \A s \in Ring : want \in TS(s) =>
        \/ s = active /\ (Rotating => want \in LastOnly(s))
        \/ pc = "record" /\ active = NextSector(s) /\ TS(active) = {} /\ want \in LastOnly(s)

(* The fourth invariant: the samples are in order around the ring.         *)
OrderInv ==
    Orderly =>
        /\ Working => Ordered(Content, active)
        /\ \E p \in Ring : Ordered(Content, p)
        /\ Linked(Content, Endings)
        /\ RetryInv /\ NewestAt(Kept)
        /\ \A s \in Ring : hdr[s].fmt # "v1"

(* The samples, sector by sector.                                          *)
LEMMA ContentFact ==
  ASSUME TelemetryTypeOK
  PROVE  /\ Content \in Contents /\ \A s \in Ring : Content[s] = TS(s)
         /\ \A t : t \in Kept <=> \E s \in Ring : t \in Content[s]
         /\ \A s \in Ring : Endings[s] = LastOnly(s)
<1>1. \A s \in Ring : Content[s] = TS(s)
  BY DEF Content
<1>2. Content \in Contents
  BY SamplesFact DEF Content, Contents
<1> QED BY <1>1, <1>2, KeptNow DEF Endings

(* The same after a step.                                                  *)
LEMMA ContentAfter ==
  ASSUME TelemetryTypeOK'
  PROVE  /\ Content' \in Contents /\ \A s \in Ring : Content'[s] = TS(s)'
         /\ \A t : t \in Kept' <=> \E s \in Ring : t \in Content'[s]
         /\ \A s \in Ring : Endings'[s] = LastOnly(s)'
<1>1. \A s \in Ring : Content'[s] = TS(s)'
  BY DEF Content
<1>2. \A s \in Ring : Samples(s)' \subseteq Records
  <2>1. \A s \in Ring : SlotsIn(s)' \subseteq Places
    BY RingFacts DEF SlotsIn
  <2>2. rec' \in [Ring -> [Places -> Records \union {Erased, Torn}]]
    BY DEF TelemetryTypeOK
  <2> QED BY <2>1, <2>2 DEF Samples
<1>3. \A s \in Ring : TS(s)' \subseteq Times
  BY <1>2 DEF TS, Records
<1>4. Content' \in Contents
  BY <1>3 DEF Content, Contents
<1> QED BY <1>1, <1>4, KeptAfter DEF Endings

(* Sectors that keep their records keep their endings.                     *)
LEMMA SameEndings ==
  ASSUME NEW s \in Ring, hdr'[s] = hdr[s], rec'[s] = rec[s]
  PROVE  LastOnly(s)' = LastOnly(s)
<1>1. SlotsIn(s)' = SlotsIn(s) /\ TS(s)' = TS(s)
  BY DEF SlotsIn, TS, Samples, Readable
<1> QED BY <1>1 DEF LastOnly

LEMMA SameContent ==
  ASSUME UNCHANGED <<hdr, rec>>
  PROVE  /\ Content' = Content /\ Endings' = Endings /\ Kept' = Kept
         /\ \A s \in Ring : TS(s)' = TS(s) /\ LastOnly(s)' = LastOnly(s)
<1>1. \A s \in Ring : LastOnly(s)' = LastOnly(s)
  BY SameEndings
<1> QED BY <1>1, SameSamples DEF Content, Endings

(* A sample that thinning leaves stays in its slot.                        *)
LEMMA ThinnedEndings ==
  ASSUME TelemetryTypeOK, TelemetryTypeOK', NEW x \in Ring, Thinned(x),
         NEW t \in LastOnly(x), t \in TS(x)'
  PROVE  t \in LastOnly(x)'
<1>1. Samples(x)' # {}
  BY DEF TS
<1>2. SlotsIn(x)' \subseteq Places
  BY RingFacts DEF SlotsIn
<1>3. hdr'[x] = hdr[x] /\ \A k \in Places : rec'[x][k] \in {rec[x][k], Erased, Torn}
  <2>1. hdr'[x].fmt \in {"none", "half"} => Samples(x)' = {}
    BY DEF Samples, Readable
  <2>2. (\A k \in Places : rec'[x][k] \in {Erased, Torn}) => Samples(x)' = {}
    BY <1>2 DEF Samples
  <2> QED BY <1>1, <2>1, <2>2 DEF Thinned
<1>4. SlotsIn(x)' = SlotsIn(x)
  BY <1>3 DEF SlotsIn
<1>5. ASSUME NEW k \in SlotsIn(x)', rec'[x][k] \in Records, rec'[x][k].ts = t PROVE k = Slots - 1
  <2>1. rec'[x][k] = rec[x][k]
    BY <1>2, <1>3, <1>5, SlotKinds
  <2> QED BY <1>4, <1>5, <2>1 DEF LastOnly
<1>6. Records' = Records
  BY DEF Records, Times
<1> QED BY <1>5, <1>6 DEF LastOnly

(* A sector of the current format holds no more samples than slots.        *)
LEMMA SectorHolds ==
  ASSUME TelemetryTypeOK, NEW x \in Ring, hdr[x].fmt # "v1"
  PROVE  IsFiniteSet(TS(x)) /\ Cardinality(TS(x)) <= Slots
<1> DEFINE S == 0..(Slots - 1)
           f == [k \in S |-> rec[x][k].ts]
           R == {f[k] : k \in S}
<1>1. IsFiniteSet(S) /\ Cardinality(S) = Slots
  <2>1. 0 \in Int /\ Slots - 1 \in Int /\ ~(0 > Slots - 1) /\ (Slots - 1) - 0 + 1 = Slots
    BY RingFacts
  <2>2. IsFiniteSet(0..(Slots - 1)) /\ Cardinality(0..(Slots - 1)) = (Slots - 1) - 0 + 1
    BY <2>1, FS_Interval
  <2> QED BY <2>1, <2>2
<1>2. f \in Surjection(S, R)
  BY DEF Surjection
<1> HIDE DEF S
<1>3. TS(x) \in SUBSET R
  <2>1. ASSUME NEW r \in Samples(x) PROVE r.ts \in R
    <3>1. PICK k \in S : r = rec[x][k]
      BY <2>1, SlotType DEF Samples, S
    <3> QED BY <3>1
  <2> HIDE DEF R
  <2> QED BY <2>1 DEF TS
<1> HIDE DEF R, f
<1>4. IsFiniteSet(R) /\ Cardinality(R) <= Slots
  BY <1>1, <1>2, FS_Surjection
<1>5. IsFiniteSet(TS(x)) /\ Cardinality(TS(x)) <= Cardinality(R)
  BY <1>3, <1>4, FS_Subset
<1>6. Cardinality(R) \in Nat /\ Cardinality(TS(x)) \in Nat
  BY <1>4, <1>5, FS_CardinalityType
<1> QED BY <1>4, <1>5, <1>6, RingFacts

(* In an orderly journal no sample is newer than the one being appended.   *)
LEMMA NoneNewer ==
  ASSUME RingInv, SequenceInv, Orderly, pc = "record"
  PROVE  /\ \A t \in Kept : t <= want /\ (attempts # 1 => t < want)
         /\ \A s \in Ring : \A t \in TS(s) : t <= want /\ (attempts # 1 => t < want)
<1> TelemetryTypeOK
  BY DEF RingInv
<1>1. want \in Nat /\ lastTs \in Nat /\ want > lastTs /\ Working
  BY RingFacts DEF RingInv, TelemetryTypeOK, OperationInv, Working, Times
<1>2. \A r \in AllSamples : Numbered(r) /\ r.ts \in Nat
  BY <1>1, KeptFact, RingFacts DEF SequenceInv, InSequence, Orderly, Times
<1>3. \A r \in AllSamples : r.ts <= want /\ (attempts # 1 => r.ts < want)
  BY <1>1, <1>2 DEF Numbered
<1>4. \A t \in Kept : t <= want /\ (attempts # 1 => t < want)
  BY <1>3 DEF Kept
<1> QED BY <1>4, KeptNow

(* A step that is part of a rotation, in an orderly journal.               *)
LEMMA RotationOrder ==
  ASSUME RingInv, RingInv', OrderInv, Orderly, Rotating, Thinned(target)
  PROVE  /\ Ordered(Content', active) /\ Linked(Content', Endings')
         /\ Wiped(target) => Ordered(Content', target)
         /\ \A s \in Ring : s # target => TS(s)' = TS(s) /\ LastOnly(s)' = LastOnly(s)
         /\ target = NextSector(active) \/ \A s \in Ring : TS(s)' = {}
         /\ GivesUpOldest(Kept, Kept')
<1> /\ TelemetryTypeOK /\ TelemetryTypeOK' /\ active \in Ring /\ target \in Ring /\ Working
    /\ failRow < RowLimit
  BY DEF RingInv, TelemetryTypeOK, Working, Orderly
<1>1. /\ Ordered(Content, active) /\ Linked(Content, Endings) /\ NewestAt(Kept)
      /\ \A s \in Ring : hdr[s].fmt # "v1"
  BY DEF OrderInv
<1>2. /\ Content \in Contents /\ Content' \in Contents
      /\ \A s \in Ring : Content[s] = TS(s) /\ Content'[s] = TS(s)'
      /\ \A s \in Ring : Endings[s] = LastOnly(s) /\ Endings'[s] = LastOnly(s)'
  BY ContentFact, ContentAfter
<1>3. PICK x \in Ring : x = target
  OBVIOUS
<1>4. TS(x)' \subseteq TS(x) /\ \A s \in Ring : s # x => TS(s)' = TS(s)
  BY <1>3, ThinnedSamples
<1>5. \A s \in Ring : s # x => LastOnly(s)' = LastOnly(s)
  BY <1>3, SameEndings DEF Thinned
<1>6. CASE target = NextSector(active)
  <2>1. x = NextSector(active)
    BY <1>3, <1>6
  <2>2. \A s \in Ring : /\ Content'[s] \subseteq Content[s]
                        /\ \A t \in Endings[s] : t \in Content'[s] => t \in Endings'[s]
    <3>1. \A t \in LastOnly(x) : t \in TS(x)' => t \in LastOnly(x)'
      BY <1>3, ThinnedEndings
    <3> QED BY <1>2, <1>4, <1>5, <3>1
  <2>3. \A s \in Ring : s # NextSector(active) => Content'[s] = Content[s]
    BY <1>2, <1>4, <2>1
  <2>4. /\ Ordered(Content', active) /\ Linked(Content', Endings')
        /\ Content'[NextSector(active)] = {} => Ordered(Content', NextSector(active))
    BY <1>1, <1>2, <2>2, <2>3, OrderedThinned
  <2>5. Wiped(target) => Content'[NextSector(active)] = {}
    <3>1. Wiped(x) => TS(x)' = {}
      BY WipedSamples
    <3> QED BY <1>2, <1>3, <2>1, <3>1
  <2>6. PICK q \in Ring : q # NextSector(active) /\ Reaches(Kept, q)
    <3>1. Kept = {} \/ \E q \in Ring : q # target /\ Reaches(Kept, q)
      BY <1>1, NewestSpared
    <3>2. Kept = {} => Reaches(Kept, active) /\ active # NextSector(active)
      BY NextSectorFact DEF Reaches
    <3> QED BY <1>6, <3>1, <3>2
  <2>7. \A s \in Ring : \A t \in Content[s] : \E u \in Content[q] : t <= u
    BY <1>2, <2>6, KeptNow DEF Reaches
  <2>8. Kept = Spread(Content) /\ Kept' = Spread(Content')
    BY <1>2, ContentFact, ContentAfter DEF Contents, Spread
  <2>9. IsFiniteSet(Content[NextSector(active)]) /\ Cardinality(Content[NextSector(active)]) <= Slots
    BY <1>1, <1>2, <2>1, SectorHolds
  <2>10. Content'[NextSector(active)] \subseteq Content[NextSector(active)]
    BY <2>1, <2>2
  <2>11. GivesUpOldest(Spread(Content), Spread(Content'))
    BY <1>1, <1>2, <2>3, <2>6, <2>7, <2>9, <2>10, ThinnedIsOldest
  <2>12. GivesUpOldest(Kept, Kept')
    BY <2>8, <2>11
  <2> QED BY <1>3, <1>4, <1>5, <1>6, <2>4, <2>5, <2>12
<1>7. CASE \A s \in Ring : ~Readable(s)
  <2>1. \A s \in Ring : TS(s) = {} /\ TS(s)' = {}
    BY <1>4, <1>7, SamplesFact DEF TS
  <2>2. \A s \in Ring : Content'[s] = {}
    BY <1>2, <2>1
  <2>3. \A p : Ordered(Content', p)
    BY <2>2 DEF Ordered
  <2>4. Linked(Content', Endings')
    BY <2>2 DEF Linked
  <2>5. Kept' = Kept
    BY <2>1, KeptNow, KeptAfter
  <2>6. GivesUpOldest(Kept, Kept')
    BY <2>5 DEF GivesUpOldest
  <2> QED BY <1>3, <1>4, <1>5, <2>1, <2>3, <2>4, <2>6
<1> QED BY <1>6, <1>7 DEF RingInv, OperationInv

(* In an orderly journal every sector is of the current format.            *)
LEMMA FormatStep ==
  ASSUME RingInv, RingInv', TelemetryNext, ~\E ts \in Times : OldFirmware(ts),
         \A s \in Ring : hdr[s].fmt # "v1"
  PROVE  \A s \in Ring : hdr'[s].fmt # "v1"
<1>1. CASE UNCHANGED hdr
  BY <1>1
<1>2. CASE Thinned(target)
  BY <1>2 DEF Thinned
<1>3. ASSUME NEW ts, Call(ts) \/ CallInit(ts) PROVE UNCHANGED hdr
  BY <1>3 DEF Call, CallInit, flash
<1>4. Start \/ WriteRecord => UNCHANGED hdr
  BY DEF Start, WriteRecord, flash
<1>5. EraseSector \/ WriteHeader \/ WriteCommit => Thinned(target)
  BY RotationWipes
<1>6. CommitFails => Thinned(target)
  BY CommitFailsRingInv
<1>7. RecordFails => UNCHANGED hdr
  BY RecordFailsRingInv DEF Recorded
<1>8. PowerCut => UNCHANGED hdr \/ Thinned(target)
  BY PowerCutRingInv DEF Recorded
<1> QED BY <1>1, <1>2, <1>3, <1>4, <1>5, <1>6, <1>7, <1>8 DEF TelemetryNext

(* An orderly journal was orderly before.                                  *)
LEMMA OrderlyBefore ==
  ASSUME RingInv, RingInv', TelemetryNext, Orderly'
  PROVE  Orderly /\ ~\E ts \in Times : OldFirmware(ts)
<1> TelemetryTypeOK /\ TelemetryTypeOK' /\ Slots \in Nat
  BY RingFacts DEF RingInv
<1>1. old \in Nat /\ old' = 0 /\ failRow \in Nat /\ failRow' < RowLimit /\ stray \in BOOLEAN /\ ~stray'
  BY DEF Orderly, TelemetryTypeOK
<1>2. ~\E ts \in Times : OldFirmware(ts)
  <2> SUFFICES ASSUME NEW ts \in Times, OldFirmware(ts) PROVE FALSE
    OBVIOUS
  <2>1. old' = old + 1
    BY DEF OldFirmware
  <2> QED BY <1>1, <2>1
<1>3. old' = old
  BY <1>2 DEF TelemetryNext, Call, CallInit, EraseSector, WriteHeader, WriteCommit, WriteRecord,
              CommitFails, RecordFails, PowerCut, Start
<1>4. failRow < RowLimit
  <2>1. failRow' = failRow \/ failRow' = RowEnds
        \/ failRow' = IF failRow < RowLimit THEN failRow + 1 ELSE failRow
    BY <1>2 DEF TelemetryNext, Call, CallInit, EraseSector, WriteHeader, WriteCommit, WriteRecord,
                CommitFails, RecordFails, PowerCut, Start, history
  <2>2. HistoryType
    BY DEF HistoryType, TelemetryTypeOK
  <2> QED BY <1>1, <2>1, <2>2, RowEndsType
<1>5. UNCHANGED stray \/ stray' = (stray \/ want \in Kept')
  BY <1>2, Zenon DEF TelemetryNext, Call, CallInit, EraseSector, WriteHeader, WriteCommit,
              WriteRecord, CommitFails, RecordFails, PowerCut, Start, AppendTo, history
<1>6. ~stray
  <2>1. CASE stray' = (stray \/ want \in Kept')
    BY <1>1, <2>1
  <2>2. CASE UNCHANGED stray
    BY <1>1, <2>2
  <2> QED BY <1>5, <2>1, <2>2
<1> QED BY <1>1, <1>2, <1>3, <1>4, <1>6 DEF Orderly

(* What a record write does to the samples, sector by sector.              *)
LEMMA RecordWritten ==
  ASSUME RingInv, pc = "record", NEW a \in Ring, a = active,
         NEW v \in {Erased, Torn, NewRecord}, Recorded(active, nextSlot, v)
  PROVE  /\ \A s \in Ring : s # a => TS(s)' = TS(s) /\ rec'[s] = rec[s]
         /\ v # NewRecord => TS(a)' = TS(a)
         /\ v = NewRecord => TS(a)' = TS(a) \union {want}
<1>1. /\ active \in Ring /\ nextSlot \in 0..(Slots - 1) /\ hdr[active].fmt = "v2"
      /\ NewRecord \in Records /\ NewRecord.ts = want /\ TelemetryTypeOK
  BY NewRecordType DEF RingInv
<1>2. Recorded(a, nextSlot, v) /\ hdr[a].fmt = "v2"
  BY <1>1 DEF Recorded
<1>3. /\ \A s \in Ring \ {a} : TS(s)' = TS(s) /\ rec'[s] = rec[s]
      /\ v # NewRecord => TS(a)' = TS(a)
      /\ v = NewRecord => TS(a)' = TS(a) \union {want}
  BY <1>1, <1>2, RecordedSamples
<1> QED BY <1>3

(* A record write in an orderly journal, whatever becomes of it.           *)
LEMMA RecordOrder ==
  ASSUME RingInv, RingInv', SequenceInv, OrderInv, Orderly, pc = "record",
         NEW v, Recorded(active, nextSlot, v)
  PROVE  /\ Ordered(Content', active) /\ Linked(Content', Endings')
         /\ Kept' = Kept \/ (v = NewRecord /\ Kept' = Kept \union {want})
         /\ \A s \in Ring : s # active => TS(s)' = TS(s)
         /\ v # NewRecord => \A s \in Ring : TS(s)' = TS(s)
<1> TelemetryTypeOK /\ TelemetryTypeOK' /\ active \in Ring /\ nextSlot \in 0..(Slots - 1)
    /\ hdr[active].fmt = "v2" /\ NewRecord \in Records /\ want \in Times /\ NewRecord.ts = want
  BY NewRecordType DEF RingInv
<1>1. Ordered(Content, active) /\ Linked(Content, Endings) /\ RetryInv
  BY DEF OrderInv, RingInv, OperationInv, Working
<1>2. Content \in Contents /\ Content' \in Contents
      /\ \A s \in Ring : Content[s] = TS(s) /\ Content'[s] = TS(s)'
  BY ContentFact, ContentAfter
<1>0. PICK a \in Ring : a = active
  OBVIOUS
<1>3. /\ \A s \in Ring : s # a => TS(s)' = TS(s) /\ rec'[s] = rec[s]
      /\ v # NewRecord => TS(a)' = TS(a)
      /\ v = NewRecord => TS(a)' = TS(a) \union {want}
  <2>1. v \in {Erased, Torn, NewRecord}
    BY DEF Recorded
  <2> QED BY <1>0, <2>1, RecordWritten
<1>4. LastOnly(a) = {}
  <2>1. ready /\ nextSlot \in Nat /\ nextSlot <= Slots - 1 /\ Slots \in Nat
    BY NewRecordType, RingFacts DEF RingInv, OperationInv
  <2>2. Slots - 1 \in 0..(Slots - 1) /\ Slots - 1 >= nextSlot
    BY <2>1, RingFacts
  <2>3. rec[a][Slots - 1] = Erased
    BY <1>0, <2>1, <2>2 DEF RingInv, PositionInv
  <2>4. ASSUME NEW t \in LastOnly(a) PROVE FALSE
    <3>1. PICK r \in Samples(a) : t = r.ts
      BY DEF LastOnly, TS
    <3>2. PICK k \in SlotsIn(a) : r = rec[a][k]
      BY DEF Samples
    <3>3. r \in Records
      BY SamplesFact
    <3>4. k = Slots - 1
      BY <3>1, <3>2, <3>3 DEF LastOnly
    <3> QED BY <2>3, <3>2, <3>3, <3>4, SlotKinds
  <2> QED BY <2>4
<1>5. \A s \in Ring : Endings[s] \subseteq Endings'[s]
  <2>1. \A s \in Ring : s # a => LastOnly(s)' = LastOnly(s)
    BY <1>3, SameEndings DEF Recorded
  <2> QED BY <1>4, <2>1, ContentFact, ContentAfter
<1>6. \A s \in Ring : \A t \in Content[s] : t <= want
  BY <1>2, NoneNewer
<1>7. ASSUME NEW s \in Ring, want \in Content[s]
      PROVE  s = a \/ (a = NextSector(s) /\ Content[a] = {} /\ want \in Endings[s])
  <2>1. attempts = 1
    <3>1. attempts # 1 => want < want
      BY <1>2, <1>7, NoneNewer
    <3> QED BY <3>1, RingFacts DEF Times
  <2>2. want \in TS(s)
    BY <1>2, <1>7
  <2>3. TS(active) = TS(a)
    BY <1>0
  <2> QED BY <1>0, <1>1, <1>2, <2>1, <2>2, <2>3, ContentFact DEF RetryInv
<1>8. Content'[a] = Content[a] \/ Content'[a] = Content[a] \union {want}
  BY <1>2, <1>3
<1>9. \A s \in Ring : s # a => Content'[s] = Content[s]
  BY <1>2, <1>3
<1>a. Endings[a] = {}
  BY <1>4, ContentFact
<1>10. Ordered(Content', a) /\ Linked(Content', Endings')
  BY <1>a, <1>0, <1>1, <1>2, <1>4, <1>5, <1>6, <1>7, <1>8, <1>9, OrderedWritten
<1>11. Kept' = Kept \/ (v = NewRecord /\ Kept' = Kept \union {want})
  <2>1. CASE v = NewRecord
    <3>1. \A s \in Ring : \A t : t \in TS(s)' <=> t \in TS(s) \/ (s = a /\ t = want)
      BY <1>3, <2>1
    <3>2. \A t : t \in Kept' <=> t \in Kept \union {want}
      BY <3>1, KeptNow, KeptAfter
    <3> QED BY <2>1, <3>2
  <2>2. CASE v # NewRecord
    <3>1. \A s \in Ring : TS(s)' = TS(s)
      BY <1>3, <2>2
    <3>2. \A t : t \in Kept' <=> t \in Kept
      BY <3>1, KeptNow, KeptAfter
    <3> QED BY <3>2
  <2> QED BY <2>1, <2>2
<1> QED BY <1>0, <1>3, <1>10, <1>11

(* The samples stay in order around the ring.                              *)
LEMMA OrderInvStep ==
  ASSUME RingInv, RingInv', SequenceInv, OrderInv, [TelemetryNext]_vars
  PROVE  OrderInv'
<1> SUFFICES ASSUME Orderly'
             PROVE  /\ Working' => Ordered(Content', active')
                    /\ \E p \in Ring : Ordered(Content', p)
                    /\ Linked(Content', Endings')
                    /\ RetryInv' /\ NewestAt(Kept)'
                    /\ \A s \in Ring : hdr'[s].fmt # "v1"
  <2>1. Ring' = Ring
    BY DEF Ring
  <2> QED BY <2>1 DEF OrderInv, Ordered, Linked, Follows, Rank, NextSector
<1> /\ TelemetryTypeOK /\ TelemetryTypeOK' /\ active \in Ring /\ target \in Ring
    /\ active' \in Ring
  BY DEF RingInv, TelemetryTypeOK
<1>1. CASE UNCHANGED vars
  <2>1. Orderly /\ UNCHANGED <<hdr, rec>>
    BY <1>1 DEF vars, Orderly
  <2>2. /\ Working => Ordered(Content, active)
        /\ \E p \in Ring : Ordered(Content, p)
        /\ Linked(Content, Endings) /\ RetryInv /\ NewestAt(Kept)
        /\ \A s \in Ring : hdr[s].fmt # "v1"
    BY <2>1 DEF OrderInv
  <2>3. /\ Content' = Content /\ Endings' = Endings /\ Kept' = Kept
        /\ \A s \in Ring : TS(s)' = TS(s) /\ LastOnly(s)' = LastOnly(s)
    BY <2>1, SameContent
  <2>4. NewestAt(Kept)'
    <3>1. PICK K : K = Kept
      OBVIOUS
    <3>2. \A s \in Ring : Reaches(K, s)' <=> Reaches(K, s)
      BY <2>3 DEF Reaches
    <3>3. Reaches(K, active)' <=> Reaches(K, active)
      <4>1. PICK s \in Ring : s = active /\ active' = s
        BY <1>1 DEF vars
      <4>2. Reaches(K, active)' <=> Reaches(K, s)'
        BY <4>1 DEF Reaches
      <4> QED BY <3>2, <4>1, <4>2
    <3>4. NewestAt(K)
      BY <2>2, <3>1
    <3>5. UNCHANGED <<ready, active, nextSlot, failRow, pc>>
      BY <1>1 DEF vars
    <3>6. NewestAt(K)'
      BY <2>3, <3>2, <3>3, <3>4, <3>5 DEF NewestAt, Rotating, NextSector
    <3> QED BY <2>3, <3>1, <3>6 DEF NewestAt, Reaches
  <2>5. RetryInv'
    <3>1. UNCHANGED <<attempts, want, active, pc>> /\ RetryInv
      BY <1>1, <2>2 DEF vars
    <3>2. PICK a \in Ring : a = active /\ active' = a
      BY <3>1
    <3>3. TS(active) = TS(a) /\ TS(active)' = TS(a)'
      BY <3>2 DEF TS, Samples, Readable, SlotsIn
    <3>4. TS(active)' = TS(active)
      BY <2>3, <3>3
    <3> QED BY <2>3, <3>1, <3>4 DEF RetryInv, Rotating, NextSector
  <2>6. Working' <=> Working
    BY <1>1 DEF vars, Working, Rotating
  <2>7. active' = active
    BY <1>1 DEF vars
  <2>8. \A s \in Ring : hdr'[s].fmt # "v1"
    BY <2>1, <2>2
  <2> QED BY <2>2, <2>3, <2>4, <2>5, <2>6, <2>7, <2>8
<1>2. CASE TelemetryNext
  <2>1. Orderly /\ ~\E ts \in Times : OldFirmware(ts)
    BY <1>2, OrderlyBefore
  <2>2. /\ Working => Ordered(Content, active)
        /\ \E p \in Ring : Ordered(Content, p)
        /\ Linked(Content, Endings) /\ RetryInv /\ NewestAt(Kept)
        /\ \A s \in Ring : hdr[s].fmt # "v1"
    BY <2>1 DEF OrderInv
  <2>0. \A s \in Ring : hdr'[s].fmt # "v1"
    BY <1>2, <2>1, <2>2, FormatStep
  <2>3. WriteRecord => pc = "record" /\ Recorded(active, nextSlot, NewRecord)
    BY RecordRingInv DEF WriteRecord
  <2>4. RecordFails => pc = "record" /\ \E v : Recorded(active, nextSlot, v)
    BY RecordFailsRingInv DEF RecordFails
  <2>5. NewestAt(Kept)'
    <3>1. PICK U : U = Kept'
      OBVIOUS
    <3>2. PICK K : K = Kept
      OBVIOUS
    <3>3. K \in SUBSET Nat
      BY <3>2, KeptFact, RingFacts DEF Times
    <3>4. \A r \in AllSamples' : r \in AllSamples \/ (pc = "record" /\ r = NewRecord)
      BY <1>2, <2>1, SamplesAfter
    <3>5. \/ U \subseteq K
          \/ /\ pc = "record" /\ Recorded(active, nextSlot, NewRecord)
             /\ U \subseteq K \union {want} /\ \A t \in K : t <= want
      <4>1. CASE pc = "record" /\ \E v : Recorded(active, nextSlot, v)
        <5>1. PICK v : Recorded(active, nextSlot, v)
          BY <4>1
        <5>2. Kept' = Kept \/ (v = NewRecord /\ Kept' = Kept \union {want})
          BY <2>1, <4>1, <5>1, RecordOrder
        <5>3. \A t \in Kept : t <= want
          BY <2>1, <4>1, NoneNewer
        <5> QED BY <3>1, <3>2, <4>1, <5>1, <5>2, <5>3
      <4>2. CASE pc # "record" \/ UNCHANGED <<hdr, rec>>
        <5>1. AllSamples' \subseteq AllSamples
          BY <3>4, <4>2, SameSamples
        <5>2. Kept' \subseteq Kept
          BY <5>1 DEF Kept
        <5> QED BY <3>1, <3>2, <5>2
      <4>3. pc = "record" => WriteRecord \/ RecordFails \/ PowerCut
        BY <1>2, <2>1 DEF TelemetryNext, Call, CallInit, EraseSector, WriteHeader, WriteCommit,
                          CommitFails, Start
      <4>4. PowerCut => \/ UNCHANGED <<hdr, rec>> \/ Rotating
                        \/ pc = "record" /\ \E v : Recorded(active, nextSlot, v)
        BY PowerCutRingInv
      <4>5. Rotating => pc # "record"
        BY DEF Rotating
      <4> QED BY <2>3, <2>4, <4>1, <4>2, <4>3, <4>4, <4>5
    <3>6. WriteRecord => \A t \in K : t <= want
      BY <2>1, <2>3, <3>2, NoneNewer
    <3>7. NewestAt(K) /\ failRow' < RowLimit
      BY <2>2, <3>2 DEF Orderly
    <3>8. NewestAt(U)'
      BY <1>2, <2>1, <3>3, <3>5, <3>6, <3>7, NewestStep
    <3> QED BY <3>1, <3>8 DEF NewestAt, Reaches
  <2>6. ASSUME NEW ts \in Times \union {0}, Call(ts)
        PROVE  /\ Working' => Ordered(Content', active')
               /\ \E p \in Ring : Ordered(Content', p)
               /\ Linked(Content', Endings') /\ RetryInv'
    <3>1. UNCHANGED <<hdr, rec>> /\ active' = active /\ ready /\ attempts' # 1
      BY <2>6 DEF Call, flash, journal, AppendTo
    <3>2. Content' = Content /\ Endings' = Endings
      BY <3>1, SameContent
    <3> QED BY <2>2, <3>1, <3>2 DEF RetryInv, Working
  <2>7. ASSUME NEW ts \in Times \union {0}, CallInit(ts)
        PROVE  /\ Working' => Ordered(Content', active')
               /\ \E p \in Ring : Ordered(Content', p)
               /\ Linked(Content', Endings') /\ RetryInv'
    <3>0. PICK b \in Ring : b = Scan[Sectors].best
      BY ScanFact
    <3>1. UNCHANGED <<hdr, rec>> /\ active' = b /\ attempts' # 1
      BY <2>7, <3>0 DEF CallInit, flash, AppendTo
    <3>2. Content' = Content /\ Endings' = Endings
      BY <3>1, SameContent
    <3>3. PICK p \in Ring : Ordered(Content, p)
      BY <2>2
    <3>4. Content \in Contents /\ \A s \in Ring : Content[s] = TS(s)
      BY ContentFact
    <3>5. ASSUME NEW s \in Ring, NEW t \in TS(s) PROVE \E u \in TS(b) : t <= u
      <4>1. Scan[Sectors].found
        BY ScanFact, SamplesFact DEF TS
      <4> QED BY <3>0, <4>1, ScanFact
    <3>6. \A s \in Ring : \A t \in Content[s] : \E u \in Content[b] : t <= u
      BY <3>4, <3>5
    <3>7. Ordered(Content, b)
      BY <2>2, <3>3, <3>4, <3>6, OrderedFromNewest
    <3> QED BY <2>2, <3>1, <3>2, <3>7 DEF RetryInv
  <2>8. ASSUME Rotating, Thinned(target),
               active' = active /\ (attempts' = 1 => Wiped(target) /\ want' = want /\ attempts = 1)
        PROVE  /\ Ordered(Content', active') /\ Linked(Content', Endings') /\ RetryInv'
    <3>1. /\ Ordered(Content', active) /\ Linked(Content', Endings')
          /\ \A s \in Ring : s # target => TS(s)' = TS(s) /\ LastOnly(s)' = LastOnly(s)
      BY <2>1, <2>8, RotationOrder
    <3>2. RetryInv'
      <4> SUFFICES ASSUME attempts' = 1, NEW s \in Ring, want' \in TS(s)'
                   PROVE  s = active' /\ want' \in LastOnly(s)'
        BY DEF RetryInv, Ring
      <4>1. PICK x \in Ring : x = target
        OBVIOUS
      <4>2. TS(x)' = {}
        BY <2>8, <4>1, WipedSamples
      <4>3. s # target /\ want \in TS(s)
        BY <2>8, <3>1, <4>1, <4>2
      <4>4. s = active /\ want \in LastOnly(s)
        BY <2>2, <2>8, <4>3 DEF RetryInv, Rotating
      <4> QED BY <2>8, <3>1, <4>3, <4>4
    <3> QED BY <2>8, <3>1, <3>2
  <2>9. CASE EraseSector \/ WriteHeader
    <3>1. Rotating /\ Wiped(target) /\ Thinned(target)
      BY <2>9, RotationWipes
    <3>2. active' = active /\ want' = want /\ attempts' = attempts
      BY <2>9 DEF EraseSector, WriteHeader, journal
    <3> QED BY <2>0, <2>5, <2>8, <3>1, <3>2
  <2>10. CASE WriteCommit
    <3>1. Rotating /\ Wiped(target) /\ Thinned(target) /\ active' = target
      BY <2>10, RotationWipes DEF WriteCommit
    <3>2. /\ Ordered(Content', target) /\ Linked(Content', Endings')
          /\ \A s \in Ring : s # target => TS(s)' = TS(s) /\ LastOnly(s)' = LastOnly(s)
          /\ target = NextSector(active) \/ \A s \in Ring : TS(s)' = {}
      BY <2>1, <3>1, RotationOrder
    <3>3. RetryInv'
      <4>1. PICK x \in Ring : x = target
        OBVIOUS
      <4>2. TS(x)' = {}
        BY <3>1, <4>1, WipedSamples
      <4>3. TS(active)' = {}
        BY <3>1, <4>1, <4>2 DEF TS, Samples, Readable, SlotsIn
      <4> SUFFICES ASSUME attempts' = 1, NEW s \in Ring, want' \in TS(s)'
                   PROVE  pc' = "record" /\ active' = NextSector(s) /\ want' \in LastOnly(s)'
        BY <4>3 DEF RetryInv, Ring, NextSector
      <4>4. pc' = "record" /\ want' = want /\ attempts = 1
        <5>1. RingInv' /\ (pc' \in {"idle", "record"})
              /\ (pc' = "record" => want' = want /\ attempts' = attempts)
          BY <2>10, CommitRingInv
        <5>2. pc' = "idle" => attempts' = 0
          BY <5>1 DEF RingInv, OperationInv
        <5> QED BY <5>1, <5>2
      <4>5. s # target /\ want \in TS(s)
        BY <3>2, <4>1, <4>2, <4>4
      <4>6. s = active /\ want \in LastOnly(s)
        BY <2>2, <3>1, <4>4, <4>5 DEF RetryInv, Rotating
      <4>7. target = NextSector(active)
        BY <3>2
      <4> QED BY <3>1, <3>2, <4>4, <4>5, <4>6, <4>7
    <3> QED BY <2>0, <2>5, <3>1, <3>2, <3>3
  <2>11. CASE CommitFails
    <3>1. Rotating /\ Thinned(target)
      BY <2>11, CommitFailsRingInv
    <3>2. active' = active /\ attempts' = 0
      BY <2>11 DEF CommitFails, journal
    <3> QED BY <2>0, <2>5, <2>8, <3>1, <3>2
  <2>12. CASE WriteRecord
    <3>1. Ordered(Content', active) /\ Linked(Content', Endings')
      BY <2>1, <2>3, <2>12, RecordOrder
    <3>2. active' = active /\ attempts' = 0
      BY <2>12 DEF WriteRecord
    <3> QED BY <2>0, <2>5, <3>1, <3>2 DEF RetryInv
  <2>13. CASE RecordFails
    <3>1. PICK v : pc = "record" /\ Recorded(active, nextSlot, v)
      BY <2>4, <2>13
    <3>2. /\ Ordered(Content', active) /\ Linked(Content', Endings')
          /\ \A s \in Ring : s # active => TS(s)' = TS(s)
          /\ v # NewRecord => \A s \in Ring : TS(s)' = TS(s)
      BY <2>1, <3>1, RecordOrder
    <3>3. active' = active
      BY <2>13 DEF RecordFails
    <3>4. RetryInv'
      <4> SUFFICES ASSUME attempts' = 1, NEW s \in Ring, want' \in TS(s)'
                   PROVE  s = active' /\ (Rotating' => want' \in LastOnly(s)')
        BY DEF RetryInv, Ring
      <4>1. pc' # "idle"
        BY DEF RingInv, OperationInv
      <4>2. attempts = 2 /\ want' = want
        BY <2>13, <4>1, RecordFailsRingInv
      <4>3. want \notin TS(s)
        <5>1. \A t \in TS(s) : t < want
          BY <2>1, <3>1, <4>2, NoneNewer
        <5>2. ~(want < want)
          BY RingFacts DEF TelemetryTypeOK, Times
        <5> QED BY <5>1, <5>2
      <4>4. s = active /\ v = NewRecord
        BY <3>2, <4>2, <4>3
      <4>5. ASSUME Rotating' PROVE want \in LastOnly(s)'
        <5>1. AppendTo(active, gen, nextSlot + 1, lastTs, want, 1) /\ pc' # "record"
          BY <2>13, <4>2, <4>5 DEF RecordFails, Rotating
        <5>2. nextSlot + 1 >= Slots
          BY <4>1, <5>1 DEF AppendTo
        <5>3. nextSlot = Slots - 1
          BY <3>1, <5>2, NewRecordType, RingFacts
        <5>4. hdr' = hdr /\ rec' = [rec EXCEPT ![active][nextSlot] = NewRecord]
          BY <3>1, <4>4 DEF Recorded
        <5>5. rec[active] \in [Places -> Records \union {Erased, Torn}] /\ hdr[active].fmt = "v2"
          BY <3>1, NewRecordType, SlotType
        <5>6. \A k \in Places : k # Slots - 1 => rec'[s][k] = rec[s][k]
          BY <4>4, <5>3, <5>4, <5>5 DEF TelemetryTypeOK
        <5>7. SlotsIn(s)' = SlotsIn(s) /\ SlotsIn(s) \subseteq Places /\ Readable(s)
          BY <4>4, <5>4, <5>5, SlotType DEF SlotsIn, Readable
        <5>8. ASSUME NEW k \in SlotsIn(s)', rec'[s][k] \in Records, rec'[s][k].ts = want
              PROVE  k = Slots - 1
          <6>1. SUFFICES ASSUME k # Slots - 1 PROVE FALSE
            OBVIOUS
          <6>2. rec[s][k] \in Samples(s)
            BY <5>6, <5>7, <5>8, <6>1, SlotKinds DEF Samples
          <6> QED BY <4>3, <5>6, <5>7, <5>8, <6>1, <6>2 DEF TS
        <5>9. Records' = Records /\ want \in TS(s)'
          BY <4>2 DEF Records, Times
        <5> QED BY <5>8, <5>9 DEF LastOnly
      <4>6. Rotating' => want' \in LastOnly(s)'
        BY <4>2, <4>5
      <4> QED BY <3>3, <4>4, <4>6
    <3> QED BY <2>0, <2>5, <3>2, <3>3, <3>4
  <2>14. CASE PowerCut
    <3>1. attempts' = 0 /\ ~Working'
      BY <2>14 DEF PowerCut, Working, Rotating
    <3>2. RetryInv'
      BY <3>1 DEF RetryInv
    <3>3. CASE UNCHANGED <<hdr, rec>>
      <4>1. Content' = Content /\ Endings' = Endings
        BY <3>3, SameContent
      <4> QED BY <2>0, <2>2, <2>5, <3>1, <3>2, <4>1
    <3>4. CASE Rotating /\ Thinned(target)
      BY <2>0, <2>1, <2>5, <3>1, <3>2, <3>4, RotationOrder
    <3>5. CASE pc = "record" /\ \E v : Recorded(active, nextSlot, v)
      BY <2>0, <2>1, <2>5, <3>1, <3>2, <3>5, RecordOrder
    <3> QED BY <2>14, <3>3, <3>4, <3>5, PowerCutRingInv
  <2>15. CASE Start
    <3>1. UNCHANGED <<hdr, rec>> /\ ~Working' /\ attempts' # 1
      BY <2>15 DEF Start, flash, journal, Working, Rotating, RingInv, OperationInv
    <3>2. Content' = Content /\ Endings' = Endings
      BY <3>1, SameContent
    <3> QED BY <2>0, <2>2, <2>5, <3>1, <3>2 DEF RetryInv
  <2> QED BY <1>2, <2>0, <2>1, <2>5, <2>6, <2>7, <2>9, <2>10, <2>11, <2>12, <2>13, <2>14, <2>15
          DEF TelemetryNext
<1> QED BY <1>1, <1>2

(* There is nothing to be out of order yet.                                *)
LEMMA InitOrderInv ==
  ASSUME TelemetryInit
  PROVE  OrderInv
<1>1. \A s \in Ring : Samples(s) = {} /\ TS(s) = {}
  BY DEF TelemetryInit, NoHeader, Samples, Readable, TS
<1>2. Kept = {}
  BY <1>1, KeptNow
<1>3. \A s \in Ring : Content[s] = {}
  BY <1>1 DEF Content
<1>4. Ordered(Content, active) /\ Ordered(Content, 0) /\ Linked(Content, Endings)
  BY <1>3 DEF Ordered, Linked
<1>5. NewestAt(Kept)
  BY <1>2 DEF TelemetryInit, NewestAt, Reaches, Rotating
<1>6. RetryInv
  BY DEF TelemetryInit, RetryInv
<1>7. \A s \in Ring : hdr[s].fmt # "v1"
  BY DEF TelemetryInit, NoHeader
<1> QED BY <1>4, <1>5, <1>6, <1>7, RingFacts DEF OrderInv

(* A step of an orderly journal is one of SampleLog, or changes no sample. *)
LEMMA SampleLogStep ==
  ASSUME RingInv, RingInv', SequenceInv, OrderInv, [TelemetryNext]_vars, Orderly, old' = old
  PROVE  SL!SampleNext \/ UNCHANGED Kept
<1> TelemetryTypeOK /\ TelemetryTypeOK'
  BY DEF RingInv
<1>1. CASE UNCHANGED <<hdr, rec>>
  BY <1>1, SameSamples
<1>2. CASE Rotating /\ Thinned(target)
  <2>1. GivesUpOldest(Kept, Kept')
    BY <1>2, RotationOrder
  <2>2. PICK gone : gone = Kept \ Kept'
    OBVIOUS
  <2>3. Kept' = Kept \ gone /\ gone \in SUBSET Kept
    BY <2>1, <2>2 DEF GivesUpOldest
  <2>4. \A t \in gone : SL!Cardinality(SL!UpTo(t)) <= Slots
    <3>1. \A S : SL!Cardinality(S) = Cardinality(S)
      BY DEF SL!Cardinality, Cardinality
    <3>2. \A t \in gone : Cardinality(SL!UpTo(t)) <= Slots
      BY <2>1, <2>2 DEF GivesUpOldest, SL!UpTo
    <3> QED BY <3>1, <3>2
  <2>5. CASE Kept # Kept'
    <3>1. PICK k \in Kept' : \A t \in Kept \ Kept' : t <= k
      BY <2>1, <2>5 DEF GivesUpOldest
    <3>2. k \in Kept \ gone /\ gone \subseteq SL!UpTo(k)
      BY <2>2, <2>3, <3>1 DEF SL!UpTo
    <3>3. SL!GiveUp(gone)
      BY <2>3, <2>4, <3>2, Zenon DEF SL!GiveUp
    <3> QED BY <2>3, <3>3 DEF SL!SampleNext
  <2> QED BY <2>5
<1>3. CASE pc = "record" /\ \E v : Recorded(active, nextSlot, v)
  <2>1. Kept' = Kept \/ Kept' = Kept \union {want}
    BY <1>3, RecordOrder
  <2>2. want \in Times /\ \A t \in Kept : t <= want
    BY <1>3, NoneNewer, NewRecordType
  <2>3. CASE want \in Kept
    BY <2>1, <2>3
  <2>4. CASE want \notin Kept /\ Kept' = Kept \union {want}
    <3>1. \A t \in Kept : t < want
      BY <2>2, <2>4, KeptFact, RingFacts DEF Times
    <3> QED BY <2>2, <2>4, <3>1 DEF SL!SampleNext, SL!Add
  <2> QED BY <2>1, <2>3, <2>4
<1>4. UNCHANGED vars => UNCHANGED <<hdr, rec>>
  BY DEF vars
<1>5. ASSUME NEW ts, Call(ts) \/ CallInit(ts) PROVE UNCHANGED <<hdr, rec>>
  BY <1>5 DEF Call, CallInit, flash
<1>6. Start => UNCHANGED <<hdr, rec>>
  BY DEF Start, flash
<1>7. EraseSector \/ WriteHeader \/ WriteCommit => Rotating /\ Thinned(target)
  BY RotationWipes
<1>8. CommitFails => Rotating /\ Thinned(target)
  BY CommitFailsRingInv
<1>9. WriteRecord => pc = "record" /\ Recorded(active, nextSlot, NewRecord)
  BY RecordRingInv DEF WriteRecord
<1>10. RecordFails => pc = "record" /\ \E v : Recorded(active, nextSlot, v)
  BY RecordFailsRingInv DEF RecordFails
<1>11. PowerCut => \/ UNCHANGED <<hdr, rec>> \/ (Rotating /\ Thinned(target))
                   \/ pc = "record" /\ \E v : Recorded(active, nextSlot, v)
  BY PowerCutRingInv
<1>12. ASSUME NEW ts \in Times, OldFirmware(ts) PROVE FALSE
  <2>1. old' = old + 1 /\ old \in Nat
    BY <1>12 DEF OldFirmware, TelemetryTypeOK
  <2> QED BY <2>1
<1> QED BY <1>1, <1>2, <1>3, <1>4, <1>5, <1>6, <1>7, <1>8, <1>9, <1>10, <1>11, <1>12 DEF TelemetryNext

(* The journal implements SampleLog: as long as no older firmware ran, no  *)
(* append failed although its sample can be read and failing record writes *)
(* did not use up the ring, every flash operation, every error and every   *)
(* loss of power adds the newest sample, gives up some of the oldest ones, *)
(* or leaves all samples as they were.                                     *)
THEOREM JournalImplementsSampleLog == TelemetrySpec => SampleLogImplemented
<1>1. ASSUME TelemetryInit PROVE SL!SampleInit
  <2>1. AllSamples = {}
    BY <1>1 DEF TelemetryInit, NoHeader, AllSamples, Samples, Readable
  <2> QED BY <2>1 DEF SL!SampleInit, Kept
<1>2. ASSUME RingInv, RingInv', SequenceInv, OrderInv, [TelemetryNext]_vars
      PROVE  [Orderly /\ old' = old => SL!SampleNext \/ UNCHANGED Kept]_vars
  BY <1>2, SampleLogStep
<1> QED BY <1>1, <1>2, RingInvAlways, InitSequenceInv, SequenceInvStep, InitOrderInv, OrderInvStep, PTL
        DEF TelemetrySpec, SampleLogImplemented

-----------------------------------------------------------------------------
(* Queries: a buffer and its order                                         *)

(* A record is never before itself, and of two either one comes first or   *)
(* both have the same time and number.                                     *)
LEMMA BeforeFact ==
  /\ \A a, b \in Records : Before(a, b) => ~Before(b, a)
  /\ \A a, b, c \in Records : Before(a, b) /\ ~Before(c, b) => Before(a, c)
  /\ \A a, b, c \in Records : ~Before(b, a) /\ ~Before(c, b) => ~Before(c, a)
<1>1. \A r \in Records : r.ts \in Int /\ r.seq \in Int
  <2>1. ASSUME NEW r \in Records PROVE r.ts \in Int /\ r.seq \in Int
    <3>1. r.ts \in 1..MaxTime /\ r.seq \in Nat
      BY DEF Records, Times
    <3> QED BY <3>1
  <2> QED BY <2>1
<1> QED BY <1>1 DEF Before

(* Places of a buffer, the ones with equal samples by their number.        *)
NotAfter(buf, i, j) == Before(buf[i], buf[j]) \/ (~Before(buf[j], buf[i]) /\ i <= j)

UpToPlace(buf, j) == {i \in DOMAIN buf : NotAfter(buf, i, j)}

(* The places of a buffer are in a line.                                   *)
LEMMA NotAfterFact ==
  ASSUME NEW buf \in Seq(Records)
  PROVE  /\ \A i, j \in DOMAIN buf : NotAfter(buf, i, j) \/ NotAfter(buf, j, i)
         /\ \A i, j \in DOMAIN buf : NotAfter(buf, i, j) /\ NotAfter(buf, j, i) => i = j
         /\ \A i, j, k \in DOMAIN buf :
                NotAfter(buf, i, j) /\ NotAfter(buf, j, k) => NotAfter(buf, i, k)
<1>1. \A i \in DOMAIN buf : i \in Int /\ buf[i] \in Records
  OBVIOUS
<1>2. ASSUME NEW i \in DOMAIN buf, NEW j \in DOMAIN buf
      PROVE  /\ NotAfter(buf, i, j) \/ NotAfter(buf, j, i)
             /\ NotAfter(buf, i, j) /\ NotAfter(buf, j, i) => i = j
  BY <1>1, BeforeFact DEF NotAfter
<1>3. ASSUME NEW i \in DOMAIN buf, NEW j \in DOMAIN buf, NEW k \in DOMAIN buf,
             NotAfter(buf, i, j), NotAfter(buf, j, k)
      PROVE  NotAfter(buf, i, k)
  <2>1. /\ i \in Int /\ j \in Int /\ k \in Int
        /\ buf[i] \in Records /\ buf[j] \in Records /\ buf[k] \in Records
    BY <1>1
  <2>2. CASE Before(buf[i], buf[j])
    <3>1. ~Before(buf[k], buf[j])
      BY <1>3, <2>1, BeforeFact DEF NotAfter
    <3>2. Before(buf[i], buf[k])
      BY <2>1, <2>2, <3>1, BeforeFact
    <3> QED BY <3>2 DEF NotAfter
  <2>3. CASE ~Before(buf[j], buf[i]) /\ i <= j /\ Before(buf[j], buf[k])
    <3>1. ~Before(buf[k], buf[i])
      BY <2>1, <2>3, BeforeFact
    <3>2. ~ (~Before(buf[i], buf[k]) /\ ~Before(buf[j], buf[i]) /\ Before(buf[j], buf[k]))
      BY <2>1, BeforeFact
    <3> QED BY <2>3, <3>2 DEF NotAfter
  <2>4. CASE ~Before(buf[j], buf[i]) /\ i <= j /\ ~Before(buf[k], buf[j]) /\ j <= k
    <3>1. ~Before(buf[k], buf[i]) /\ i <= k
      BY <2>1, <2>4, BeforeFact
    <3> QED BY <3>1 DEF NotAfter
  <2> QED BY <1>3, <2>2, <2>3, <2>4 DEF NotAfter
<1> QED BY <1>2, <1>3

(* There is an order of the places such as Sorting chooses: the one by the *)
(* number of places up to each.                                            *)
LEMMA SortingExists ==
  ASSUME NEW buf \in Seq(Records)
  PROVE  /\ Sorting(buf) \in [DOMAIN buf -> DOMAIN buf]
         /\ \A k \in DOMAIN buf : \E i \in DOMAIN buf : Sorting(buf)[i] = k
         /\ \A i, j \in DOMAIN buf :
                i < j => ~Before(buf[Sorting(buf)[j]], buf[Sorting(buf)[i]])
<1> DEFINE D == DOMAIN buf
           rank == [j \in D |-> Cardinality(UpToPlace(buf, j))]
           Good(p) == /\ p \in [D -> D]
                      /\ \A k \in D : \E i \in D : p[i] = k
                      /\ \A i, j \in D : i < j => ~Before(buf[p[j]], buf[p[i]])
<1>1. Len(buf) \in Nat /\ D = 1..Len(buf)
  OBVIOUS
<1>2. IsFiniteSet(D) /\ Cardinality(D) = Len(buf)
  BY <1>1, FS_Interval
<1>3. ASSUME NEW j \in D
      PROVE  /\ j \in UpToPlace(buf, j) /\ IsFiniteSet(UpToPlace(buf, j))
             /\ Cardinality(UpToPlace(buf, j)) \in D
  <2>1. j \in UpToPlace(buf, j)
    BY NotAfterFact DEF UpToPlace
  <2>2. UpToPlace(buf, j) \in SUBSET D
    BY DEF UpToPlace
  <2>3. /\ IsFiniteSet(UpToPlace(buf, j))
        /\ Cardinality(UpToPlace(buf, j)) <= Len(buf)
    BY <1>2, <2>2, FS_Subset
  <2>4. Cardinality(UpToPlace(buf, j)) \in Nat
    BY <2>3, FS_CardinalityType
  <2>5. Cardinality(UpToPlace(buf, j)) # 0
    BY <2>1, <2>3, FS_EmptySet
  <2> QED BY <1>1, <2>1, <2>3, <2>4, <2>5
<1>4. rank \in [D -> D]
  BY <1>3
<1>5. ASSUME NEW i \in D, NEW j \in D, NotAfter(buf, i, j), i # j PROVE rank[i] < rank[j]
  <2>1. UpToPlace(buf, i) \in SUBSET UpToPlace(buf, j)
    BY <1>5, NotAfterFact DEF UpToPlace
  <2>2. j \notin UpToPlace(buf, i)
    BY <1>5, NotAfterFact DEF UpToPlace
  <2>3. UpToPlace(buf, i) # UpToPlace(buf, j)
    BY <1>3, <2>2
  <2>4. /\ Cardinality(UpToPlace(buf, i)) <= Cardinality(UpToPlace(buf, j))
        /\ Cardinality(UpToPlace(buf, i)) # Cardinality(UpToPlace(buf, j))
    BY <1>3, <2>1, <2>3, FS_Subset
  <2>5. /\ Cardinality(UpToPlace(buf, i)) \in Int
        /\ Cardinality(UpToPlace(buf, j)) \in Int
    BY <1>1, <1>3
  <2> QED BY <2>4, <2>5
<1> HIDE DEF rank
<1>6. \A i, j \in D : rank[i] = rank[j] => i = j
  <2>1. \A i \in D : rank[i] \in Int
    BY <1>1, <1>4
  <2> QED BY <1>5, <2>1, NotAfterFact
<1>7. rank \in Injection(D, D)
  BY <1>4, <1>6 DEF Injection, IsInjective
<1>8. rank \in Surjection(D, D)
  BY <1>2, <1>7, FS_Injection
<1>9. \A k \in D : \E j \in D : rank[j] = k
  BY <1>8 DEF Surjection
<1> DEFINE p == [k \in D |-> CHOOSE j \in D : rank[j] = k]
<1>10. \A k \in D : p[k] \in D /\ rank[p[k]] = k
  BY <1>9
<1>11. p \in [D -> D]
  BY <1>10
<1> HIDE DEF p
<1>12. \A k \in D : \E i \in D : p[i] = k
  BY <1>4, <1>6, <1>10
<1>13. ASSUME NEW i \in D, NEW j \in D, i < j, Before(buf[p[j]], buf[p[i]]) PROVE FALSE
  <2>1. p[i] \in D /\ p[j] \in D /\ rank[p[i]] = i /\ rank[p[j]] = j
    BY <1>10
  <2>2. NotAfter(buf, p[j], p[i])
    BY <1>13 DEF NotAfter
  <2>3. p[j] # p[i]
    BY <1>1, <1>13, <2>1
  <2>4. j < i
    BY <1>5, <2>1, <2>2, <2>3
  <2> QED BY <1>1, <1>13, <2>4
<1>14. Good(p)
  BY <1>11, <1>12, <1>13
<1>15. Sorting(buf) = CHOOSE q : Good(q)
  BY DEF Sorting
<1> HIDE DEF Good
<1>16. Good(Sorting(buf))
  BY <1>14, <1>15
<1> QED BY <1>16 DEF Good

(* Oldest finds a sample that no other comes before.                       *)
LEMMA OldestFact ==
  ASSUME NEW buf \in Seq(Records), Len(buf) > 0
  PROVE  /\ Oldest(buf) \in DOMAIN buf
         /\ \A j \in DOMAIN buf : ~Before(buf[j], buf[Oldest(buf)])
<1> DEFINE D == DOMAIN buf
           T == {i \in D : \A j \in D : ~Before(buf[j], buf[i])}
<1>1. D \in SUBSET Nat /\ 1 \in D /\ \A i \in D : buf[i] \in Records
  OBVIOUS
<1>2. Sorting(buf)[1] \in T
  <2>1. Sorting(buf)[1] \in D
    BY <1>1, SortingExists
  <2>2. ASSUME NEW j \in D PROVE ~Before(buf[j], buf[Sorting(buf)[1]])
    <3>1. PICK k \in D : Sorting(buf)[k] = j
      BY SortingExists
    <3>2. CASE k = 1
      BY <1>1, <2>1, <3>1, <3>2, BeforeFact
    <3>3. CASE k # 1
      <4>1. 1 < k
        BY <3>3
      <4> QED BY <1>1, <3>1, <4>1, SortingExists
    <3> QED BY <3>2, <3>3
  <2> QED BY <2>1, <2>2
<1>3. PICK m \in T : \A k \in T : m <= k
  <2>1. T \in SUBSET Nat /\ T # {}
    BY <1>1, <1>2
  <2> QED BY <2>1, LeastNumber
<1>4. m \in D /\ \A j \in D : ~Before(buf[j], buf[m])
  OBVIOUS
<1>5. \A j \in 1..(m - 1) : Before(buf[m], buf[j])
  <2> SUFFICES ASSUME NEW j \in 1..(m - 1), ~Before(buf[m], buf[j]) PROVE FALSE
    OBVIOUS
  <2>1. j \in D /\ j < m
    BY <1>4
  <2>2. \A k \in D : ~Before(buf[k], buf[j])
    BY <1>1, <1>4, <2>1, BeforeFact
  <2> QED BY <1>1, <1>3, <2>1, <2>2
<1> DEFINE Good(i) == /\ \A j \in D : ~Before(buf[j], buf[i])
                      /\ \A j \in 1..(i - 1) : Before(buf[i], buf[j])
<1>6. m \in D /\ Good(m)
  BY <1>4, <1>5
<1>7. Oldest(buf) = CHOOSE i \in D : Good(i)
  BY DEF Oldest
<1>8. Oldest(buf) \in D /\ Good(Oldest(buf))
  <2> HIDE DEF Good, D
  <2> QED BY <1>6, <1>7
<1> QED BY <1>8

-----------------------------------------------------------------------------
(* The pass over the flash                                                 *)

(* The slots of the pass that the query asks for, among the first n.       *)
Asked(start, end, n) == {k \in 0..(n - 1) : InRange(k, start, end)}

(* The buffer holds sample x, or is full of samples that are not older.    *)
Covers(buf, x, cap) ==
    \/ \E i \in DOMAIN buf : buf[i] = x
    \/ Len(buf) = cap /\ \A i \in DOMAIN buf : ~Before(buf[i], x)

(* What the buffer is after n slots: as many samples as fit, and each of   *)
(* those asked for is in it, or it is full and none in it is older.        *)
HoldsNewest(buf, start, end, cap, n) ==
    /\ buf \in Seq(Records)
    /\ Len(buf) = IF Cardinality(Asked(start, end, n)) < cap
                  THEN Cardinality(Asked(start, end, n)) ELSE cap
    /\ \A k \in Asked(start, end, n) : Covers(buf, SlotAt(k), cap)

(* A slot of the pass lies in a sector.                                    *)
LEMMA SlotAtFact ==
  ASSUME TelemetryTypeOK, NEW n \in 0..(Sectors * Most - 1), NEW start \in Int, NEW end \in Int,
         InRange(n, start, end)
  PROVE  SlotAt(n) \in Records
<1>1. Sectors \in Nat /\ Most \in Nat /\ Most >= 1
  BY RingFacts
<1>2. Sectors * Most \in Nat
  BY <1>1
<1>3. n \in Nat /\ n < Sectors * Most
  BY <1>2
<1> DEFINE q == n \div Most
<1>4. q \in Nat /\ q * Most <= n
  BY <1>1, <1>3
<1>5. Sectors <= q => Sectors * Most <= q * Most
  BY <1>1, <1>4
<1>6. q < Sectors
  <2>1. q * Most \in Nat
    BY <1>1, <1>4
  <2> HIDE DEF q
  <2> QED BY <1>1, <1>2, <1>3, <1>4, <1>5, <2>1
<1>7. q \in Ring
  <2> HIDE DEF q
  <2> QED BY <1>1, <1>4, <1>6 DEF Ring
<1>8. SlotAt(n) \in Samples(q)
  BY DEF InRange
<1> HIDE DEF q
<1> QED BY <1>7, <1>8, SamplesFact

(* One sample more for the buffer.                                         *)
LEMMA CollectFact ==
  ASSUME NEW buf \in Seq(Records), NEW r \in Records, NEW cap \in Nat, cap >= 1,
         Len(buf) <= cap
  PROVE  /\ Collect(buf, r, cap) \in Seq(Records)
         /\ Len(Collect(buf, r, cap)) = IF Len(buf) < cap THEN Len(buf) + 1 ELSE cap
         /\ Covers(Collect(buf, r, cap), r, cap)
         /\ \A x \in Records : Covers(buf, x, cap) => Covers(Collect(buf, r, cap), x, cap)
<1>1. CASE Len(buf) < cap
  <2> DEFINE new == Append(buf, r)
  <2>1. Collect(buf, r, cap) = new
    BY <1>1 DEF Collect
  <2>2. /\ new \in Seq(Records) /\ Len(new) = Len(buf) + 1 /\ DOMAIN new = 1..(Len(buf) + 1)
        /\ new[Len(buf) + 1] = r /\ \A i \in DOMAIN buf : i \in DOMAIN new /\ new[i] = buf[i]
        /\ Len(buf) + 1 \in DOMAIN new
    OBVIOUS
  <2> HIDE DEF new
  <2>3. Covers(new, r, cap)
    BY <2>2 DEF Covers
  <2>4. ASSUME NEW x \in Records, Covers(buf, x, cap) PROVE Covers(new, x, cap)
    <3>1. PICK i \in DOMAIN buf : buf[i] = x
      BY <1>1, <2>4 DEF Covers
    <3> QED BY <2>2, <3>1 DEF Covers
  <2> QED BY <1>1, <2>1, <2>2, <2>3, <2>4
<1>2. CASE ~(Len(buf) < cap)
  <2> DEFINE o == Oldest(buf)
  <2>1. Len(buf) = cap /\ Len(buf) > 0
    BY <1>2
  <2>2. o \in DOMAIN buf /\ \A j \in DOMAIN buf : ~Before(buf[j], buf[o])
    BY <2>1, OldestFact
  <2>3. \A j \in DOMAIN buf : buf[j] \in Records
    OBVIOUS
  <2>4. CASE Before(buf[o], r)
    <3> DEFINE new == [buf EXCEPT ![o] = r]
    <3>1. Collect(buf, r, cap) = new
      BY <1>2, <2>4 DEF Collect
    <3> HIDE DEF o
    <3>2. /\ new \in Seq(Records) /\ Len(new) = Len(buf) /\ DOMAIN new = DOMAIN buf
          /\ new[o] = r /\ \A i \in DOMAIN buf : i # o => new[i] = buf[i]
      BY <2>2
    <3> HIDE DEF new
    <3>3. Covers(new, r, cap)
      BY <2>2, <3>2 DEF Covers
    <3>4. ASSUME NEW x \in Records, Covers(buf, x, cap) PROVE Covers(new, x, cap)
      <4>1. CASE \E i \in DOMAIN buf : buf[i] = x /\ i # o
        BY <3>2, <4>1 DEF Covers
      <4>2. CASE x = buf[o] \/ \A i \in DOMAIN buf : ~Before(buf[i], x)
        <5>1. \A i \in DOMAIN buf : ~Before(buf[i], x)
          BY <2>2, <4>2
        <5>2. ~Before(r, x)
          BY <2>2, <2>3, <2>4, <5>1, BeforeFact
        <5>3. \A i \in DOMAIN new : ~Before(new[i], x)
          BY <3>2, <5>1, <5>2
        <5> QED BY <2>1, <3>2, <5>3 DEF Covers
      <4> QED BY <3>4, <4>1, <4>2 DEF Covers
    <3> QED BY <1>2, <3>1, <3>2, <3>3, <3>4, <2>1
  <2>5. CASE ~Before(buf[o], r)
    <3>1. Collect(buf, r, cap) = buf
      BY <1>2, <2>5 DEF Collect
    <3> HIDE DEF o
    <3>2. \A i \in DOMAIN buf : ~Before(buf[i], r)
      BY <2>2, <2>3, <2>5, BeforeFact
    <3>3. Covers(buf, r, cap)
      BY <2>1, <3>2 DEF Covers
    <3> QED BY <1>2, <2>1, <3>1, <3>3
  <2> QED BY <2>4, <2>5
<1> QED BY <1>1, <1>2

(* The pass, step by step.                                                 *)
PassStep(buf, n, start, end, cap) ==
    IF InRange(n, start, end) THEN Collect(buf, SlotAt(n), cap) ELSE buf

(* The number of slots of the ring.                                        *)
SlotCount == Sectors * Most

LEMMA SlotCountType == SlotCount \in Nat
BY RingFacts DEF SlotCount

(* The pass is well defined.                                               *)
LEMMA PassUnfolds ==
  ASSUME TelemetryTypeOK, NEW start \in Int, NEW end \in Int, NEW cap \in Nat, cap >= 1
  PROVE  \E f \in [0..SlotCount -> Seq(Records)] :
           /\ f[0] = <<>>
           /\ \A n \in 1..SlotCount : f[n] = PassStep(f[n - 1], n - 1, start, end, cap)
           /\ Collected(start, end, cap) = f[SlotCount]
<1> DEFINE Buffers == {b \in Seq(Records) : Len(b) <= cap}
           h == [x \in Buffers \X (1..SlotCount) |-> PassStep(x[1], x[2] - 1, start, end, cap)]
           Step(b, n) == PassStep(b, n - 1, start, end, cap)
           E(f) == [n \in 0..SlotCount |-> IF n = 0 THEN <<>> ELSE Step(f[n - 1], n)]
<1> SlotCount \in Nat
  BY SlotCountType
<1>1. \A n \in 1..SlotCount : n - 1 \in 0..(SlotCount - 1) /\ n - 1 \in 0..SlotCount /\ n \in 0..SlotCount /\ n # 0
  OBVIOUS
<1>2. <<>> \in Buffers
  OBVIOUS
<1>3. ASSUME NEW b \in Buffers, NEW n \in 1..SlotCount PROVE Step(b, n) \in Buffers
  <2>1. CASE InRange(n - 1, start, end)
    <3>1. SlotAt(n - 1) \in Records
      BY <1>1, <2>1, SlotAtFact DEF SlotCount
    <3>2. /\ Collect(b, SlotAt(n - 1), cap) \in Seq(Records)
          /\ Len(Collect(b, SlotAt(n - 1), cap)) = IF Len(b) < cap THEN Len(b) + 1 ELSE cap
      BY <3>1, CollectFact
    <3>3. Len(b) \in Nat
      OBVIOUS
    <3> QED BY <2>1, <3>2, <3>3 DEF PassStep
  <2>2. CASE ~InRange(n - 1, start, end)
    BY <2>2 DEF PassStep
  <2> QED BY <2>1, <2>2
<1>4. \A b \in Buffers, n \in 1..SlotCount : h[<<b, n>>] = Step(b, n)
  OBVIOUS
<1> HIDE DEF Buffers, h, Step
<1>5. \A b \in Buffers, n \in 1..SlotCount : h[<<b, n>>] \in Buffers
  BY <1>3, <1>4
<1>6. PICK f : Computes(f, SlotCount, Buffers, <<>>, h)
  <2>1. StaysIn(SlotCount, Buffers, <<>>, h)
    BY <1>2, <1>5 DEF StaysIn
  <2> QED BY <2>1, Recursion
<1>7. /\ f \in [0..SlotCount -> Buffers] /\ f[0] = <<>>
      /\ \A n \in 1..SlotCount : f[n] = h[<<f[n - 1], n>>]
  BY <1>6 DEF Computes
<1>8. \A n \in 1..SlotCount : f[n] = Step(f[n - 1], n)
  <2> SUFFICES ASSUME NEW n \in 1..SlotCount PROVE f[n] = Step(f[n - 1], n)
    OBVIOUS
  <2>1. f[n - 1] \in Buffers
    BY <1>1, <1>7
  <2> QED BY <1>4, <1>7, <2>1
<1>9. f = E(f)
  <2>1. \A n \in 0..SlotCount : n # 0 => n \in 1..SlotCount
    OBVIOUS
  <2>2. \A n \in 0..SlotCount : f[n] = IF n = 0 THEN <<>> ELSE Step(f[n - 1], n)
    BY <1>7, <1>8, <2>1
  <2> QED BY <1>7, <2>2
<1> DEFINE g == CHOOSE e : e = E(e)
<1>10. Collected(start, end, cap) = g[SlotCount]
  BY DEF Collected, PassStep, Step, SlotCount
<1> HIDE DEF E
<1>11. g = E(g)
  BY <1>9
<1> HIDE DEF g
<1>12. g[0] = <<>> /\ \A n \in 1..SlotCount : g[n] = Step(g[n - 1], n)
  <2>1. \A n \in 0..SlotCount : E(g)[n] = IF n = 0 THEN <<>> ELSE Step(g[n - 1], n)
    BY DEF E
  <2>2. 0 \in 0..SlotCount
    OBVIOUS
  <2> QED BY <1>1, <1>11, <2>1, <2>2
<1> DEFINE S == {n \in 0..SlotCount : g[n] \in Buffers}
<1>13. 0 \in S
  BY <1>2, <1>12
<1>14. ASSUME NEW n \in 0..SlotCount, n < SlotCount, n \in S PROVE (n + 1) \in S
  <2>1. n + 1 \in 1..SlotCount /\ (n + 1) - 1 = n /\ n + 1 \in 0..SlotCount
    BY <1>14
  <2>2. g[n + 1] = Step(g[n], n + 1)
    BY <1>12, <2>1
  <2> QED BY <1>3, <1>14, <2>1, <2>2
<1> HIDE DEF S
<1>15. 0..SlotCount \subseteq S
  BY <1>13, <1>14, UpTo
<1>16. \A n \in 0..SlotCount : g[n] \in Seq(Records)
  BY <1>15 DEF S, Buffers
<1>17. g = [n \in 0..SlotCount |-> g[n]]
  BY <1>11 DEF E
<1>18. g \in [0..SlotCount -> Seq(Records)]
  BY <1>16, <1>17
<1> QED BY <1>10, <1>12, <1>18 DEF Step

(* Whatever it is asked for, the pass ends with the newest samples.        *)
LEMMA CollectedHoldsNewest ==
  ASSUME TelemetryTypeOK, NEW start \in Int, NEW end \in Int, NEW cap \in Nat, cap >= 1
  PROVE  HoldsNewest(Collected(start, end, cap), start, end, cap, Sectors * Most)
<1> SlotCount \in Nat
  BY SlotCountType
<1>1. PICK f \in [0..SlotCount -> Seq(Records)] :
           /\ f[0] = <<>>
           /\ \A n \in 1..SlotCount : f[n] = PassStep(f[n - 1], n - 1, start, end, cap)
           /\ Collected(start, end, cap) = f[SlotCount]
  BY PassUnfolds
<1> DEFINE A(n) == Asked(start, end, n)
           S == {n \in 0..SlotCount : IsFiniteSet(A(n)) /\ HoldsNewest(f[n], start, end, cap, n)}
<1>2. 0 \in S
  <2>1. A(0) = {} /\ IsFiniteSet({}) /\ Cardinality({}) = 0
    BY FS_EmptySet DEF Asked
  <2>2. f[0] \in Seq(Records) /\ Len(f[0]) = 0
    BY <1>1
  <2>3. HoldsNewest(f[0], start, end, cap, 0)
    <3>1. \A k \in Asked(start, end, 0) : Covers(f[0], SlotAt(k), cap)
      BY <2>1
    <3>2. Cardinality(Asked(start, end, 0)) = 0
      BY <2>1
    <3> QED BY <2>2, <3>1, <3>2 DEF HoldsNewest
  <2>4. 0 \in 0..SlotCount
    OBVIOUS
  <2>5. IsFiniteSet(A(0))
    BY <2>1, Zenon
  <2> QED BY <2>3, <2>4, <2>5
<1>3. ASSUME NEW n \in 0..SlotCount, n < SlotCount, n \in S PROVE (n + 1) \in S
  <2>1. /\ n + 1 \in 1..SlotCount /\ (n + 1) - 1 = n /\ n + 1 \in 0..SlotCount
        /\ n \in 0..(SlotCount - 1) /\ n \in Nat
    BY <1>3
  <2>2. f[n + 1] = PassStep(f[n], n, start, end, cap)
    BY <1>1, <2>1
  <2>3. IsFiniteSet(A(n)) /\ HoldsNewest(f[n], start, end, cap, n)
    BY <1>3
  <2>4. Cardinality(A(n)) \in Nat
    BY <2>3, FS_CardinalityType
  <2>5. \A k : k \in 0..n <=> k \in 0..(n - 1) \/ k = n
    BY <2>1
  <2>6. f[n] \in Seq(Records) /\ Len(f[n]) \in Nat /\ Len(f[n]) <= cap
    BY <2>3, <2>4 DEF HoldsNewest
  <2>7. \A k \in A(n) : SlotAt(k) \in Records
    <3>1. \A k \in 0..(n - 1) : k \in 0..(Sectors * Most - 1)
      BY <2>1 DEF SlotCount
    <3> QED BY <3>1, SlotAtFact DEF Asked
  <2>8. CASE InRange(n, start, end)
    <3>1. A(n + 1) = A(n) \union {n} /\ n \notin A(n)
      BY <2>1, <2>5, <2>8 DEF Asked
    <3>2. IsFiniteSet(A(n + 1)) /\ Cardinality(A(n + 1)) = Cardinality(A(n)) + 1
      BY <2>3, <3>1, FS_AddElement
    <3>3. SlotAt(n) \in Records
      BY <2>1, <2>8, SlotAtFact DEF SlotCount
    <3>4. f[n + 1] = Collect(f[n], SlotAt(n), cap)
      BY <2>2, <2>8 DEF PassStep
    <3>5. /\ f[n + 1] \in Seq(Records)
          /\ Len(f[n + 1]) = IF Len(f[n]) < cap THEN Len(f[n]) + 1 ELSE cap
          /\ Covers(f[n + 1], SlotAt(n), cap)
          /\ \A x \in Records : Covers(f[n], x, cap) => Covers(f[n + 1], x, cap)
      BY <2>6, <3>3, <3>4, CollectFact
    <3>6. \A k \in A(n + 1) : Covers(f[n + 1], SlotAt(k), cap)
      BY <2>3, <2>7, <3>1, <3>5 DEF HoldsNewest
    <3>7. Len(f[n + 1]) = IF Cardinality(A(n + 1)) < cap THEN Cardinality(A(n + 1)) ELSE cap
      BY <2>3, <2>4, <3>2, <3>5 DEF HoldsNewest
    <3> QED BY <2>1, <3>2, <3>5, <3>6, <3>7 DEF HoldsNewest
  <2>9. CASE ~InRange(n, start, end)
    <3>1. A(n + 1) = A(n)
      BY <2>1, <2>5, <2>9 DEF Asked
    <3>2. f[n + 1] = f[n]
      BY <2>2, <2>9 DEF PassStep
    <3> QED BY <2>1, <2>3, <3>1, <3>2 DEF HoldsNewest
  <2> QED BY <2>8, <2>9
<1> HIDE DEF S
<1>4. 0..SlotCount \subseteq S
  BY <1>2, <1>3, UpTo
<1>5. SlotCount \in S
  BY <1>4
<1> QED BY <1>1, <1>5 DEF S, SlotCount

(* Sorting puts the samples of a buffer in order and keeps all of them.    *)
LEMMA SortedFact ==
  ASSUME NEW buf \in Seq(Records)
  PROVE  /\ DOMAIN Sorted(buf) = DOMAIN buf /\ Len(Sorted(buf)) = Len(buf)
         /\ \A i \in DOMAIN buf : \E k \in DOMAIN buf : Sorted(buf)[i] = buf[k]
         /\ \A k \in DOMAIN buf : \E i \in DOMAIN buf : Sorted(buf)[i] = buf[k]
         /\ \A i, j \in DOMAIN buf : i < j => ~Before(Sorted(buf)[j], Sorted(buf)[i])
<1>1. /\ Sorting(buf) \in [DOMAIN buf -> DOMAIN buf]
      /\ \A k \in DOMAIN buf : \E i \in DOMAIN buf : Sorting(buf)[i] = k
      /\ \A i, j \in DOMAIN buf :
                i < j => ~Before(buf[Sorting(buf)[j]], buf[Sorting(buf)[i]])
  BY SortingExists
<1>2. DOMAIN buf = 1..Len(buf) /\ Len(buf) \in Nat
  OBVIOUS
<1>3. DOMAIN Sorted(buf) = DOMAIN buf
  BY DEF Sorted
<1>4. \A i \in DOMAIN buf : Sorted(buf)[i] = buf[Sorting(buf)[i]]
  BY DEF Sorted
<1>5. Len(Sorted(buf)) = Len(buf)
  <2>1. Sorted(buf) \in [1..Len(buf) -> Records]
    <3>1. \A i \in DOMAIN buf : buf[i] \in Records
      OBVIOUS
    <3> QED BY <1>1, <1>2, <3>1 DEF Sorted
  <2> QED BY <1>2, <2>1
<1>6. \A i \in DOMAIN buf : \E k \in DOMAIN buf : Sorted(buf)[i] = buf[k]
  BY <1>1, <1>4
<1>7. \A k \in DOMAIN buf : \E i \in DOMAIN buf : Sorted(buf)[i] = buf[k]
  <2> SUFFICES ASSUME NEW k \in DOMAIN buf PROVE \E i \in DOMAIN buf : Sorted(buf)[i] = buf[k]
    OBVIOUS
  <2>1. PICK i \in DOMAIN buf : Sorting(buf)[i] = k
    BY <1>1
  <2>2. Sorted(buf)[i] = buf[k]
    BY <1>4, <2>1
  <2> QED BY <2>2
<1>8. \A i, j \in DOMAIN buf : i < j => ~Before(Sorted(buf)[j], Sorted(buf)[i])
  <2> SUFFICES ASSUME NEW i \in DOMAIN buf, NEW j \in DOMAIN buf, i < j
               PROVE  ~Before(Sorted(buf)[j], Sorted(buf)[i])
    OBVIOUS
  <2>1. ~Before(buf[Sorting(buf)[j]], buf[Sorting(buf)[i]])
    BY <1>1
  <2> QED BY <1>4, <2>1
<1> QED BY <1>3, <1>5, <1>6, <1>7, <1>8

(* Whatever a query asks for and however small the buffer: it returns, in  *)
(* order of time, the newest samples of the range.                         *)
THEOREM QueryNewestAlways == TelemetrySpec => []QueryNewest
<1>1. ASSUME TelemetryTypeOK PROVE QueryNewest
  <2> SUFFICES ASSUME NEW start \in 0..MaxTime, NEW end \in 1..(MaxTime + 1),
                      NEW cap \in 1..MaxCapacity
               PROVE  LET got == Query(start, end, cap)
                          all == {n \in 0..(Sectors * Most - 1) : InRange(n, start, end)}
                      IN /\ Len(got) = IF Cardinality(all) < cap THEN Cardinality(all) ELSE cap
                         /\ \A i \in 1..(Len(got) - 1) : ~Before(got[i + 1], got[i])
                         /\ \A n \in all :
                              \/ SlotAt(n) \in {got[i] : i \in DOMAIN got}
                              \/ ~Before(got[1], SlotAt(n))
    BY DEF QueryNewest
  <2> DEFINE buf == Collected(start, end, cap)
             got == Query(start, end, cap)
             all == {n \in 0..(Sectors * Most - 1) : InRange(n, start, end)}
  <2>1. cap \in Nat /\ cap >= 1
    BY CapacityAssumption
  <2>2. HoldsNewest(buf, start, end, cap, Sectors * Most)
    BY <1>1, <2>1, CollectedHoldsNewest
  <2>3. /\ buf \in Seq(Records)
        /\ Len(buf) = IF Cardinality(all) < cap THEN Cardinality(all) ELSE cap
        /\ \A n \in all : Covers(buf, SlotAt(n), cap)
    BY <2>2 DEF HoldsNewest, Asked
  <2>4. /\ DOMAIN got = DOMAIN buf /\ Len(got) = Len(buf)
        /\ \A i \in DOMAIN buf : \E k \in DOMAIN buf : got[i] = buf[k]
        /\ \A k \in DOMAIN buf : \E i \in DOMAIN buf : got[i] = buf[k]
        /\ \A i, j \in DOMAIN buf : i < j => ~Before(got[j], got[i])
    BY <2>3, SortedFact DEF Query
  <2>5. DOMAIN buf = 1..Len(buf) /\ Len(buf) \in Nat
    BY <2>3
  <2> HIDE DEF buf, got, all
  <2>6. ASSUME NEW i \in 1..(Len(got) - 1) PROVE ~Before(got[i + 1], got[i])
    <3>1. i \in 1..(Len(buf) - 1)
      BY <2>4
    <3>2. i \in 1..Len(buf) /\ i + 1 \in 1..Len(buf) /\ i < i + 1
      BY <2>5, <3>1
    <3>3. i \in DOMAIN buf /\ i + 1 \in DOMAIN buf /\ i < i + 1
      BY <2>5, <3>2
    <3> QED BY <2>4, <3>3
  <2>7. ASSUME NEW n \in all
        PROVE  SlotAt(n) \in {got[i] : i \in DOMAIN got} \/ ~Before(got[1], SlotAt(n))
    <3>1. CASE \E k \in DOMAIN buf : buf[k] = SlotAt(n)
      BY <2>4, <3>1
    <3>2. CASE Len(buf) = cap /\ \A k \in DOMAIN buf : ~Before(buf[k], SlotAt(n))
      <4>1. 1 \in DOMAIN buf
        BY <2>1, <2>5, <3>2
      <4> QED BY <2>4, <3>2, <4>1
    <3> QED BY <2>3, <3>1, <3>2 DEF Covers
  <2>8. Len(got) = IF Cardinality(all) < cap THEN Cardinality(all) ELSE cap
    BY <2>3, <2>4
  <2> QED BY <2>6, <2>7, <2>8 DEF got, all
<1>2. RingInv => TelemetryTypeOK
  BY DEF RingInv
<1> QED BY <1>1, <1>2, RingInvAlways, PTL
=============================================================================
