------------------------- MODULE EventJournalProofs -------------------------
(***************************************************************************)
(* Proofs about the event journal, for every ring size, bank size, number  *)
(* of failing flash operations and loss of power at any moment: the        *)
(* program appends to the bank the next boot will choose, the flash keeps  *)
(* what was acknowledged and never forgets what the program still reports, *)
(* and without failures ring and journal are the durable log of DurableLog.*)
(*                                                                         *)
(* The argument is the invariant JournalInv: the ring holds different ids  *)
(* below the next one (RamInv); banks are filled from their first slot on  *)
(* and the bank in use is in order while tail = "whole" (SlotInv); the     *)
(* replacement bank holds the part of the ring copied so far (CopyInv);    *)
(* the log on flash ends with the log in memory while the bank has room    *)
(* (SuffixInv); and until a flash operation fails the two agree between    *)
(* operations (SoundInv).  What replaying a bank yields is proved by       *)
(* induction over its slots.                                               *)
(***************************************************************************)
EXTENDS EventJournal, WellFoundedInduction, TLAPS

(* A flash operation that stops half-way leaves the headers alone, or      *)
(* wipes the header of the bank being rewritten, or writes its generation  *)
(* (header step), or its commit word (commit step).                        *)
LEMMA PartialHeaders ==
    ASSUME NEW f \in PartialFlash
    PROVE  \/ f[1] = hdr
           \/ pc = "erase" /\ f[1] = [hdr EXCEPT ![Target] = NoHeader]
           \/ pc = "header" /\ f[1] = [hdr EXCEPT ![Target].gen = gen + 1]
           \/ pc = "commit" /\ f[1] = [hdr EXCEPT ![Target].committed = TRUE]
<1>1. CASE Appending
    BY <1>1 DEF PartialFlash, Appending
<1>2. CASE ~Appending /\ pc = "erase"
    BY <1>2 DEF PartialFlash
<1>3. CASE ~Appending /\ pc = "copy"
    BY <1>3 DEF PartialFlash
<1>4. CASE ~Appending /\ pc = "header"
    BY <1>4 DEF PartialFlash
<1>5. CASE ~Appending /\ pc = "commit"
    BY <1>5 DEF PartialFlash
<1>6. CASE ~Appending /\ pc \notin {"erase", "copy", "header", "commit"}
    BY <1>6 DEF PartialFlash
<1> QED BY <1>1, <1>2, <1>3, <1>4, <1>5, <1>6

(* An operation that reports an error does not program the commit word.    *)
LEMMA FaultHeaders ==
    ASSUME Fault
    PROVE  \/ hdr' = hdr
           \/ pc = "erase" /\ hdr' = [hdr EXCEPT ![Target] = NoHeader]
           \/ pc = "header" /\ hdr' = [hdr EXCEPT ![Target].gen = gen + 1]
<1>1. PICK f \in FaultFlash : hdr' = f[1]
    BY DEF Fault
<1>2. CASE pc = "commit"
    BY <1>1, <1>2 DEF FaultFlash
<1>3. CASE pc # "commit"
    <2>1. f \in PartialFlash
        BY <1>1, <1>3 DEF FaultFlash
    <2> QED BY <1>1, <1>3, <2>1, PartialHeaders
<1> QED BY <1>2, <1>3

(* A step that leaves the headers and the choice of bank alone, and does   *)
(* not enter a later stage of a bank rewrite, preserves the invariant.     *)
LEMMA BankInvFrame ==
    ASSUME BankInv, UNCHANGED <<hdr, active, gen>>,
           pc # "off", pc' # "off",
           pc' \in {"copy", "header", "commit"} => pc \in {"copy", "header", "commit"},
           pc' = "commit" => pc = "commit"
    PROVE  BankInv'
BY DEF BankInv, HeaderValid, Target

(* A boot that finds a valid bank chooses one that is committed and        *)
(* younger than the other.                                                 *)
LEMMA ChosenIsYoungest ==
    ASSUME BankInv, Chosen # NoBank
    PROVE  /\ Chosen \in Banks /\ HeaderValid(Chosen)
           /\ HeaderValid(1 - Chosen) => hdr[1 - Chosen].gen < hdr[Chosen].gen
<1>1. /\ hdr[0].gen \in Nat /\ hdr[1].gen \in Nat
      /\ hdr[0].committed \in BOOLEAN /\ hdr[1].committed \in BOOLEAN
    BY DEF BankInv, Banks
<1>2. CASE HeaderValid(0) /\ HeaderValid(1)
    <2>1. hdr[0].gen # hdr[1].gen
        BY <1>2 DEF BankInv
    <2>2. CASE hdr[1].gen > hdr[0].gen
        <3>1. Chosen = 1
            BY <1>2, <2>2 DEF Chosen
        <3> QED BY <1>1, <1>2, <2>2, <3>1 DEF Banks
    <2>3. CASE ~(hdr[1].gen > hdr[0].gen)
        <3>1. Chosen = 0
            BY <1>2, <2>3 DEF Chosen
        <3> QED BY <1>1, <1>2, <2>1, <2>3, <3>1 DEF Banks
    <2> QED BY <2>2, <2>3
<1>3. CASE HeaderValid(0) /\ ~HeaderValid(1)
    <2>1. Chosen = 0
        BY <1>3 DEF Chosen
    <2> QED BY <1>3, <2>1 DEF Banks
<1>4. CASE ~HeaderValid(0) /\ HeaderValid(1)
    <2>1. Chosen = 1
        BY <1>4 DEF Chosen
    <2> QED BY <1>4, <2>1 DEF Banks
<1>5. CASE ~HeaderValid(0) /\ ~HeaderValid(1)
    BY <1>5 DEF Chosen
<1> QED BY <1>2, <1>3, <1>4, <1>5

(* A blank partition satisfies the bank invariant.                         *)
LEMMA JournalInitInv == Init => BankInv
BY DEF Init, BankInv, HeaderValid, NoHeader, Banks, NoBank, Target

(* Two failing operations on the bank being rewritten, both harmless.      *)
LEMMA BankInvFault ==
    ASSUME BankInv, Fault, UNCHANGED <<active, gen>>, pc # "off",
           pc' \in {"start", "idle", "erase", "backfill"}
    PROVE  BankInv'
<1>1. CASE hdr' = hdr
    BY <1>1 DEF BankInv, HeaderValid, Target
<1>2. CASE pc = "erase" /\ hdr' = [hdr EXCEPT ![Target] = NoHeader]
    BY <1>2 DEF BankInv, HeaderValid, Target, NoHeader, Banks, NoBank
<1>3. CASE pc = "header" /\ hdr' = [hdr EXCEPT ![Target].gen = gen + 1]
    BY <1>3 DEF BankInv, HeaderValid, Target, Banks, NoBank
<1> QED BY <1>1, <1>2, <1>3, FaultHeaders

(* What writing the commit word does to the headers.                       *)
LEMMA CommitHeaders ==
    ASSUME BankInv, hdr' = [hdr EXCEPT ![Target].committed = TRUE]
    PROVE  /\ Target \in Banks
           /\ hdr' \in [Banks -> [gen : Nat, committed : BOOLEAN]]
           /\ hdr'[Target].committed /\ hdr'[Target].gen = hdr[Target].gen
           /\ \A b \in Banks : b # Target => hdr'[b] = hdr[b]
<1>1. Target \in Banks
    BY DEF BankInv, Target, Banks, NoBank
<1>2. hdr[Target] \in [gen : Nat, committed : BOOLEAN]
    BY <1>1 DEF BankInv
<1>3. [hdr[Target] EXCEPT !.committed = TRUE] \in [gen : Nat, committed : BOOLEAN]
    BY <1>2
<1>4. hdr' = [hdr EXCEPT ![Target] = [hdr[Target] EXCEPT !.committed = TRUE]]
    OBVIOUS
<1>5. hdr' \in [Banks -> [gen : Nat, committed : BOOLEAN]]
    BY <1>1, <1>3, <1>4 DEF BankInv
<1>6. hdr'[Target] = [hdr[Target] EXCEPT !.committed = TRUE]
    BY <1>1, <1>4 DEF BankInv
<1>7. hdr'[Target].committed /\ hdr'[Target].gen = hdr[Target].gen
    BY <1>2, <1>6
<1>8. \A b \in Banks : b # Target => hdr'[b] = hdr[b]
    BY <1>1, <1>4 DEF BankInv
<1> QED BY <1>1, <1>5, <1>7, <1>8

(* Every operation, fault and power cut preserves the bank invariant.      *)
LEMMA JournalNextInv == BankInv /\ [Next]_vars => BankInv'
<1> SUFFICES ASSUME BankInv, [Next]_vars PROVE BankInv'
    OBVIOUS
<1>1. CASE PowerUpEmpty
    BY <1>1 DEF PowerUpEmpty, BankInv, HeaderValid, Target, flash, journal, Chosen, NoBank
<1>2. CASE PowerUpLoad
    <2>1. /\ Chosen \in Banks /\ HeaderValid(Chosen)
          /\ HeaderValid(1 - Chosen) => hdr[1 - Chosen].gen < hdr[Chosen].gen
        BY <1>2, ChosenIsYoungest DEF PowerUpLoad
    <2>2. /\ hdr' = hdr /\ active' = Chosen /\ gen' = hdr[Chosen].gen
          /\ pc' \in {"erase", "start"}
        BY <1>2 DEF PowerUpLoad, flash
    <2> QED BY <2>1, <2>2 DEF BankInv, HeaderValid, Banks, NoBank
<1>3. CASE PowerCut
    <2>1. PICK f \in PartialFlash : hdr' = f[1]
        BY <1>3 DEF PowerCut
    <2>2. active' = NoBank /\ gen' = 0 /\ pc' = "off"
        BY <1>3 DEF PowerCut, RamReset
    <2>3. CASE hdr' = hdr
        BY <2>2, <2>3 DEF BankInv, HeaderValid, Banks, NoBank
    <2>4. CASE hdr' = [hdr EXCEPT ![Target] = NoHeader]
        BY <2>2, <2>4 DEF BankInv, HeaderValid, Banks, NoBank, NoHeader, Target
    <2>5. CASE pc = "header" /\ hdr' = [hdr EXCEPT ![Target].gen = gen + 1]
        BY <2>2, <2>5 DEF BankInv, HeaderValid, Banks, NoBank, Target
    <2>6. CASE pc = "commit" /\ hdr' = [hdr EXCEPT ![Target].committed = TRUE]
        <3>1. CASE active = NoBank
            BY <2>2, <2>6, <3>1, CommitHeaders DEF BankInv, HeaderValid, Banks, NoBank, Target
        <3>2. CASE active = 0
            BY <2>2, <2>6, <3>2, CommitHeaders DEF BankInv, HeaderValid, Banks, NoBank, Target
        <3>3. CASE active = 1
            BY <2>2, <2>6, <3>3, CommitHeaders DEF BankInv, HeaderValid, Banks, NoBank, Target
        <3> QED BY <3>1, <3>2, <3>3 DEF BankInv, Banks
    <2> QED BY <2>1, <2>3, <2>4, <2>5, <2>6, PartialHeaders
<1>4. CASE RecordStart \/ Record
    BY <1>4, BankInvFrame DEF RecordStart, Record, PushEvent, flash, journal
<1>5. CASE ClockSet \/ TimeSynced \/ Clear
    BY <1>5, BankInvFrame DEF ClockSet, TimeSynced, Clear, flash, journal
<1>6. CASE AppendOk \/ AppendNoRoom
    BY <1>6, BankInvFrame DEF AppendOk, AppendNoRoom, flash, journal
<1>7. CASE AppendFails
    BY <1>7, BankInvFault DEF AppendFails, journal
<1>8. CASE BackfillOk \/ BackfillRamOnly \/ BackfillEnd
    BY <1>8, BankInvFrame DEF BackfillOk, BackfillRamOnly, BackfillEnd, StampHead, flash, journal
<1>9. CASE BackfillFails
    BY <1>9, BankInvFault DEF BackfillFails, StampHead
<1>10. CASE EraseBank
    BY <1>10 DEF EraseBank, BankInv, HeaderValid, Target, NoHeader, Banks, NoBank, journal
<1>11. CASE CopyRecord \/ CopyDone
    BY <1>11, BankInvFrame DEF CopyRecord, CopyDone, flash, journal
<1>12. CASE WriteHeader
    BY <1>12 DEF WriteHeader, BankInv, HeaderValid, Target, Banks, NoBank, journal
<1>13. CASE CommitBank
    <2>1. /\ pc = "commit" /\ hdr' = [hdr EXCEPT ![Target].committed = TRUE]
          /\ active' = Target /\ gen' = gen + 1 /\ pc' \in {"idle", "start"}
        BY <1>13 DEF CommitBank
    <2>2. CASE active = NoBank
        BY <2>1, <2>2, CommitHeaders DEF BankInv, HeaderValid, Target, Banks, NoBank
    <2>3. CASE active = 0
        BY <2>1, <2>3, CommitHeaders DEF BankInv, HeaderValid, Target, Banks, NoBank
    <2>4. CASE active = 1
        BY <2>1, <2>4, CommitHeaders DEF BankInv, HeaderValid, Target, Banks, NoBank
    <2> QED BY <2>2, <2>3, <2>4 DEF BankInv, Banks
<1>14. CASE JobFails
    BY <1>14, BankInvFault DEF JobFails, journal
<1>15. CASE UNCHANGED vars
    BY <1>15 DEF vars, BankInv, HeaderValid, Target
<1> QED
    BY <1>1, <1>2, <1>3, <1>4, <1>5, <1>6, <1>7, <1>8, <1>9, <1>10, <1>11, <1>12, <1>13,
       <1>14, <1>15 DEF Next

(* The bank-level invariant holds throughout, with any number of failing   *)
(* flash operations and a loss of power at any moment.                     *)
THEOREM JournalBankInvariant == JournalSpec => []BankInv
BY JournalInitInv, JournalNextInv, PTL DEF JournalSpec

(* While the program runs on a bank, that bank is the one the next boot    *)
(* will choose (history_storage_init), so nothing it appends is invisible. *)
THEOREM JournalActiveBankChosen == JournalSpec => []ActiveBankChosen
<1>1. BankInv => ActiveBankChosen
    BY DEF BankInv, ActiveBankChosen, Chosen, HeaderValid, Banks, NoBank
<1> QED BY <1>1, JournalBankInvariant, PTL

-----------------------------------------------------------------------------
(* Induction over numbers                                                  *)

(* A set of numbers that is not empty has a least element.                 *)
LEMMA LeastNumber ==
  ASSUME NEW T \in SUBSET Nat, T # {}
  PROVE  \E m \in T : \A k \in T : m <= k
<1> DEFINE R == {p \in Nat \X Nat : p[1] < p[2]}
<1>1. IsWellFoundedOn(R, Nat)
  BY NatLessThanWellFounded DEF OpToRel
<1>2. PICK x \in T : \A y \in T : ~ (<<y, x>> \in R)
  <2> HIDE DEF R
  <2> QED BY <1>1, WFMin, Zenon
<1>3. \A y \in T : y < x => <<y, x>> \in R
  OBVIOUS
<1> HIDE DEF R
<1>4. \A y \in T : ~(y < x)
  BY <1>2, <1>3
<1> QED BY <1>4

(* What holds of 0 and passes from each number to the next holds up to N.  *)
LEMMA UpTo ==
  ASSUME NEW N \in Nat, NEW S, 0 \in S,
         \A n \in 0..N : n < N /\ n \in S => (n + 1) \in S
  PROVE  0..N \subseteq S
<1> DEFINE T == {n \in 0..N : n \notin S}
<1> SUFFICES ASSUME T # {} PROVE FALSE
  OBVIOUS
<1>1. T \in SUBSET Nat
  OBVIOUS
<1>2. PICK m \in T : \A k \in T : m <= k
  BY <1>1, LeastNumber
<1>3. m \in Nat /\ m # 0 /\ m <= N /\ m \notin S
  OBVIOUS
<1>4. m - 1 \in 0..N /\ m - 1 < N /\ (m - 1) + 1 = m
  BY <1>3
<1>5. m - 1 \in S
  BY <1>2, <1>4
<1> QED BY <1>3, <1>4, <1>5

(* f[n] is h of f[n - 1] and n; h stays in V.                              *)
Computes(f, N, V, base, h) ==
    /\ f \in [0..N -> V] /\ f[0] = base
    /\ \A n \in 1..N : f[n] = h[<<f[n - 1], n>>]

(* What h computes stays in V.                                             *)
StaysIn(N, V, base, h) == base \in V /\ \A v \in V, n \in 1..N : h[<<v, n>>] \in V

(* A value for each number up to N can be computed from the one before it. *)
LEMMA Recursion ==
  ASSUME NEW N \in Nat, NEW V, NEW base, NEW h, StaysIn(N, V, base, h)
  PROVE  \E f : Computes(f, N, V, base, h)
<1> base \in V /\ \A v \in V, n \in 1..N : h[<<v, n>>] \in V
  BY DEF StaysIn
<1> DEFINE Good(f, m) == f[0] = base /\ \A n \in 1..m : f[n] = h[<<f[n - 1], n>>]
           S == {m \in 0..N : \E f \in [0..m -> V] : Good(f, m)}
<1>1. 0 \in S
  <2> DEFINE g == [i \in 0..0 |-> base]
  <2>1. g \in [0..0 -> V] /\ Good(g, 0)
    OBVIOUS
  <2> HIDE DEF g, Good
  <2> QED BY <2>1
<1>2. ASSUME NEW m \in 0..N, m < N, m \in S PROVE (m + 1) \in S
  <2>1. PICK f \in [0..m -> V] : Good(f, m)
    BY <1>2
  <2> DEFINE g == [i \in 0..(m + 1) |-> IF i = m + 1 THEN h[<<f[m], m + 1>>] ELSE f[i]]
  <2>2. m + 1 \in 1..N /\ f[m] \in V
    BY <1>2
  <2>3. h[<<f[m], m + 1>>] \in V
    BY <2>2
  <2>4. g \in [0..(m + 1) -> V]
    BY <2>3
  <2>5. g[0] = base
    BY <2>1
  <2>6. ASSUME NEW n \in 1..(m + 1) PROVE g[n] = h[<<g[n - 1], n>>]
    <3>1. CASE n = m + 1
      <4>1. n - 1 = m /\ m \in 0..(m + 1) /\ m # m + 1
        BY <3>1
      <4>2. g[n] = h[<<f[m], m + 1>>] /\ g[n - 1] = f[m]
        BY <3>1, <4>1
      <4> QED BY <3>1, <4>2
    <3>2. CASE n # m + 1
      <4>1. n \in 1..m /\ n - 1 \in 0..m
        BY <3>2
      <4>2. g[n] = f[n] /\ g[n - 1] = f[n - 1]
        BY <4>1
      <4> QED BY <4>1, <4>2, <2>1
    <3> QED BY <3>1, <3>2
  <2>7. Good(g, m + 1)
    BY <2>5, <2>6
  <2> HIDE DEF g, Good
  <2> QED BY <2>2, <2>4, <2>7
<1> HIDE DEF S
<1>3. 0..N \subseteq S
  BY <1>1, <1>2, UpTo
<1>4. N \in S
  BY <1>3
<1>5. PICK f \in [0..N -> V] : Good(f, N)
  BY <1>4 DEF S
<1> QED BY <1>5 DEF Computes

Distinct(log) == \A i, j \in DOMAIN log : log[i].id = log[j].id => i = j

Logs(E) == {log \in Seq(E) : Len(log) <= Ring /\ Distinct(log)}

Pushed(log, e) == Append(IF Len(log) < Ring THEN log ELSE Tail(log), e)

Suffix(c, d) ==
    /\ Len(c) <= Len(d)
    /\ \A i \in 1..Len(c) : c[i] = d[Len(d) - Len(c) + i]

(* The sizes of the ring and of a bank.                                    *)
LEMMA RingNat == Ring \in Nat /\ Ring > 0 /\ Slots \in Nat /\ Ring < Slots
BY JournalAssumption

(* The remainder of a number below two moduli.                             *)
LEMMA Modulus ==
    ASSUME NEW n \in Nat, n > 0, NEW a \in Nat
    PROVE  /\ a < n => a % n = a
           /\ n <= a /\ a < n + n => a % n = a - n
OBVIOUS

(* The length and the events of the log after a new event.                 *)
LEMMA PushedFacts ==
    ASSUME NEW E, NEW log \in Seq(E), NEW e \in E
    PROVE  /\ Pushed(log, e) \in Seq(E)
           /\ Len(log) < Ring =>
                /\ Len(Pushed(log, e)) = Len(log) + 1
                /\ \A i \in 1..Len(log) : Pushed(log, e)[i] = log[i]
                /\ Pushed(log, e)[Len(log) + 1] = e
           /\ Len(log) = Ring =>
                /\ Len(Pushed(log, e)) = Ring
                /\ \A i \in 1..(Ring - 1) : Pushed(log, e)[i] = log[i + 1]
                /\ Pushed(log, e)[Ring] = e
<1> Len(log) \in Nat /\ Ring \in Nat /\ Ring > 0
  BY RingNat
<1>1. CASE Len(log) < Ring
  <2>1. Pushed(log, e) = Append(log, e)
    BY <1>1 DEF Pushed
  <2> QED BY <1>1, <2>1
<1>2. CASE ~(Len(log) < Ring)
  <2>1. Pushed(log, e) = Append(Tail(log), e) /\ log # <<>>
    BY <1>2 DEF Pushed
  <2>2. Tail(log) \in Seq(E) /\ Len(Tail(log)) = Len(log) - 1
    BY <2>1
  <2>3. \A i \in 1..(Len(log) - 1) : Tail(log)[i] = log[i + 1]
    BY <2>1
  <2> DEFINE t == Tail(log)
  <2> HIDE DEF t
  <2>4. CASE Len(log) = Ring
    <3>1. t \in Seq(E) /\ Len(t) = Ring - 1 /\ Pushed(log, e) = Append(t, e)
      BY <2>1, <2>2, <2>4 DEF t
    <3>2. \A i \in 1..(Ring - 1) : t[i] = log[i + 1]
      BY <2>3, <2>4 DEF t
    <3> QED BY <2>4, <3>1, <3>2
  <2>5. CASE Len(log) # Ring
    <3>1. Pushed(log, e) \in Seq(E)
      BY <2>1, <2>2
    <3> QED BY <1>2, <2>5, <3>1
  <2> QED BY <2>4, <2>5
<1> QED BY <1>1, <1>2

(* A log with room grows by the new event.                                 *)
LEMMA PushedShort ==
    ASSUME NEW E, NEW log \in Seq(E), NEW e \in E, Len(log) < Ring
    PROVE  /\ Len(Pushed(log, e)) = Len(log) + 1 /\ Pushed(log, e)[Len(log) + 1] = e
           /\ \A i \in 1..Len(log) : Pushed(log, e)[i] = log[i]
BY PushedFacts, RingNat

(* A full log loses its oldest event.                                      *)
LEMMA PushedFull ==
    ASSUME NEW E, NEW log \in Seq(E), NEW e \in E, Len(log) = Ring
    PROVE  /\ Len(Pushed(log, e)) = Ring /\ Pushed(log, e)[Ring] = e
           /\ \A i \in 1..(Ring - 1) : Pushed(log, e)[i] = log[i + 1]
BY PushedFacts, RingNat

(* Pushing an event with a new id keeps the ids distinct.                  *)
LEMMA PushedLog ==
    ASSUME NEW E, NEW log \in Logs(E), NEW e \in E,
           \A i \in 1..Len(log) : log[i].id # e.id
    PROVE  Pushed(log, e) \in Logs(E)
<1> log \in Seq(E) /\ Len(log) \in Nat /\ Ring \in Nat /\ Ring > 0 /\ Len(log) <= Ring
  BY RingNat DEF Logs
<1> \A i, j \in 1..Len(log) : log[i].id = log[j].id => i = j
  BY DEF Logs, Distinct
<1> DEFINE p == Pushed(log, e)
<1>1. p \in Seq(E) /\ Len(p) \in Nat
  BY PushedFacts
<1>2. CASE Len(log) < Ring
  <2>1. /\ Len(p) = Len(log) + 1 /\ p[Len(log) + 1] = e
        /\ \A i \in 1..Len(log) : p[i] = log[i]
    BY <1>2, PushedFacts
  <2> HIDE DEF p
  <2>2. ASSUME NEW i \in 1..Len(p), NEW j \in 1..Len(p), p[i].id = p[j].id PROVE i = j
    <3>1. \A k \in 1..Len(p) : k \in 1..Len(log) \/ k = Len(log) + 1
      BY <2>1
    <3> QED BY <2>1, <2>2, <3>1
  <2> QED BY <1>1, <1>2, <2>1, <2>2 DEF Logs, Distinct, p
<1>3. CASE Len(log) = Ring
  <2>1. /\ Len(p) = Ring /\ p[Ring] = e
        /\ \A i \in 1..(Ring - 1) : p[i] = log[i + 1]
    BY <1>3, PushedFacts
  <2> HIDE DEF p
  <2>2. ASSUME NEW i \in 1..Len(p), NEW j \in 1..Len(p), p[i].id = p[j].id PROVE i = j
    <3>1. \A k \in 1..Len(p) : (k \in 1..(Ring - 1) /\ k + 1 \in 1..Len(log)) \/ k = Ring
      BY <2>1, <1>3
    <3>2. Ring \in 1..Ring
      OBVIOUS
    <3>3. CASE i \in 1..(Ring - 1) /\ j \in 1..(Ring - 1)
      BY <2>1, <2>2, <3>1, <3>3
    <3>4. CASE i = Ring \/ j = Ring
      BY <2>1, <2>2, <3>1, <3>4
    <3> QED BY <3>1, <3>3, <3>4
  <2> QED BY <1>1, <1>3, <2>1, <2>2 DEF Logs, Distinct, p
<1> QED BY <1>2, <1>3

(* A suffix stays one when both logs get the same new event.               *)
LEMMA PushedSuffix ==
    ASSUME NEW E, NEW c \in Seq(E), NEW d \in Seq(E), NEW e \in E,
           Len(c) <= Ring, Len(d) <= Ring, Suffix(c, d)
    PROVE  Suffix(Pushed(c, e), Pushed(d, e))
<1> /\ Len(c) \in Nat /\ Len(d) \in Nat /\ Ring \in Nat /\ Ring > 0
    /\ Len(c) <= Len(d)
  BY RingNat DEF Suffix
<1> \A i \in 1..Len(c) : c[i] = d[Len(d) - Len(c) + i]
  BY DEF Suffix
<1>1. CASE Len(c) = Ring
  <2>1. Len(d) = Ring
    BY <1>1
  <2>2. \A i \in 1..Ring : c[i] = d[i]
    BY <1>1, <2>1
  <2>3. Len(Pushed(c, e)) = Ring /\ Len(Pushed(d, e)) = Ring
    BY <1>1, <2>1, PushedFacts
  <2>4. ASSUME NEW i \in 1..Ring PROVE Pushed(c, e)[i] = Pushed(d, e)[i]
    <3>1. CASE i = Ring
      <4>1. Pushed(c, e)[i] = e
        BY <1>1, <3>1, PushedFacts
      <4>2. Pushed(d, e)[i] = e
        BY <2>1, <3>1, PushedFacts
      <4> QED BY <4>1, <4>2
    <3>2. CASE i # Ring
      <4>1. i \in 1..(Ring - 1) /\ i + 1 \in 1..Ring
        BY <3>2
      <4>2. Pushed(c, e)[i] = c[i + 1] /\ Pushed(d, e)[i] = d[i + 1]
        <5>1. Pushed(c, e)[i] = c[i + 1]
          BY <1>1, <4>1, PushedFacts
        <5>2. Pushed(d, e)[i] = d[i + 1]
          BY <2>1, <4>1, PushedFacts
        <5> QED BY <5>1, <5>2
      <4> QED BY <2>2, <4>1, <4>2
    <3> QED BY <3>1, <3>2
  <2> QED BY <2>3, <2>4 DEF Suffix
<1>2. CASE Len(c) < Ring /\ Len(d) < Ring
  <2>1. /\ Len(Pushed(c, e)) = Len(c) + 1 /\ Len(Pushed(d, e)) = Len(d) + 1
        /\ Pushed(c, e)[Len(c) + 1] = e /\ Pushed(d, e)[Len(d) + 1] = e
        /\ \A i \in 1..Len(c) : Pushed(c, e)[i] = c[i]
        /\ \A i \in 1..Len(d) : Pushed(d, e)[i] = d[i]
    <3>1. /\ Len(Pushed(c, e)) = Len(c) + 1 /\ Pushed(c, e)[Len(c) + 1] = e
          /\ \A i \in 1..Len(c) : Pushed(c, e)[i] = c[i]
      BY <1>2, PushedFacts
    <3>2. /\ Len(Pushed(d, e)) = Len(d) + 1 /\ Pushed(d, e)[Len(d) + 1] = e
          /\ \A i \in 1..Len(d) : Pushed(d, e)[i] = d[i]
      BY <1>2, PushedFacts
    <3> QED BY <3>1, <3>2
  <2>2. ASSUME NEW i \in 1..(Len(c) + 1)
        PROVE  Pushed(c, e)[i] = Pushed(d, e)[(Len(d) + 1) - (Len(c) + 1) + i]
    <3>1. CASE i = Len(c) + 1
      BY <2>1, <3>1
    <3>2. CASE i # Len(c) + 1
      <4>1. i \in 1..Len(c) /\ Len(d) - Len(c) + i \in 1..Len(d)
            /\ (Len(d) + 1) - (Len(c) + 1) + i = Len(d) - Len(c) + i
        BY <3>2
      <4> QED BY <2>1, <4>1
    <3> QED BY <3>1, <3>2
  <2> QED BY <2>1, <2>2 DEF Suffix
<1>3. CASE Len(c) < Ring /\ Len(d) = Ring
  <2>1. /\ Len(Pushed(c, e)) = Len(c) + 1 /\ Len(Pushed(d, e)) = Ring
        /\ Pushed(c, e)[Len(c) + 1] = e /\ Pushed(d, e)[Ring] = e
        /\ \A i \in 1..Len(c) : Pushed(c, e)[i] = c[i]
        /\ \A i \in 1..(Ring - 1) : Pushed(d, e)[i] = d[i + 1]
    <3>1. /\ Len(Pushed(c, e)) = Len(c) + 1 /\ Pushed(c, e)[Len(c) + 1] = e
          /\ \A i \in 1..Len(c) : Pushed(c, e)[i] = c[i]
      BY <1>3, PushedFacts
    <3>2. /\ Len(Pushed(d, e)) = Ring /\ Pushed(d, e)[Ring] = e
          /\ \A i \in 1..(Ring - 1) : Pushed(d, e)[i] = d[i + 1]
      BY <1>3, PushedFacts
    <3> QED BY <3>1, <3>2
  <2>2. ASSUME NEW i \in 1..(Len(c) + 1)
        PROVE  Pushed(c, e)[i] = Pushed(d, e)[Ring - (Len(c) + 1) + i]
    <3>1. CASE i = Len(c) + 1
      BY <2>1, <3>1
    <3>2. CASE i # Len(c) + 1
      <4>1. /\ i \in 1..Len(c) /\ Ring - (Len(c) + 1) + i \in 1..(Ring - 1)
            /\ (Ring - (Len(c) + 1) + i) + 1 = Len(d) - Len(c) + i
        BY <1>3, <3>2
      <4> QED BY <2>1, <4>1
    <3> QED BY <3>1, <3>2
  <2> QED BY <2>1, <2>2, <1>3 DEF Suffix
<1> QED BY <1>1, <1>2, <1>3

(* A record of an event the log does not know pushes it.                   *)
LEMMA UpsertNew ==
    ASSUME NEW E, NEW log \in Logs(E), NEW r, \A i \in 1..Len(log) : log[i].id # r.id
    PROVE  Upsert(log, r) = Pushed(log, r)
<1> DOMAIN log = 1..Len(log)
  BY DEF Logs
<1> QED BY DEF Upsert, Pushed

(* A record of an event the log knows replaces it.                         *)
LEMMA UpsertKnown ==
    ASSUME NEW E, NEW log \in Logs(E), NEW r, NEW k \in 1..Len(log), log[k].id = r.id
    PROVE  Upsert(log, r) = [log EXCEPT ![k] = r]
<1>1. log \in Seq(E) /\ DOMAIN log = 1..Len(log) /\ log = [i \in DOMAIN log |-> log[i]]
  BY DEF Logs
<1>2. \A i \in DOMAIN log : log[i].id = r.id => i = k
  BY <1>1 DEF Logs, Distinct
<1>3. Upsert(log, r) = [i \in DOMAIN log |-> IF log[i].id = r.id THEN r ELSE log[i]]
  BY <1>1 DEF Upsert
<1> QED BY <1>1, <1>2, <1>3

(* Replacing an event by another version of it keeps a log a log.          *)
LEMMA ReplacedLog ==
    ASSUME NEW E, NEW log \in Logs(E), NEW r \in E, NEW k \in 1..Len(log), log[k].id = r.id
    PROVE  /\ [log EXCEPT ![k] = r] \in Logs(E)
           /\ Len([log EXCEPT ![k] = r]) = Len(log)
           /\ \A i \in 1..Len(log) : [log EXCEPT ![k] = r][i] = IF i = k THEN r ELSE log[i]
           /\ \A i \in 1..Len(log) : [log EXCEPT ![k] = r][i].id = log[i].id
<1> DEFINE p == [log EXCEPT ![k] = r]
<1>1. log \in Seq(E) /\ Len(log) \in Nat /\ Len(log) <= Ring
  BY DEF Logs
<1>2. p \in Seq(E) /\ Len(p) = Len(log)
  BY <1>1
<1>3. \A i \in 1..Len(log) : p[i] = IF i = k THEN r ELSE log[i]
  BY <1>1
<1>4. \A i \in 1..Len(log) : p[i].id = log[i].id
  BY <1>3
<1>5. \A i, j \in 1..Len(log) : log[i].id = log[j].id => i = j
  BY <1>1 DEF Logs, Distinct
<1> HIDE DEF p
<1>6. \A i, j \in DOMAIN p : p[i].id = p[j].id => i = j
  BY <1>2, <1>4, <1>5
<1>7. p \in Logs(E)
  BY <1>1, <1>2, <1>6 DEF Logs, Distinct
<1> QED BY <1>2, <1>3, <1>4, <1>7 DEF p

(* Upsert keeps a log a log.                                               *)
LEMMA UpsertLog ==
    ASSUME NEW E, NEW log \in Logs(E), NEW r \in E
    PROVE  Upsert(log, r) \in Logs(E)
<1>1. CASE \E k \in 1..Len(log) : log[k].id = r.id
  BY <1>1, UpsertKnown, ReplacedLog
<1>2. CASE \A k \in 1..Len(log) : log[k].id # r.id
  BY <1>2, UpsertNew, PushedLog
<1> QED BY <1>1, <1>2

(* A suffix stays one when an event of it is replaced in both logs.        *)
LEMMA ReplacedSuffix ==
    ASSUME NEW E, NEW c \in Logs(E), NEW d \in Logs(E), Suffix(c, d),
           NEW k \in 1..Len(c), NEW r \in E, r.id = c[k].id
    PROVE  Suffix([c EXCEPT ![k] = r], Upsert(d, r))
<1> /\ Len(c) \in Nat /\ Len(d) \in Nat /\ Len(c) <= Len(d)
    /\ \A i \in 1..Len(c) : c[i] = d[Len(d) - Len(c) + i]
  BY DEF Suffix, Logs
<1> DEFINE n == Len(d) - Len(c) + k
           cc == [c EXCEPT ![k] = r]
           dd == [d EXCEPT ![n] = r]
<1>1. n \in 1..Len(d) /\ d[n].id = r.id
  OBVIOUS
<1>n. n = Len(d) - Len(c) + k
  OBVIOUS
<1> HIDE DEF n
<1>2. Upsert(d, r) = dd
  BY <1>1, UpsertKnown
<1>3. Len(cc) = Len(c) /\ \A i \in 1..Len(c) : cc[i] = IF i = k THEN r ELSE c[i]
  BY ReplacedLog
<1>4. Len(dd) = Len(d) /\ \A i \in 1..Len(d) : dd[i] = IF i = n THEN r ELSE d[i]
  BY <1>1, ReplacedLog
<1> HIDE DEF cc, dd
<1>5. ASSUME NEW i \in 1..Len(c) PROVE cc[i] = dd[Len(d) - Len(c) + i]
  <2>1. Len(d) - Len(c) + i \in 1..Len(d)
    OBVIOUS
  <2>3. Len(d) - Len(c) + i = n <=> i = k
    <3>1. CASE i = k
      BY <1>n, <3>1
    <3>2. CASE i # k
      <4>1. Len(d) - Len(c) + i # Len(d) - Len(c) + k
        BY <3>2
      <4> QED BY <1>n, <3>2, <4>1
    <3> QED BY <3>1, <3>2
  <2>2. c[i] = d[Len(d) - Len(c) + i]
    OBVIOUS
  <2> QED BY <1>3, <1>4, <2>1, <2>2, <2>3
<1>6. Suffix(cc, dd)
  BY <1>3, <1>4, <1>5 DEF Suffix
<1> QED BY <1>2, <1>6 DEF cc

-----------------------------------------------------------------------------
(* What a boot restores from a bank                                        *)

CellValues == Entries \cup {Erased, Torn}
Cells == [1..Slots -> CellValues]

(* The log is restored slot by slot.                                       *)
LEMMA RestoredSteps ==
    ASSUME NEW cells \in Cells
    PROVE  /\ \A n \in 0..Slots : Restored(cells)[n] \in Logs(CellValues)
           /\ Restored(cells)[0] = <<>>
           /\ \A n \in 1..Slots : Restored(cells)[n] = Upsert(Restored(cells)[n - 1], cells[n])
<1> DEFINE V == Logs(CellValues)
           h == [x \in V \X (1..Slots) |-> Upsert(x[1], cells[x[2]])]
           E(f) == [n \in 0..Slots |-> IF n = 0 THEN <<>> ELSE Upsert(f[n - 1], cells[n])]
           R == Restored(cells)
<1>1. /\ Slots \in Nat /\ 0 \in 0..Slots
      /\ \A n \in 1..Slots : n - 1 \in 0..Slots /\ n \in 0..Slots /\ n # 0
      /\ \A n \in 0..Slots : n # 0 => n \in 1..Slots
  BY RingNat
<1>2. <<>> \in V
  BY RingNat DEF Logs, Distinct
<1>3. \A v \in V, n \in 1..Slots : Upsert(v, cells[n]) \in V
  <2>1. \A n \in 1..Slots : cells[n] \in CellValues
    BY DEF Cells
  <2> QED BY <2>1, UpsertLog
<1>4. \A v \in V, n \in 1..Slots : h[<<v, n>>] = Upsert(v, cells[n])
  OBVIOUS
<1> HIDE DEF V, h
<1>5. PICK f : Computes(f, Slots, V, <<>>, h)
  <2>1. StaysIn(Slots, V, <<>>, h)
    BY <1>2, <1>3, <1>4 DEF StaysIn
  <2> QED BY <1>1, <2>1, Recursion
<1>6. /\ f \in [0..Slots -> V] /\ f[0] = <<>>
      /\ \A n \in 1..Slots : f[n] = h[<<f[n - 1], n>>]
  BY <1>5 DEF Computes
<1>7. \A n \in 1..Slots : f[n] = Upsert(f[n - 1], cells[n])
  BY <1>1, <1>4, <1>6
<1>8. f = E(f)
  <2>1. \A n \in 0..Slots : f[n] = IF n = 0 THEN <<>> ELSE Upsert(f[n - 1], cells[n])
    BY <1>1, <1>6, <1>7
  <2> QED BY <1>6, <2>1
<1>9. R = CHOOSE g : g = E(g)
  BY DEF Restored
<1> HIDE DEF E, R
<1>10. R = E(R)
  BY <1>8, <1>9
<1>11. \A n \in 0..Slots : R[n] = IF n = 0 THEN <<>> ELSE Upsert(R[n - 1], cells[n])
  <2>1. \A n \in 0..Slots : E(R)[n] = IF n = 0 THEN <<>> ELSE Upsert(R[n - 1], cells[n])
    BY DEF E
  <2> QED BY <1>10, <2>1
<1>12. R[0] = <<>> /\ \A n \in 1..Slots : R[n] = Upsert(R[n - 1], cells[n])
  BY <1>1, <1>11
<1> DEFINE S == {n \in 0..Slots : R[n] \in V}
<1>13. 0 \in S
  BY <1>1, <1>2, <1>12
<1>14. ASSUME NEW n \in 0..Slots, n < Slots, n \in S PROVE (n + 1) \in S
  <2>1. n + 1 \in 1..Slots /\ n + 1 \in 0..Slots /\ (n + 1) - 1 = n
    BY <1>1, <1>14
  <2>2. R[n + 1] = Upsert(R[n], cells[n + 1])
    BY <1>12, <2>1
  <2> QED BY <1>3, <1>14, <2>1, <2>2
<1> HIDE DEF S
<1>15. 0..Slots \subseteq S
  BY <1>1, <1>13, <1>14, UpTo
<1> QED BY <1>12, <1>15 DEF S, V, R

(* What a boot restores depends on the slots it has read.                  *)
LEMMA RestoredAgree ==
    ASSUME NEW c \in Cells, NEW d \in Cells, NEW m \in 0..Slots,
           \A s \in 1..m : c[s] = d[s]
    PROVE  Restored(c)[m] = Restored(d)[m]
<1> DEFINE S == {n \in 0..m : Restored(c)[n] = Restored(d)[n]}
<1>1. m \in Nat /\ m <= Slots /\ Slots \in Nat
  BY RingNat
<1>2. 0 \in S
  BY <1>1, RestoredSteps
<1>3. ASSUME NEW n \in 0..m, n < m, n \in S PROVE (n + 1) \in S
  <2>1. n + 1 \in 1..Slots /\ n + 1 \in 1..m /\ n + 1 \in 0..m /\ (n + 1) - 1 = n
    BY <1>1, <1>3
  <2>2. Restored(c)[n + 1] = Upsert(Restored(c)[n], c[n + 1])
    BY <2>1, RestoredSteps
  <2>3. Restored(d)[n + 1] = Upsert(Restored(d)[n], d[n + 1])
    BY <2>1, RestoredSteps
  <2>4. c[n + 1] = d[n + 1]
    BY <2>1
  <2> QED BY <1>3, <2>1, <2>2, <2>3, <2>4
<1> HIDE DEF S
<1>4. 0..m \subseteq S
  BY <1>1, <1>2, <1>3, UpTo
<1> QED BY <1>1, <1>4 DEF S

(* Whatever ids a log had, an upsert adds at most that of the record.      *)
LEMMA UpsertIds ==
    ASSUME NEW E, NEW log \in Logs(E), NEW r \in E, NEW i \in 1..Len(Upsert(log, r))
    PROVE  \/ Upsert(log, r)[i].id = r.id
           \/ \E k \in 1..Len(log) : Upsert(log, r)[i].id = log[k].id
<1> log \in Seq(E) /\ Len(log) \in Nat /\ Len(log) <= Ring /\ Ring \in Nat /\ Ring > 0
  BY RingNat DEF Logs
<1>1. CASE \E k \in 1..Len(log) : log[k].id = r.id
  <2>1. PICK k \in 1..Len(log) : log[k].id = r.id
    BY <1>1
  <2>2. Upsert(log, r) = [log EXCEPT ![k] = r]
    BY <2>1, UpsertKnown
  <2>3. /\ Len([log EXCEPT ![k] = r]) = Len(log)
        /\ \A j \in 1..Len(log) : [log EXCEPT ![k] = r][j].id = log[j].id
    BY <2>1, ReplacedLog
  <2> QED BY <2>2, <2>3
<1>2. CASE \A k \in 1..Len(log) : log[k].id # r.id
  <2>1. Upsert(log, r) = Pushed(log, r)
    BY <1>2, UpsertNew
  <2>2. CASE Len(log) < Ring
    <3>1. /\ Len(Pushed(log, r)) = Len(log) + 1 /\ Pushed(log, r)[Len(log) + 1] = r
          /\ \A j \in 1..Len(log) : Pushed(log, r)[j] = log[j]
      BY <2>2, PushedFacts
    <3>2. i \in 1..Len(log) \/ i = Len(log) + 1
      BY <2>1, <3>1
    <3> QED BY <2>1, <3>1, <3>2
  <2>3. CASE Len(log) = Ring
    <3>1. /\ Len(Pushed(log, r)) = Ring /\ Pushed(log, r)[Ring] = r
          /\ \A j \in 1..(Ring - 1) : Pushed(log, r)[j] = log[j + 1]
      BY <2>3, PushedFacts
    <3>2. i = Ring \/ (i \in 1..(Ring - 1) /\ i + 1 \in 1..Len(log))
      BY <2>1, <2>3, <3>1
    <3> QED BY <2>1, <3>1, <3>2
  <2> QED BY <2>2, <2>3
<1> QED BY <1>1, <1>2

(* From valid records a boot restores a log of them.                       *)
LEMMA RestoredValid ==
    ASSUME NEW c \in Cells, NEW m \in 0..Slots, \A s \in 1..m : c[s] \in Entries
    PROVE  /\ Restored(c)[m] \in Logs(Entries)
           /\ \A i \in 1..Len(Restored(c)[m]) :
                \E s \in 1..m : Restored(c)[m][i].id = c[s].id
<1> DEFINE R == Restored(c)
           FromCells(n) == \A i \in 1..Len(R[n]) : \E s \in 1..n : R[n][i].id = c[s].id
           S == {n \in 0..m : R[n] \in Logs(Entries) /\ FromCells(n)}
<1>1. m \in Nat /\ m <= Slots /\ Slots \in Nat
  BY RingNat
<1>2. 0 \in S
  <2>1. R[0] = <<>>
    BY <1>1, RestoredSteps
  <2>2. <<>> \in Logs(Entries)
    BY RingNat DEF Logs, Distinct
  <2> QED BY <1>1, <2>1, <2>2
<1>3. ASSUME NEW n \in 0..m, n < m, n \in S PROVE (n + 1) \in S
  <2>1. n + 1 \in 1..Slots /\ n + 1 \in 1..m /\ n + 1 \in 0..m /\ (n + 1) - 1 = n
    BY <1>1, <1>3
  <2>2. R[n + 1] = Upsert(R[n], c[n + 1])
    BY <2>1, RestoredSteps
  <2>3. R[n] \in Logs(Entries) /\ c[n + 1] \in Entries
    BY <1>3, <2>1
  <2>4. R[n + 1] \in Logs(Entries)
    BY <2>2, <2>3, UpsertLog
  <2>5. FromCells(n)
    BY <1>3
  <2> HIDE DEF R
  <2>6. ASSUME NEW i \in 1..Len(R[n + 1]) PROVE \E s \in 1..(n + 1) : R[n + 1][i].id = c[s].id
    <3>1. \/ R[n + 1][i].id = c[n + 1].id
          \/ \E k \in 1..Len(R[n]) : R[n + 1][i].id = R[n][k].id
      BY <2>2, <2>3, UpsertIds
    <3>2. n + 1 \in 1..(n + 1) /\ \A s \in 1..n : s \in 1..(n + 1)
      BY <2>1
    <3> QED BY <2>5, <3>1, <3>2
  <2> QED BY <2>1, <2>4, <2>6
<1> HIDE DEF S
<1>4. 0..m \subseteq S
  BY <1>1, <1>2, <1>3, UpTo
<1>5. m \in S
  BY <1>1, <1>4
<1> QED BY <1>5 DEF S

(* From a bank into which a log was copied a boot restores that log.       *)
LEMMA RestoredCopy ==
    ASSUME NEW c \in Cells, NEW log \in Logs(Entries),
           \A s \in 1..Len(log) : c[s] = log[s]
    PROVE  Restored(c)[Len(log)] = log
<1> DEFINE R == Restored(c)
           Copied(n) == Len(R[n]) = n /\ \A i \in 1..n : R[n][i] = log[i]
           S == {n \in 0..Len(log) : Copied(n)}
<1>1. /\ log \in Seq(Entries) /\ Len(log) \in Nat /\ Len(log) <= Ring
      /\ Ring \in Nat /\ Slots \in Nat /\ Ring < Slots
      /\ Len(log) \in 0..Slots
  BY RingNat DEF Logs
<1>2. \A i, j \in 1..Len(log) : log[i].id = log[j].id => i = j
  BY <1>1 DEF Logs, Distinct
<1>3. 0 \in S
  <2>1. R[0] = <<>>
    BY <1>1, RestoredSteps
  <2> QED BY <1>1, <2>1
<1>r. \A n \in 0..Slots : R[n] \in Logs(CellValues)
  BY RestoredSteps
<1>s. \A n \in 1..Slots : R[n] = Upsert(R[n - 1], c[n])
  BY RestoredSteps
<1> HIDE DEF R
<1>4. ASSUME NEW n \in 0..Len(log), n < Len(log), n \in S PROVE (n + 1) \in S
  <2>1. /\ n + 1 \in 1..Slots /\ n + 1 \in 1..Len(log) /\ n + 1 \in 0..Len(log)
        /\ (n + 1) - 1 = n /\ n \in 0..Slots /\ n < Ring
    BY <1>1, <1>4
  <2>2. R[n + 1] = Upsert(R[n], log[n + 1])
    BY <1>s, <2>1
  <2>3. Len(R[n]) = n /\ \A i \in 1..n : R[n][i] = log[i]
    BY <1>4
  <2>4. \A i \in 1..Len(R[n]) : R[n][i].id # log[n + 1].id
    BY <1>2, <2>1, <2>3
  <2>5. R[n + 1] = Pushed(R[n], log[n + 1])
    BY <1>r, <2>1, <2>2, <2>4, UpsertNew
  <2>6. R[n] \in Seq(CellValues) /\ log[n + 1] \in CellValues
    BY <1>r, <1>1, <2>1 DEF Logs, CellValues
  <2>7. /\ Len(R[n + 1]) = n + 1 /\ R[n + 1][n + 1] = log[n + 1]
        /\ \A i \in 1..n : R[n + 1][i] = R[n][i]
    <3>1. Len(R[n]) < Ring
      BY <2>1, <2>3
    <3>2. /\ Len(R[n + 1]) = Len(R[n]) + 1 /\ R[n + 1][Len(R[n]) + 1] = log[n + 1]
          /\ \A i \in 1..Len(R[n]) : R[n + 1][i] = R[n][i]
      <4> DEFINE l == R[n]
                 e == log[n + 1]
      <4>1. l \in Seq(CellValues) /\ e \in CellValues /\ Len(l) < Ring /\ R[n + 1] = Pushed(l, e)
        BY <2>5, <2>6, <3>1
      <4> HIDE DEF l, e
      <4>2. /\ Len(Pushed(l, e)) = Len(l) + 1 /\ Pushed(l, e)[Len(l) + 1] = e
            /\ \A i \in 1..Len(l) : Pushed(l, e)[i] = l[i]
        BY <4>1, PushedFacts
      <4> QED BY <4>1, <4>2 DEF l, e
    <3> QED BY <2>3, <3>2
  <2>8. \A i \in 1..(n + 1) : R[n + 1][i] = log[i]
    <3>1. \A i \in 1..(n + 1) : i \in 1..n \/ i = n + 1
      BY <2>1
    <3> QED BY <2>3, <2>7, <3>1
  <2> QED BY <2>1, <2>7, <2>8
<1> HIDE DEF S
<1>5. 0..Len(log) \subseteq S
  BY <1>1, <1>3, <1>4, UpTo
<1>6. Copied(Len(log))
  BY <1>1, <1>5 DEF S
<1>7. R[Len(log)] \in Seq(CellValues)
  BY <1>r, <1>1 DEF Logs
<1>8. R[Len(log)] = log
  BY <1>1, <1>6, <1>7
<1> QED BY <1>8 DEF R

-----------------------------------------------------------------------------

(* The valid records of a bank.                                            *)
LEMMA ValidCountIs ==
    ASSUME NEW c \in Cells, NEW n \in 0..Slots,
           \A s \in 1..n : c[s] \in Entries,
           n < Slots => c[n + 1] \notin Entries
    PROVE  ValidCount(c) = n
<1>1. \A x \in CellValues : x.id > 0 <=> x \in Entries
  BY JournalAssumption DEF CellValues, Entries, Erased, Torn
<1>2. \A s \in 1..Slots : c[s] \in CellValues /\ c[s].id \in Int
  BY JournalAssumption DEF Cells, CellValues, Entries, Erased, Torn
<1> DEFINE Good(m) == /\ \A s \in 1..m : c[s].id > 0
                      /\ m < Slots => c[m + 1].id <= 0
<1>3. n \in Nat /\ n <= Slots /\ Slots \in Nat
  BY RingNat
<1>4. Good(n)
  <2>1. \A s \in 1..n : s \in 1..Slots
    BY <1>3
  <2>2. n < Slots => n + 1 \in 1..Slots
    BY <1>3
  <2> QED BY <1>1, <1>2, <2>1, <2>2
<1>5. ASSUME NEW m \in 0..Slots, Good(m) PROVE m = n
  <2>1. CASE m < n
    <3>1. m + 1 \in 1..n /\ m < Slots /\ m + 1 \in 1..Slots
      BY <1>3, <2>1
    <3> QED BY <1>1, <1>2, <1>5, <3>1
  <2>2. CASE n < m
    <3>1. n + 1 \in 1..m /\ n < Slots /\ n + 1 \in 1..Slots
      BY <1>3, <2>2
    <3> QED BY <1>1, <1>2, <1>5, <3>1
  <2> QED BY <1>3, <2>1, <2>2
<1>6. ValidCount(c) = CHOOSE m \in 0..Slots : Good(m)
  BY DEF ValidCount
<1> HIDE DEF Good
<1> QED BY <1>4, <1>5, <1>6

(* Every bank has some.                                                    *)
LEMMA ValidCountExists ==
    ASSUME NEW c \in Cells
    PROVE  /\ ValidCount(c) \in 0..Slots
           /\ \A s \in 1..ValidCount(c) : c[s] \in Entries
           /\ ValidCount(c) < Slots => c[ValidCount(c) + 1] \notin Entries
<1> DEFINE T == {m \in Nat : m >= Slots \/ c[m + 1] \notin Entries}
<1>1. Slots \in Nat /\ T \in SUBSET Nat /\ T # {}
  <2>1. Slots \in T
    BY RingNat
  <2> QED BY <2>1, RingNat
<1>2. PICK n \in T : \A k \in T : n <= k
  BY <1>1, LeastNumber
<1>3. n \in Nat /\ n <= Slots
  BY <1>1, <1>2
<1>4. ASSUME NEW s \in 1..n PROVE c[s] \in Entries
  <2>1. s - 1 \in Nat /\ s - 1 < n /\ (s - 1) + 1 = s /\ s - 1 < Slots
    BY <1>1, <1>3
  <2>2. s - 1 \notin T
    BY <1>2, <1>3, <2>1
  <2> QED BY <2>1, <2>2
<1>5. n < Slots => c[n + 1] \notin Entries
  BY <1>1, <1>3
<1>6. ValidCount(c) = n
  BY <1>1, <1>3, <1>4, <1>5, ValidCountIs
<1> QED BY <1>1, <1>3, <1>4, <1>5, <1>6

(* The first n slots hold records, the others are erased.                  *)
Whole(cells, n) ==
    \A s \in 1..Slots : IF s <= n THEN cells[s] \in Entries ELSE cells[s] = Erased

(* Events have positive ids, erased and torn slots do not.                 *)
LEMMA CellFacts ==
    /\ Erased \notin Entries /\ Torn \notin Entries /\ Erased # Torn
    /\ Erased \in CellValues /\ Torn \in CellValues /\ Entries \subseteq CellValues
    /\ \A x \in CellValues : x.id \in Int /\ (x \in Entries => x.id \in Nat /\ x.id > 0)
    /\ \A x \in CellValues : x \notin Entries => x.id <= 0
BY JournalAssumption DEF CellValues, Entries, Erased, Torn

(* Any bank restores a log of events that it holds.                        *)
LEMMA ReplayAny ==
    ASSUME NEW c \in Cells
    PROVE  /\ Replay(c) \in Logs(Entries)
           /\ \A i \in 1..Len(Replay(c)) : \E s \in 1..ValidCount(c) : Replay(c)[i].id = c[s].id
<1>1. ValidCount(c) \in 0..Slots /\ \A s \in 1..ValidCount(c) : c[s] \in Entries
  BY ValidCountExists
<1> QED BY <1>1, RestoredValid DEF Replay

(* A bank in order restores what its records say.                          *)
LEMMA ReplayWhole ==
    ASSUME NEW c \in Cells, NEW n \in 0..Slots, Whole(c, n)
    PROVE  ValidCount(c) = n /\ Replay(c) = Restored(c)[n]
<1> n \in Nat /\ Slots \in Nat /\ n <= Slots
  BY RingNat
<1>1. \A s \in 1..n : c[s] \in Entries
  BY DEF Whole
<1>2. n < Slots => c[n + 1] \notin Entries
  BY CellFacts DEF Whole
<1>3. ValidCount(c) = n
  BY <1>1, <1>2, ValidCountIs
<1> QED BY <1>3 DEF Replay

(* What a record write at the end of a bank does to the log it restores.   *)
LEMMA ReplayAppend ==
    ASSUME NEW c \in Cells, NEW n \in 0..Slots, n < Slots, Whole(c, n), NEW x \in CellValues
    PROVE  LET d == [c EXCEPT ![n + 1] = x] IN
           /\ d \in Cells
           /\ x \in Entries => Whole(d, n + 1) /\ Replay(d) = Upsert(Replay(c), x)
           /\ x \notin Entries => Replay(d) = Replay(c)
<1> DEFINE d == [c EXCEPT ![n + 1] = x]
<1>1. /\ n \in Nat /\ Slots \in Nat /\ n + 1 \in 1..Slots /\ n + 1 \in 0..Slots
      /\ (n + 1) - 1 = n /\ \A s \in 1..n : s \in 1..Slots /\ s # n + 1
  BY RingNat
<1>2. d \in Cells
  BY <1>1 DEF Cells
<1>3. d[n + 1] = x /\ \A s \in 1..Slots : s # n + 1 => d[s] = c[s]
  BY <1>1 DEF Cells
<1> HIDE DEF d
<1>4. Replay(c) = Restored(c)[n]
  BY ReplayWhole
<1>5. Restored(d)[n] = Restored(c)[n]
  BY <1>1, <1>2, <1>3, RestoredAgree
<1>6. ASSUME x \in Entries PROVE Whole(d, n + 1) /\ Replay(d) = Upsert(Replay(c), x)
  <2>1. Whole(d, n + 1)
    BY <1>1, <1>3, <1>6 DEF Whole
  <2>2. Replay(d) = Restored(d)[n + 1]
    BY <1>1, <1>2, <2>1, ReplayWhole
  <2>3. Restored(d)[n + 1] = Upsert(Restored(d)[n], x)
    BY <1>1, <1>2, <1>3, RestoredSteps
  <2> QED BY <1>4, <1>5, <2>1, <2>2, <2>3
<1>7. ASSUME x \notin Entries PROVE Replay(d) = Replay(c)
  <2>1. \A s \in 1..n : d[s] \in Entries
    BY <1>1, <1>3 DEF Whole
  <2>2. ValidCount(d) = n
    BY <1>1, <1>2, <1>3, <1>7, <2>1, ValidCountIs
  <2> QED BY <1>4, <1>5, <2>2 DEF Replay
<1> QED BY <1>2, <1>6, <1>7 DEF d

(* A bank into which a log was copied restores it.                         *)
LEMMA ReplayCopy ==
    ASSUME NEW c \in Cells, NEW log \in Logs(Entries),
           \A s \in 1..Slots : c[s] = IF s <= Len(log) THEN log[s] ELSE Erased
    PROVE  Whole(c, Len(log)) /\ Replay(c) = log
<1>1. /\ log \in Seq(Entries) /\ Len(log) \in Nat /\ Len(log) <= Ring /\ Len(log) \in 0..Slots
      /\ Slots \in Nat /\ Len(log) <= Slots
  BY RingNat DEF Logs
<1>2. \A s \in 1..Len(log) : log[s] \in Entries /\ s \in 1..Slots
  BY <1>1
<1>3. Whole(c, Len(log))
  BY <1>1, <1>2 DEF Whole
<1>4. \A s \in 1..Len(log) : c[s] = log[s]
  BY <1>1, <1>2
<1> QED BY <1>1, <1>3, <1>4, ReplayWhole, RestoredCopy

(* The next id is beyond those of the valid records.                       *)
LEMMA NextIdIs ==
    ASSUME NEW c \in Cells
    PROVE  /\ NextIdOf(c) \in 1..(MaxId + 1)
           /\ \A s \in 1..ValidCount(c) : c[s].id < NextIdOf(c)
<1> DEFINE v == ValidCount(c)
           Beyond(n) == \A s \in 1..v : c[s].id < n
           Good(n) == Beyond(n) /\ (n > 1 => \E s \in 1..v : c[s].id = n - 1)
           T == {n \in Nat : n >= 1 /\ Beyond(n)}
<1>1. MaxId \in Nat /\ v \in 0..Slots /\ \A s \in 1..v : c[s] \in Entries
  BY JournalAssumption, ValidCountExists
<1>2. \A s \in 1..v : c[s].id \in Int /\ c[s].id <= MaxId
  BY <1>1 DEF Entries
<1> HIDE DEF v
<1>3. MaxId + 1 \in T
  BY <1>1, <1>2
<1>4. T \in SUBSET Nat /\ T # {}
  BY <1>3
<1>5. PICK n \in T : \A k \in T : n <= k
  BY <1>4, LeastNumber
<1>6. n \in 1..(MaxId + 1)
  BY <1>1, <1>3, <1>5
<1>7. Good(n)
  <2> SUFFICES ASSUME n > 1 PROVE \E s \in 1..v : c[s].id = n - 1
    BY <1>5
  <2>1. n - 1 \in Nat /\ n - 1 >= 1 /\ n - 1 < n
    BY <1>6
  <2>2. ~Beyond(n - 1)
    <3>1. n - 1 \notin T
      BY <1>5, <1>6, <2>1
    <3> QED BY <2>1, <3>1
  <2>3. PICK s \in 1..v : ~(c[s].id < n - 1)
    BY <2>2
  <2>4. c[s].id < n
    BY <1>5, <2>3
  <2> QED BY <1>2, <1>6, <2>3, <2>4
<1>8. NextIdOf(c) = CHOOSE m \in 1..(MaxId + 1) : Good(m)
  BY DEF NextIdOf, v
<1>9. NextIdOf(c) \in 1..(MaxId + 1) /\ Good(NextIdOf(c))
  <2> HIDE DEF Good
  <2> QED BY <1>6, <1>7, <1>8
<1> QED BY <1>9 DEF v

-----------------------------------------------------------------------------
(* The RAM ring, as a function of its three variables                      *)

RingValues == Entries \cup {Erased}

RingIs(b, h, c) == b \in [0..(Ring - 1) -> RingValues] /\ h \in 0..(Ring - 1) /\ c \in 0..Ring

Place(h, c, i) == (h + Ring - c + i) % Ring

RingLog(b, h, c) == [i \in 1..c |-> b[Place(h, c, i - 1)]]

(* The log in memory, in the terms of the lemmas above.                    *)
LEMMA ContentsIs ==
    /\ Contents = RingLog(buf, head, count)
    /\ \A i : IndexOf(i) = Place(head, count, i)
    /\ Contents' = RingLog(buf', head', count')
BY DEF Contents, RingLog, IndexOf, Place

(* Where the i-th event of the log is in the ring.                         *)
LEMMA PlaceIs ==
    ASSUME NEW h \in 0..(Ring - 1), NEW c \in 0..Ring, NEW i \in 0..(c - 1)
    PROVE  /\ Place(h, c, i) \in 0..(Ring - 1)
           /\ h - c + i >= 0 => Place(h, c, i) = h - c + i
           /\ h - c + i < 0 => Place(h, c, i) = h - c + i + Ring
<1> DEFINE a == h + Ring - c + i
<1>1. /\ Ring \in Nat /\ Ring > 0 /\ h \in Nat /\ h < Ring
      /\ c \in Nat /\ c <= Ring /\ i \in Nat /\ i < c
  BY RingNat
<1>2. a \in Nat /\ a < Ring + Ring
  BY <1>1
<1>3. (a < Ring => a % Ring = a) /\ (Ring <= a => a % Ring = a - Ring)
  <2> HIDE DEF a
  <2> QED BY <1>1, <1>2, Modulus
<1>4. Place(h, c, i) = a % Ring
  BY DEF Place
<1> QED BY <1>1, <1>3, <1>4

(* No two events share a place.                                            *)
LEMMA PlaceDistinct ==
    ASSUME NEW h \in 0..(Ring - 1), NEW c \in 0..Ring, NEW i \in 0..(c - 1),
           NEW j \in 0..(c - 1), Place(h, c, i) = Place(h, c, j)
    PROVE  i = j
<1>1. /\ Ring \in Nat /\ h \in Nat /\ h < Ring /\ c \in Nat /\ c <= Ring
      /\ i \in Nat /\ i < c /\ j \in Nat /\ j < c
  BY RingNat
<1>2. /\ h - c + i >= 0 => Place(h, c, i) = h - c + i
      /\ h - c + i < 0 => Place(h, c, i) = h - c + i + Ring
  BY PlaceIs
<1>3. /\ h - c + j >= 0 => Place(h, c, j) = h - c + j
      /\ h - c + j < 0 => Place(h, c, j) = h - c + j + Ring
  BY PlaceIs
<1> QED BY <1>1, <1>2, <1>3

(* The log of a ring has the ring's count of events.                       *)
LEMMA RingLogFacts ==
    ASSUME NEW b, NEW h, NEW c, RingIs(b, h, c)
    PROVE  /\ c \in Nat /\ Len(RingLog(b, h, c)) = c /\ DOMAIN RingLog(b, h, c) = 1..c
           /\ \A i \in 1..c : RingLog(b, h, c)[i] = b[Place(h, c, i - 1)]
           /\ RingLog(b, h, c) \in Seq(RingValues)
<1>1. c \in Nat
  BY RingNat DEF RingIs
<1>2. \A i \in 1..c : i - 1 \in 0..(c - 1)
  BY <1>1
<1>3. \A i \in 1..c : b[Place(h, c, i - 1)] \in RingValues
  BY <1>2, PlaceIs DEF RingIs
<1>4. RingLog(b, h, c) \in [1..c -> RingValues]
  BY <1>3 DEF RingLog
<1> QED BY <1>1, <1>4 DEF RingLog

(* The newest event is the last one of the log.                            *)
LEMMA NewestIs ==
    ASSUME RingIs(buf, head, count), count > 0
    PROVE  /\ Newest \in 0..(Ring - 1) /\ count \in 1..Len(Contents)
           /\ buf[Newest] = Contents[count]
<1>1. /\ Ring \in Nat /\ Ring > 0 /\ head \in Nat /\ head < Ring /\ head \in 0..(Ring - 1)
      /\ count \in Nat /\ count <= Ring /\ count - 1 \in 0..(count - 1) /\ count \in 1..count
      /\ count \in 0..Ring
  BY RingNat DEF RingIs
<1>2. /\ Place(head, count, count - 1) \in 0..(Ring - 1)
      /\ head - count + (count - 1) >= 0
            => Place(head, count, count - 1) = head - count + (count - 1)
      /\ head - count + (count - 1) < 0
            => Place(head, count, count - 1) = head - count + (count - 1) + Ring
  BY <1>1, PlaceIs
<1>3. head + Ring - 1 \in Nat
  BY <1>1
<1>4. /\ head + Ring - 1 < Ring => (head + Ring - 1) % Ring = head + Ring - 1
      /\ Ring <= head + Ring - 1 /\ head + Ring - 1 < Ring + Ring
            => (head + Ring - 1) % Ring = head + Ring - 1 - Ring
  BY <1>1, <1>3, Modulus
<1>5. Newest = Place(head, count, count - 1)
  BY <1>1, <1>2, <1>4 DEF Newest
<1> QED BY <1>1, <1>2, <1>5, RingLogFacts, ContentsIs

(* Recording an event pushes it.                                           *)
LEMMA RecordRing ==
    ASSUME NEW b, NEW h, NEW c, RingIs(b, h, c), NEW e \in Entries
    PROVE  LET b2 == [b EXCEPT ![h] = e]
               h2 == (h + 1) % Ring
               c2 == IF c < Ring THEN c + 1 ELSE c
           IN  RingIs(b2, h2, c2) /\ c2 > 0
               /\ RingLog(b2, h2, c2) = Pushed(RingLog(b, h, c), e)
<1> DEFINE b2 == [b EXCEPT ![h] = e]
           h2 == (h + 1) % Ring
           c2 == IF c < Ring THEN c + 1 ELSE c
           new == RingLog(b2, h2, c2)
           old == RingLog(b, h, c)
<1>1. /\ Ring \in Nat /\ Ring > 0 /\ h \in Nat /\ h < Ring /\ h \in 0..(Ring - 1)
      /\ c \in Nat /\ c <= Ring /\ c \in 0..Ring /\ b \in [0..(Ring - 1) -> RingValues]
  BY RingNat DEF RingIs
<1>2. /\ h + 1 < Ring => h2 = h + 1
      /\ h + 1 = Ring => h2 = 0
  <2>1. h + 1 \in Nat
    BY <1>1
  <2>2. /\ h + 1 < Ring => (h + 1) % Ring = h + 1
        /\ Ring <= h + 1 /\ h + 1 < Ring + Ring => (h + 1) % Ring = h + 1 - Ring
    BY <1>1, <2>1, Modulus
  <2> QED BY <1>1, <2>2
<1>c. c2 = (IF c < Ring THEN c + 1 ELSE c) /\ c2 \in 0..Ring /\ c2 > 0
  BY <1>1
<1>4. b2[h] = e /\ \A x \in 0..(Ring - 1) : x # h => b2[x] = b[x]
  BY <1>1
<1>b. b2 \in [0..(Ring - 1) -> RingValues]
  BY <1>1 DEF RingValues
<1> HIDE DEF b2, h2, c2
<1>h. h2 \in 0..(Ring - 1)
  BY <1>1, <1>2
<1>3. RingIs(b2, h2, c2)
  BY <1>c, <1>h, <1>b DEF RingIs
<1>5. /\ Len(old) = c /\ old \in Seq(RingValues) /\ e \in RingValues
      /\ \A i \in 1..c : old[i] = b[Place(h, c, i - 1)]
  BY RingLogFacts DEF RingValues
<1>6. /\ Len(new) = c2 /\ new \in Seq(RingValues)
      /\ \A i \in 1..c2 : new[i] = b2[Place(h2, c2, i - 1)]
  BY <1>3, RingLogFacts
<1> HIDE DEF new, old
<1>9. CASE c < Ring
  <2>1. c2 = c + 1
    BY <1>9, <1>c
  <2>2. /\ Len(Pushed(old, e)) = c + 1 /\ Pushed(old, e)[c + 1] = e
        /\ \A i \in 1..c : Pushed(old, e)[i] = old[i]
        /\ Pushed(old, e) \in Seq(RingValues)
    <3>1. Len(old) < Ring
      BY <1>5, <1>9
    <3>2. /\ Len(Pushed(old, e)) = Len(old) + 1 /\ Pushed(old, e)[Len(old) + 1] = e
          /\ \A i \in 1..Len(old) : Pushed(old, e)[i] = old[i]
          /\ Pushed(old, e) \in Seq(RingValues)
      <4>1. old \in Seq(RingValues) /\ e \in RingValues
        BY <1>5
      <4>2. /\ Len(Pushed(old, e)) = Len(old) + 1 /\ Pushed(old, e)[Len(old) + 1] = e
            /\ \A i \in 1..Len(old) : Pushed(old, e)[i] = old[i]
        BY <4>1, <3>1, PushedFacts
      <4>3. Pushed(old, e) \in Seq(RingValues)
        BY <4>1, PushedFacts
      <4> QED BY <4>2, <4>3
    <3> QED BY <1>5, <3>2
  <2>3. ASSUME NEW i \in 1..(c + 1) PROVE new[i] = Pushed(old, e)[i]
    <3>1. i - 1 \in 0..(c2 - 1) /\ i \in 1..c2
      BY <1>1, <2>1
    <3>4. new[i] = b2[Place(h2, c2, i - 1)]
      BY <1>6, <3>1
    <3>5. /\ Place(h2, c2, i - 1) \in 0..(Ring - 1)
          /\ h2 - c2 + (i - 1) >= 0 => Place(h2, c2, i - 1) = h2 - c2 + (i - 1)
          /\ h2 - c2 + (i - 1) < 0 => Place(h2, c2, i - 1) = h2 - c2 + (i - 1) + Ring
      BY <1>c, <1>h, <3>1, PlaceIs
    <3>2. CASE i = c + 1
      <4>1. Place(h2, c2, i - 1) = h
        BY <1>1, <1>2, <2>1, <3>2, <3>5
      <4> QED BY <1>4, <2>2, <3>2, <3>4, <4>1
    <3>3. CASE i # c + 1
      <4>1. i - 1 \in 0..(c - 1) /\ i \in 1..c
        BY <1>1, <3>3
      <4>2. /\ Place(h, c, i - 1) \in 0..(Ring - 1)
            /\ h - c + (i - 1) >= 0 => Place(h, c, i - 1) = h - c + (i - 1)
            /\ h - c + (i - 1) < 0 => Place(h, c, i - 1) = h - c + (i - 1) + Ring
        BY <1>1, <4>1, PlaceIs
      <4>4. Place(h2, c2, i - 1) = Place(h, c, i - 1) /\ Place(h, c, i - 1) # h
        BY <1>1, <1>2, <1>9, <2>1, <4>1, <4>2, <3>5
      <4> QED BY <1>4, <1>5, <2>2, <3>4, <4>1, <4>2, <4>4
    <3> QED BY <3>2, <3>3
  <2>4. new = Pushed(old, e)
    BY <1>1, <1>6, <2>1, <2>2, <2>3
  <2> QED BY <1>c, <1>3, <2>4 DEF new, old, b2, h2, c2
<1>10. CASE c = Ring
  <2>1. c2 = Ring
    BY <1>1, <1>10, <1>c
  <2>2. /\ Len(Pushed(old, e)) = Ring /\ Pushed(old, e)[Ring] = e
        /\ \A i \in 1..(Ring - 1) : Pushed(old, e)[i] = old[i + 1]
        /\ Pushed(old, e) \in Seq(RingValues)
    <3>1. Len(old) = Ring
      BY <1>5, <1>10
    <3>2. old \in Seq(RingValues) /\ e \in RingValues
      BY <1>5
    <3>3. /\ Len(Pushed(old, e)) = Ring /\ Pushed(old, e)[Ring] = e
          /\ \A i \in 1..(Ring - 1) : Pushed(old, e)[i] = old[i + 1]
      BY <1>1, <3>1, <3>2, PushedFull
    <3>4. Pushed(old, e) \in Seq(RingValues)
      BY <3>2, PushedFacts
    <3> QED BY <3>3, <3>4
  <2>3. ASSUME NEW i \in 1..Ring PROVE new[i] = Pushed(old, e)[i]
    <3>1. i - 1 \in 0..(c2 - 1) /\ i \in 1..c2
      BY <1>1, <2>1
    <3>4. new[i] = b2[Place(h2, c2, i - 1)]
      BY <1>6, <3>1
    <3>5. /\ Place(h2, c2, i - 1) \in 0..(Ring - 1)
          /\ h2 - c2 + (i - 1) >= 0 => Place(h2, c2, i - 1) = h2 - c2 + (i - 1)
          /\ h2 - c2 + (i - 1) < 0 => Place(h2, c2, i - 1) = h2 - c2 + (i - 1) + Ring
      BY <1>c, <1>h, <3>1, PlaceIs
    <3>2. CASE i = Ring
      <4>1. Place(h2, c2, i - 1) = h
        BY <1>1, <1>2, <2>1, <3>2, <3>5
      <4> QED BY <1>4, <2>2, <3>2, <3>4, <4>1
    <3>3. CASE i # Ring
      <4>1. /\ i \in 0..(c - 1) /\ i + 1 \in 1..c /\ i \in 1..(Ring - 1)
            /\ (i + 1) - 1 = i
        BY <1>1, <1>10, <3>3
      <4>2. /\ Place(h, c, i) \in 0..(Ring - 1)
            /\ h - c + i >= 0 => Place(h, c, i) = h - c + i
            /\ h - c + i < 0 => Place(h, c, i) = h - c + i + Ring
        BY <1>1, <4>1, PlaceIs
      <4>4. Place(h2, c2, i - 1) = Place(h, c, i) /\ Place(h, c, i) # h
        BY <1>1, <1>2, <1>10, <2>1, <4>1, <4>2, <3>5
      <4>6. old[i + 1] = b[Place(h, c, i)]
        BY <1>5, <4>1
      <4> QED BY <1>4, <2>2, <3>4, <4>1, <4>2, <4>4, <4>6
    <3> QED BY <3>2, <3>3
  <2>4. new = Pushed(old, e)
    BY <1>1, <1>6, <2>1, <2>2, <2>3
  <2> QED BY <1>c, <1>3, <2>4 DEF new, old, b2, h2, c2
<1> QED BY <1>1, <1>9, <1>10

(* A boot loads the log it restores into the ring.                         *)
LEMMA LoadRing ==
    ASSUME NEW log \in Seq(Entries), Len(log) <= Ring
    PROVE  LET b == [i \in 0..(Ring - 1) |-> IF i < Len(log) THEN log[i + 1] ELSE Erased]
           IN  /\ RingIs(b, Len(log) % Ring, Len(log))
               /\ RingLog(b, Len(log) % Ring, Len(log)) = log
<1> DEFINE b == [i \in 0..(Ring - 1) |-> IF i < Len(log) THEN log[i + 1] ELSE Erased]
           c == Len(log)
           h == Len(log) % Ring
<1>1. Ring \in Nat /\ Ring > 0 /\ c \in Nat /\ c <= Ring /\ c \in 0..Ring
  BY RingNat
<1>3. \A i \in 0..(Ring - 1) : i < c => log[i + 1] \in Entries
  BY <1>1
<1>b. b \in [0..(Ring - 1) -> RingValues]
  BY <1>3 DEF RingValues
<1>a. \A i \in 0..(Ring - 1) : i < c => b[i] = log[i + 1]
  OBVIOUS
<1>d. log \in [1..c -> Entries]
  OBVIOUS
<1>e. h = c % Ring
  OBVIOUS
<1> HIDE DEF c, h, b
<1>2. (c < Ring => h = c) /\ (c = Ring => h = 0)
  <2>1. /\ c < Ring => c % Ring = c
        /\ Ring <= c /\ c < Ring + Ring => c % Ring = c - Ring
    BY <1>1, Modulus
  <2> QED BY <1>1, <1>e, <2>1
<1>h. h \in 0..(Ring - 1)
  BY <1>1, <1>2
<1>4. RingIs(b, h, c)
  BY <1>1, <1>h, <1>b DEF RingIs
<1>5. /\ DOMAIN RingLog(b, h, c) = 1..c /\ RingLog(b, h, c) \in Seq(RingValues)
      /\ \A i \in 1..c : RingLog(b, h, c)[i] = b[Place(h, c, i - 1)]
  BY <1>4, RingLogFacts
<1>6. ASSUME NEW i \in 1..c PROVE RingLog(b, h, c)[i] = log[i]
  <2>1. /\ i - 1 \in 0..(c - 1) /\ i - 1 \in 0..(Ring - 1) /\ i - 1 < c
        /\ (i - 1) + 1 = i
    BY <1>1
  <2>2. /\ h - c + (i - 1) >= 0 => Place(h, c, i - 1) = h - c + (i - 1)
        /\ h - c + (i - 1) < 0 => Place(h, c, i - 1) = h - c + (i - 1) + Ring
    BY <1>1, <1>h, <2>1, PlaceIs
  <2>3. Place(h, c, i - 1) = i - 1
    BY <1>1, <1>2, <2>1, <2>2
  <2> QED BY <1>5, <1>a, <2>1, <2>3
<1>7. RingLog(b, h, c) = log
  <2>1. RingLog(b, h, c) = [i \in 1..c |-> RingLog(b, h, c)[i]]
    BY <1>5
  <2>2. log = [i \in 1..c |-> log[i]]
    BY <1>d
  <2> QED BY <1>6, <2>1, <2>2
<1> QED BY <1>4, <1>7 DEF c, h, b

(* Stamping an event in its place of the ring stamps it in the log.        *)
LEMMA StampRing ==
    ASSUME NEW b, NEW h, NEW c, RingIs(b, h, c), NEW k \in 1..c,
           RingLog(b, h, c)[k] \in Entries, NEW e \in Entries
    PROVE  LET b2 == [b EXCEPT ![Place(h, c, k - 1)] = e]
           IN  RingIs(b2, h, c) /\ RingLog(b2, h, c) = [RingLog(b, h, c) EXCEPT ![k] = e]
<1> DEFINE p == Place(h, c, k - 1)
           b2 == [b EXCEPT ![p] = e]
           old == RingLog(b, h, c)
           new == RingLog(b2, h, c)
<1>1. /\ Ring \in Nat /\ c \in Nat /\ c <= Ring /\ c \in 0..Ring /\ h \in 0..(Ring - 1)
      /\ b \in [0..(Ring - 1) -> RingValues] /\ k - 1 \in 0..(c - 1)
  BY RingNat DEF RingIs
<1>2. p \in 0..(Ring - 1)
  BY <1>1, PlaceIs
<1>p. \A i \in 1..c : i # k => Place(h, c, i - 1) # p
  <2> SUFFICES ASSUME NEW i \in 1..c, i # k PROVE Place(h, c, i - 1) # p
    OBVIOUS
  <2>1. i - 1 \in 0..(c - 1) /\ i - 1 # k - 1
    BY <1>1
  <2> QED BY <1>1, <2>1, PlaceDistinct
<1>q. p = Place(h, c, k - 1)
  OBVIOUS
<1> HIDE DEF p
<1>3. b2 \in [0..(Ring - 1) -> RingValues] /\ b2[p] = e
  BY <1>1, <1>2 DEF RingValues
<1>4. \A x \in 0..(Ring - 1) : x # p => b2[x] = b[x]
  BY <1>1, <1>2
<1> HIDE DEF b2
<1>5. RingIs(b2, h, c)
  BY <1>1, <1>3 DEF RingIs
<1>6. DOMAIN old = 1..c /\ \A i \in 1..c : old[i] = b[Place(h, c, i - 1)]
  BY RingLogFacts
<1>o. old = [i \in 1..c |-> old[i]]
  BY <1>6 DEF RingLog
<1>7. /\ DOMAIN new = 1..c /\ \A i \in 1..c : new[i] = b2[Place(h, c, i - 1)]
      /\ new = [i \in 1..c |-> new[i]]
  <2>1. DOMAIN new = 1..c /\ \A i \in 1..c : new[i] = b2[Place(h, c, i - 1)]
    BY <1>5, RingLogFacts
  <2> QED BY <2>1 DEF RingLog
<1> HIDE DEF old, new
<1>8. \A i \in 1..c : new[i] = IF i = k THEN e ELSE old[i]
  <2> SUFFICES ASSUME NEW i \in 1..c PROVE new[i] = IF i = k THEN e ELSE old[i]
    OBVIOUS
  <2>1. i - 1 \in 0..(c - 1)
    BY <1>1
  <2>2. Place(h, c, i - 1) \in 0..(Ring - 1)
    BY <1>1, <2>1, PlaceIs
  <2> QED BY <1>3, <1>4, <1>6, <1>7, <1>p, <1>q, <2>2
<1>9. new = [old EXCEPT ![k] = e]
  BY <1>7, <1>8, <1>o, <1>6
<1> QED BY <1>5, <1>9 DEF p, b2, new, old

-----------------------------------------------------------------------------
(* The log on flash, as a function of headers and records                  *)

Headers == [Banks -> [gen : Nat, committed : BOOLEAN]]
Records == [Banks -> Cells]

ChosenIn(h) ==
    CASE h[0].committed /\ h[1].committed -> IF h[1].gen > h[0].gen THEN 1 ELSE 0
      [] h[0].committed /\ ~h[1].committed -> 0
      [] ~h[0].committed /\ h[1].committed -> 1
      [] OTHER -> NoBank

DiskIn(h, r) == IF ChosenIn(h) = NoBank THEN <<>> ELSE Replay(r[ChosenIn(h)])

(* The log on flash before and after a step.                               *)
LEMMA DiskIs ==
    /\ Chosen = ChosenIn(hdr) /\ Disk = DiskIn(hdr, rec)
    /\ Disk' = DiskIn(hdr', rec')
BY DEF Disk, DiskIn, Chosen, ChosenIn, HeaderValid

(* There are two banks.                                                    *)
LEMMA BankFacts == NoBank \notin Banks /\ 0 \in Banks /\ 1 \in Banks
                   /\ \A b \in Banks : 1 - b \in Banks /\ 1 - b # b /\ (\A a \in Banks : a = b \/ a = 1 - b)
BY DEF Banks, NoBank

(* Without a committed bank nothing is restored.                           *)
LEMMA NothingChosen ==
    ASSUME NEW h \in Headers, \A b \in Banks : ~h[b].committed
    PROVE  ChosenIn(h) = NoBank /\ \A r : DiskIn(h, r) = <<>>
<1>1. ~h[0].committed /\ ~h[1].committed
  BY BankFacts
<1>2. ChosenIn(h) = NoBank
  BY <1>1 DEF ChosenIn
<1> QED BY <1>2 DEF DiskIn

(* A committed bank younger than the other one is restored.                *)
LEMMA YoungestChosen ==
    ASSUME NEW h \in Headers, NEW b \in Banks, h[b].committed,
           h[1 - b].committed => h[1 - b].gen < h[b].gen
    PROVE  ChosenIn(h) = b /\ \A r : DiskIn(h, r) = Replay(r[b])
<1>1. /\ h[0].gen \in Nat /\ h[1].gen \in Nat
      /\ h[0].committed \in BOOLEAN /\ h[1].committed \in BOOLEAN
  BY BankFacts DEF Headers
<1>2. ChosenIn(h) = b
  <2>1. CASE b = 0
    BY <1>1, <2>1 DEF ChosenIn
  <2>2. CASE b = 1
    BY <1>1, <2>2 DEF ChosenIn
  <2> QED BY <2>1, <2>2 DEF Banks
<1> QED BY <1>2, BankFacts DEF DiskIn

(* The log on flash is always a log.                                       *)
LEMMA DiskLog ==
    ASSUME NEW h \in Headers, NEW r \in Records
    PROVE  DiskIn(h, r) \in Logs(Entries)
<1>1. ChosenIn(h) \in Banks \cup {NoBank}
  <2>1. h[0].committed \in BOOLEAN /\ h[1].committed \in BOOLEAN
    BY BankFacts DEF Headers
  <2> QED BY <2>1, BankFacts DEF ChosenIn
<1>2. <<>> \in Logs(Entries)
  BY RingNat DEF Logs, Distinct
<1>3. CASE ChosenIn(h) = NoBank
  BY <1>2, <1>3 DEF DiskIn
<1>4. CASE ChosenIn(h) \in Banks
  <2>1. r[ChosenIn(h)] \in Cells
    BY <1>4 DEF Records
  <2> QED BY <1>4, <2>1, BankFacts, ReplayAny DEF DiskIn
<1> QED BY <1>1, <1>3, <1>4

(* One slot of one bank is written.                                        *)
LEMMA CellWrite ==
    ASSUME NEW r \in Records, NEW b \in Banks, NEW s \in 1..Slots, NEW x \in CellValues
    PROVE  LET r2 == [r EXCEPT ![b][s] = x] IN
           /\ r2 \in Records
           /\ r2[b] = [r[b] EXCEPT ![s] = x] /\ r2[b] \in Cells /\ r2[b][s] = x
           /\ \A t \in 1..Slots : t # s => r2[b][t] = r[b][t]
           /\ \A a \in Banks : a # b => r2[a] = r[a]
<1> DEFINE c == [r[b] EXCEPT ![s] = x]
           r2 == [r EXCEPT ![b] = c]
<1>1. r[b] \in Cells
  BY DEF Records
<1>2. c \in Cells /\ c[s] = x /\ \A t \in 1..Slots : t # s => c[t] = r[b][t]
  BY <1>1 DEF Cells
<1> HIDE DEF c
<1>3. r2 \in Records /\ r2[b] = c /\ \A a \in Banks : a # b => r2[a] = r[a]
  BY <1>2 DEF Records
<1> QED BY <1>2, <1>3 DEF c

(* A bank is replaced.                                                     *)
LEMMA BankWrite ==
    ASSUME NEW r \in Records, NEW b \in Banks, NEW c \in Cells
    PROVE  LET r2 == [r EXCEPT ![b] = c] IN
           r2 \in Records /\ r2[b] = c /\ \A a \in Banks : a # b => r2[a] = r[a]
BY DEF Records

(* An erased bank.                                                         *)
LEMMA BlankCells == BlankBank \in Cells /\ \A s \in 1..Slots : BlankBank[s] = Erased
BY CellFacts DEF BlankBank, Cells

(* What a programmed slot holds.                                           *)
LEMMA ProgrammedIs ==
    ASSUME NEW old \in CellValues, NEW e \in RingValues
    PROVE  /\ Programmed(old, e) \in CellValues
           /\ Programmed(old, e) # e => Programmed(old, e) = Torn
           /\ old = Erased => Programmed(old, e) = e
           /\ old # Erased => Programmed(old, e) = Torn
           /\ e \in Entries => Programmed(old, e) # Erased
BY CellFacts DEF Programmed, RingValues, CellValues

-----------------------------------------------------------------------------
(* What a flash operation that stops half-way leaves behind                *)

AppendCells == {Torn, Programmed(rec[active][nextRec + 1], AppendEntry)}
CopyCells   == {Torn, Programmed(rec[Target][written + 1], Contents[written + 1])}

HalfAppend(h, r) ==
    Appending /\ h = hdr /\ \E x \in AppendCells : r = [rec EXCEPT ![active][nextRec + 1] = x]

HalfErase(h, r) ==
    /\ pc = "erase"
    /\ h \in {hdr, [hdr EXCEPT ![Target] = NoHeader]}
    /\ r \in {rec, [rec EXCEPT ![Target] = BlankBank]}

HalfCopy(h, r) ==
    /\ pc = "copy" /\ written < count /\ h = hdr
    /\ \E x \in CopyCells : r = [rec EXCEPT ![Target][written + 1] = x]

HalfHeader(h, r) == pc = "header" /\ r = rec /\ h = [hdr EXCEPT ![Target].gen = gen + 1]

Switched(h, r) == pc = "commit" /\ r = rec /\ h = [hdr EXCEPT ![Target].committed = TRUE]

(* A loss of power leaves the flash as it was, or what some part of the    *)
(* operation under way produces.                                           *)
LEMMA PartialIs ==
    ASSUME NEW f \in PartialFlash
    PROVE  \/ f[1] = hdr /\ f[2] = rec
           \/ HalfAppend(f[1], f[2]) \/ HalfErase(f[1], f[2]) \/ HalfCopy(f[1], f[2])
           \/ HalfHeader(f[1], f[2]) \/ Switched(f[1], f[2])
<1>1. CASE Appending
  <2>1. f \in {hdr} \X PartialRecord(active, nextRec + 1, AppendEntry)
    <3>1. pc \notin {"erase", "copy", "header", "commit"}
      BY <1>1 DEF Appending
    <3> QED BY <1>1, <3>1 DEF PartialFlash
  <2> QED BY <1>1, <2>1 DEF PartialRecord, HalfAppend, AppendCells
<1>2. CASE pc = "erase"
  <2>1. ~Appending
    BY <1>2 DEF Appending
  <2>2. f \in {hdr, [hdr EXCEPT ![Target] = NoHeader]} \X {rec, [rec EXCEPT ![Target] = BlankBank]}
    BY <1>2, <2>1 DEF PartialFlash
  <2> QED BY <1>2, <2>2 DEF HalfErase
<1>3. CASE pc = "copy" /\ written < count
  <2>1. ~Appending
    BY <1>3 DEF Appending
  <2>2. f \in {hdr} \X PartialRecord(Target, written + 1, Contents[written + 1])
    BY <1>3, <2>1 DEF PartialFlash
  <2> QED BY <1>3, <2>2 DEF PartialRecord, HalfCopy, CopyCells
<1>4. CASE pc = "header"
  <2>1. ~Appending
    BY <1>4 DEF Appending
  <2>2. f \in {hdr, [hdr EXCEPT ![Target].gen = gen + 1]} \X {rec}
    BY <1>4, <2>1 DEF PartialFlash
  <2> QED BY <1>4, <2>2 DEF HalfHeader
<1>5. CASE pc = "commit"
  <2>1. ~Appending
    BY <1>5 DEF Appending
  <2>2. f \in {hdr, [hdr EXCEPT ![Target].committed = TRUE]} \X {rec}
    BY <1>5, <2>1 DEF PartialFlash
  <2> QED BY <1>5, <2>2 DEF Switched
<1>6. CASE ~Appending /\ pc \notin {"erase", "header", "commit"} /\ ~(pc = "copy" /\ written < count)
  BY <1>6 DEF PartialFlash
<1> QED BY <1>1, <1>2, <1>3, <1>4, <1>5, <1>6

(* An operation that reports an error leaves the same, but never a commit  *)
(* word.                                                                   *)
LEMMA FaultIs ==
    ASSUME Fault
    PROVE  /\ faults < MaxFaults /\ faults' = faults + 1 /\ sound' = FALSE
           /\ \/ hdr' = hdr /\ rec' = rec
              \/ HalfAppend(hdr', rec') \/ HalfErase(hdr', rec') \/ HalfCopy(hdr', rec')
              \/ HalfHeader(hdr', rec')
<1>1. PICK f \in FaultFlash : hdr' = f[1] /\ rec' = f[2]
  BY DEF Fault
<1>2. faults < MaxFaults /\ faults' = faults + 1 /\ sound' = FALSE
  BY DEF Fault
<1>3. CASE pc = "commit"
  <2>1. f = <<hdr, rec>>
    BY <1>1, <1>3 DEF FaultFlash
  <2> QED BY <1>1, <1>2, <2>1
<1>4. CASE pc # "commit"
  <2>1. f \in PartialFlash
    BY <1>1, <1>4 DEF FaultFlash
  <2>2. ~Switched(f[1], f[2])
    BY <1>4 DEF Switched
  <2> QED BY <1>1, <1>2, <2>1, <2>2, PartialIs
<1> QED BY <1>3, <1>4

-----------------------------------------------------------------------------
(* The inductive invariant                                                 *)

(* The steps of a compaction or of formatting a bank.                      *)
Job == {"erase", "copy", "header", "commit"}

(* What the program counter says of the other variables.  An append that   *)
(* failed is waiting for its compaction, or is the tail of a broken bank.  *)
PhaseInv ==
    /\ pc \in {"append", "backfill"} \cup Job => gen < MaxGen
    /\ pc = "off" => count = 0 /\ ~ready
    /\ pc # "backfill" => todo = {} /\ ~compact
    /\ pc = "append" \/ compact \/ tail # "whole" \/ stored => ready
    /\ tail = "failed" => pc \in Job \/ compact
    /\ ready => active # NoBank
    /\ active = NoBank => gen = 0
    /\ pc \in {"off", "start"} => ~stored

(* The ring holds events with different ids, older than the next id.       *)
RamInv ==
    /\ Contents \in Logs(Entries)
    /\ \A i \in 1..count : Contents[i].id < nextId
    /\ todo \subseteq {IndexOf(i - 1) : i \in 1..count}
    /\ pc = "append" => count > 0 /\ Contents[count].id = nextId - 1

(* Records fill a bank from its first slot on; the position of the program *)
(* is behind the last one, and its bank knows no id that it will give out. *)
Packed(cells) ==
    \A s, t \in 1..Slots : s < t /\ cells[s] = Erased => cells[t] = Erased

SlotInv ==
    /\ \A b \in Banks : Packed(rec[b])
    /\ ready => \A s \in 1..Slots :
            /\ rec[active][s].id < IF pc = "append" THEN nextId - 1 ELSE nextId
            /\ s <= nextRec => rec[active][s] # Erased
    /\ ready /\ tail = "whole" => Whole(rec[active], nextRec)

(* The replacement bank holds what was copied, and nothing else.           *)
CopyInv ==
    /\ pc \in {"copy", "header", "commit"} =>
        /\ written <= count
        /\ \A s \in 1..Slots : rec[Target][s] = IF s <= written THEN Contents[s] ELSE Erased
    /\ pc \in {"header", "commit"} => written = count

(* While the bank is whole and has room, the flash knows every event the   *)
(* program reports but the one it is about to append.                      *)
SuffixInv ==
    ready /\ tail = "whole" =>
        /\ pc \in {"start", "idle"} /\ (nextRec < Slots \/ stored) => Suffix(Contents, Disk)
        /\ pc = "append" /\ nextRec < Slots => Suffix(Contents, Pushed(Disk, buf[Newest]))
        /\ pc = "backfill" /\ ~compact /\ (nextRec < Slots \/ todo = {})
            => Suffix(Contents, Disk)
        /\ pc \in Job \/ compact => nextRec = Slots \/ count = 0

(* Without failures flash and ring agree between two operations.           *)
SoundInv ==
    sound =>
        /\ tail = "whole"
        /\ pc \in {"start", "idle", "backfill"} => ready
        /\ pc \in {"start", "idle"} \/ (pc = "backfill" /\ ~compact) => Disk = Contents
        /\ pc = "append" => Contents = Pushed(Disk, buf[Newest])

JournalInv ==
    /\ JournalTypeOK /\ BankInv /\ PhaseInv
    /\ RamInv /\ SlotInv /\ CopyInv /\ SuffixInv /\ SoundInv

(* What the types say, in the terms of the lemmas above.                   *)
LEMMA TypeFacts ==
    ASSUME JournalTypeOK, BankInv
    PROVE  /\ hdr \in Headers /\ rec \in Records /\ RingIs(buf, head, count)
           /\ gen \in Nat /\ nextRec \in Nat /\ nextRec <= Slots /\ written \in Nat
           /\ count \in Nat /\ count <= Ring /\ nextId \in Nat /\ nextId >= 1
           /\ Target \in Banks
           /\ active # NoBank => active \in Banks /\ Target = 1 - active /\ Target # active
           /\ Len(Contents) = count /\ DOMAIN Contents = 1..count /\ Contents \in Seq(RingValues)
<1>1. hdr \in Headers /\ rec \in Records /\ RingIs(buf, head, count)
  BY DEF JournalTypeOK, BankInv, Headers, Records, Cells, CellValues, RingIs, RingValues
<1>2. /\ gen \in Nat /\ nextRec \in Nat /\ nextRec <= Slots /\ written \in Nat
      /\ count \in Nat /\ count <= Ring /\ nextId \in Nat /\ nextId >= 1
  BY RingNat DEF JournalTypeOK, BankInv
<1>3. /\ Target \in Banks
      /\ active # NoBank => active \in Banks /\ Target = 1 - active /\ Target # active
  BY BankFacts DEF JournalTypeOK, Target
<1>4. Len(Contents) = count /\ DOMAIN Contents = 1..count /\ Contents \in Seq(RingValues)
  BY <1>1, RingLogFacts, ContentsIs
<1> QED BY <1>1, <1>2, <1>3, <1>4

-----------------------------------------------------------------------------
(* What a step does to the flash: nothing, or a flash operation            *)

FlashIdle == hdr' = hdr /\ rec' = rec

(* Every step leaves the flash alone or makes, in whole or in part, the    *)
(* flash operation under way.                                              *)
LEMMA FlashStep ==
    ASSUME Next
    PROVE  \/ FlashIdle
           \/ HalfAppend(hdr', rec') \/ HalfErase(hdr', rec') \/ HalfCopy(hdr', rec')
           \/ HalfHeader(hdr', rec') \/ Switched(hdr', rec')
<1>1. CASE PowerUpEmpty \/ PowerUpLoad \/ RecordStart \/ Record \/ ClockSet \/ TimeSynced \/ Clear
  BY <1>1 DEF PowerUpEmpty, PowerUpLoad, RecordStart, Record, PushEvent, ClockSet, TimeSynced, Clear,
     flash, FlashIdle
<1>2. CASE AppendNoRoom \/ BackfillRamOnly \/ BackfillEnd \/ CopyDone
  BY <1>2 DEF AppendNoRoom, BackfillRamOnly, BackfillEnd, CopyDone, flash, FlashIdle
<1>3. CASE AppendFails \/ BackfillFails \/ JobFails
  BY <1>3, FaultIs DEF AppendFails, BackfillFails, JobFails, FlashIdle
<1>4. CASE PowerCut
  <2>1. PICK f \in PartialFlash : hdr' = f[1] /\ rec' = f[2]
    BY <1>4 DEF PowerCut
  <2> QED BY <2>1, PartialIs DEF FlashIdle
<1>5. CASE AppendOk \/ BackfillOk
  <2>1. /\ Appending /\ hdr' = hdr
        /\ rec' = [rec EXCEPT ![active][nextRec + 1] = Programmed(@, AppendEntry)]
    BY <1>5 DEF AppendOk, BackfillOk
  <2>2. rec' = [rec EXCEPT ![active][nextRec + 1]
                    = Programmed(rec[active][nextRec + 1], AppendEntry)]
    BY <2>1
  <2> QED BY <2>1, <2>2 DEF HalfAppend, AppendCells
<1>6. CASE EraseBank
  BY <1>6 DEF EraseBank, HalfErase
<1>7. CASE CopyRecord
  <2>1. /\ pc = "copy" /\ written < count /\ hdr' = hdr
        /\ rec' = [rec EXCEPT ![Target][written + 1] = Programmed(@, Contents[written + 1])]
    BY <1>7 DEF CopyRecord
  <2>2. rec' = [rec EXCEPT ![Target][written + 1]
                    = Programmed(rec[Target][written + 1], Contents[written + 1])]
    BY <2>1
  <2> QED BY <2>1, <2>2 DEF HalfCopy, CopyCells
<1>8. CASE WriteHeader
  BY <1>8 DEF WriteHeader, HalfHeader
<1>9. CASE CommitBank
  BY <1>9 DEF CommitBank, Switched
<1> QED BY <1>1, <1>2, <1>3, <1>4, <1>5, <1>6, <1>7, <1>8, <1>9 DEF Next

(* The event the back-fill loop stamps next is one of those it has to.     *)
LEMMA StampingIs ==
    ASSUME JournalTypeOK, RamInv, BankInv, todo # {}
    PROVE  /\ Stamping \in todo
           /\ \E k \in 1..count : Stamping = Place(head, count, k - 1) /\ buf[Stamping] = Contents[k]
                                  /\ Contents[k] \in Entries
<1> DEFINE Top(x) == \A y \in todo : buf[y].id <= buf[x].id
           T == {MaxId - buf[y].id : y \in todo}
<1>1. RingIs(buf, head, count) /\ count \in Nat /\ Contents \in Seq(Entries) /\ Len(Contents) = count
  BY TypeFacts DEF RamInv, Logs
<1>2. ASSUME NEW x \in todo
      PROVE  \E k \in 1..count : x = Place(head, count, k - 1) /\ buf[x] = Contents[k]
                                 /\ Contents[k] \in Entries
  <2>1. PICK k \in 1..count : x = Place(head, count, k - 1)
    BY ContentsIs DEF RamInv
  <2>2. Contents[k] = buf[Place(head, count, k - 1)]
    BY <1>1, RingLogFacts, ContentsIs
  <2>3. Contents[k] \in Entries
    BY <1>1
  <2> QED BY <2>1, <2>2, <2>3
<1>3. \A y \in todo : buf[y].id \in 1..MaxId
  BY <1>2 DEF Entries
<1>4. T \in SUBSET Nat /\ T # {}
  BY <1>3, JournalAssumption
<1>5. PICK m \in T : \A k \in T : m <= k
  BY <1>4, LeastNumber
<1>6. PICK x \in todo : m = MaxId - buf[x].id
  BY <1>5
<1>7. Top(x)
  <2> SUFFICES ASSUME NEW y \in todo PROVE buf[y].id <= buf[x].id
    OBVIOUS
  <2>1. MaxId - buf[y].id \in T
    OBVIOUS
  <2>2. MaxId - buf[x].id <= MaxId - buf[y].id
    BY <1>5, <1>6, <2>1
  <2> QED BY <1>3, <2>2, JournalAssumption
<1>8. Stamping = CHOOSE z \in todo : Top(z)
  BY DEF Stamping
<1> HIDE DEF Top
<1>9. Stamping \in todo
  BY <1>6, <1>7, <1>8
<1> QED BY <1>2, <1>9

(* The entry an append writes is an event of the ring.                     *)
LEMMA AppendEntryIs ==
    ASSUME JournalTypeOK, BankInv, RamInv, PhaseInv, Appending
    PROVE  /\ AppendEntry \in Entries /\ active \in Banks /\ nextRec + 1 \in 1..Slots
           /\ ready /\ nextRec < Slots
           /\ pc = "append" => AppendEntry = Contents[count] /\ AppendEntry = buf[Newest]
                               /\ AppendEntry.id = nextId - 1 /\ count \in 1..Len(Contents)
           /\ pc # "append" => pc = "backfill" /\ todo # {} /\ ~compact
<1>1. /\ Contents \in Seq(Entries) /\ Len(Contents) = count /\ count \in Nat
      /\ RingIs(buf, head, count) /\ nextRec \in Nat /\ Slots \in Nat
  BY TypeFacts, RingNat DEF RamInv, Logs
<1>2. ready /\ nextRec < Slots /\ nextRec + 1 \in 1..Slots /\ active \in Banks
  BY <1>1, TypeFacts DEF Appending, PhaseInv
<1>3. CASE pc = "append"
  <2>1. count > 0 /\ Contents[count].id = nextId - 1
    BY <1>3 DEF RamInv
  <2>2. count \in 1..Len(Contents) /\ buf[Newest] = Contents[count]
    BY <1>1, <2>1, NewestIs
  <2>3. Contents[count] \in Entries
    BY <1>1, <2>2
  <2> QED BY <1>2, <1>3, <2>1, <2>2, <2>3 DEF AppendEntry
<1>4. CASE pc # "append"
  <2>1. pc = "backfill" /\ todo # {} /\ ~compact
    BY <1>4 DEF Appending
  <2>2. buf[Stamping] \in Entries
    BY <2>1, StampingIs
  <2>3. [buf[Stamping] EXCEPT !.timed = TRUE] \in Entries
    BY <2>2 DEF Entries
  <2> QED BY <1>2, <1>4, <2>1, <2>3 DEF AppendEntry
<1> QED BY <1>3, <1>4

FlashChange(h, r) ==
    \/ h = hdr /\ r = rec
    \/ HalfAppend(h, r) \/ HalfErase(h, r) \/ HalfCopy(h, r) \/ HalfHeader(h, r) \/ Switched(h, r)

(* No flash operation, whole or partial, leaves values outside the types.  *)
LEMMA FlashTyped ==
    ASSUME JournalTypeOK, BankInv, RamInv, PhaseInv, NEW h, NEW r, FlashChange(h, r)
    PROVE  h \in [Banks -> [gen : 0..MaxGen, committed : BOOLEAN]] /\ r \in Records
<1> DEFINE H == [gen : 0..MaxGen, committed : BOOLEAN]
<1>1. hdr \in [Banks -> H] /\ rec \in Records /\ Target \in Banks /\ gen \in Nat /\ MaxGen \in Nat
  BY TypeFacts, JournalAssumption DEF JournalTypeOK
<1>2. CASE h = hdr /\ r = rec
  BY <1>1, <1>2
<1>3. CASE HalfAppend(h, r)
  <2>1. h = hdr /\ Appending
    BY <1>3 DEF HalfAppend
  <2>2. PICK x \in AppendCells : r = [rec EXCEPT ![active][nextRec + 1] = x]
    BY <1>3 DEF HalfAppend
  <2>3. AppendEntry \in Entries /\ active \in Banks /\ nextRec + 1 \in 1..Slots
    BY <2>1, AppendEntryIs
  <2>4. rec[active][nextRec + 1] \in CellValues /\ AppendEntry \in RingValues
    BY <1>1, <2>3 DEF Records, Cells, RingValues
  <2>5. x \in CellValues
    BY <2>4, ProgrammedIs, CellFacts DEF AppendCells
  <2> QED BY <1>1, <2>1, <2>2, <2>3, <2>5, CellWrite
<1>4. CASE HalfErase(h, r)
  <2>1. NoHeader \in H
    BY <1>1 DEF NoHeader
  <2>2. h \in [Banks -> H]
    BY <1>1, <1>4, <2>1 DEF HalfErase
  <2>3. r \in Records
    BY <1>1, <1>4, BankWrite, BlankCells DEF HalfErase
  <2> QED BY <2>2, <2>3
<1>5. CASE HalfCopy(h, r)
  <2>1. h = hdr /\ written < count
    BY <1>5 DEF HalfCopy
  <2>2. PICK x \in CopyCells : r = [rec EXCEPT ![Target][written + 1] = x]
    BY <1>5 DEF HalfCopy
  <2>3. written \in Nat /\ count \in Nat /\ count <= Ring /\ Slots \in Nat /\ Ring \in Nat /\ Ring < Slots
        /\ Contents \in Seq(RingValues) /\ Len(Contents) = count
    BY TypeFacts, RingNat
  <2>4. written + 1 \in 1..Slots /\ written + 1 \in 1..Len(Contents)
    BY <2>1, <2>3
  <2>5. rec[Target][written + 1] \in CellValues /\ Contents[written + 1] \in RingValues
    BY <1>1, <2>3, <2>4 DEF Records, Cells
  <2>6. x \in CellValues
    BY <2>5, ProgrammedIs, CellFacts DEF CopyCells
  <2> QED BY <1>1, <2>1, <2>2, <2>4, <2>6, CellWrite
<1>6. CASE HalfHeader(h, r)
  <2>1. gen + 1 \in 0..MaxGen
    BY <1>1, <1>6 DEF HalfHeader, PhaseInv, Job
  <2>2. hdr[Target] \in H
    BY <1>1
  <2>3. [hdr[Target] EXCEPT !.gen = gen + 1] \in H
    BY <2>1, <2>2
  <2>4. h = [hdr EXCEPT ![Target] = [hdr[Target] EXCEPT !.gen = gen + 1]] /\ r = rec
    BY <1>6 DEF HalfHeader
  <2> QED BY <1>1, <2>3, <2>4
<1>7. CASE Switched(h, r)
  <2>2. hdr[Target] \in H
    BY <1>1
  <2>3. [hdr[Target] EXCEPT !.committed = TRUE] \in H
    BY <2>2
  <2>4. h = [hdr EXCEPT ![Target] = [hdr[Target] EXCEPT !.committed = TRUE]] /\ r = rec
    BY <1>7 DEF Switched
  <2> QED BY <1>1, <2>3, <2>4
<1> QED BY <1>2, <1>3, <1>4, <1>5, <1>6, <1>7 DEF FlashChange

(* The types of the flash are preserved.                                   *)
LEMMA FlashTypesNext ==
    ASSUME JournalInv, Next
    PROVE  hdr' \in [Banks -> [gen : 0..MaxGen, committed : BOOLEAN]] /\ rec' \in Records
BY FlashStep, FlashTyped DEF JournalInv, FlashChange, FlashIdle

(* The log a boot restores fits the ring, and its ids are below the next.  *)
LEMMA LoadIs ==
    ASSUME JournalTypeOK, BankInv, pc = "off", Chosen # NoBank
    PROVE  /\ Disk \in Logs(Entries) /\ Disk \in Seq(Entries) /\ Len(Disk) \in Nat /\ Len(Disk) <= Ring
           /\ Chosen \in Banks /\ rec[Chosen] \in Cells
           /\ NextIdOf(rec[Chosen]) \in 1..(MaxId + 1)
           /\ \A i \in 1..Len(Disk) : Disk[i].id < NextIdOf(rec[Chosen])
           /\ ValidCount(rec[Chosen]) \in 0..Slots
           /\ hdr[Chosen].gen \in 0..MaxGen
<1>1. hdr \in Headers /\ rec \in Records
  BY TypeFacts
<1>2. Chosen \in Banks
  BY ChosenIsYoungest
<1>3. rec[Chosen] \in Cells
  BY <1>1, <1>2 DEF Records
<1>4. Disk = Replay(rec[Chosen])
  BY DEF Disk
<1> DEFINE c == rec[Chosen]
<1> HIDE DEF c
<1>5. c \in Cells
  BY <1>3 DEF c
<1>6. Replay(c) \in Logs(Entries) /\ \A i \in 1..Len(Replay(c)) : \E s \in 1..ValidCount(c) : Replay(c)[i].id = c[s].id
  BY <1>5, ReplayAny
<1>7. NextIdOf(c) \in 1..(MaxId + 1) /\ \A s \in 1..ValidCount(c) : c[s].id < NextIdOf(c)
  BY <1>5, NextIdIs
<1>8. ValidCount(c) \in 0..Slots
  BY <1>5, ValidCountExists
<1>9. \A i \in 1..Len(Replay(c)) : Replay(c)[i].id < NextIdOf(c)
  BY <1>6, <1>7
<1>10. Replay(c) \in Seq(Entries) /\ Len(Replay(c)) \in Nat /\ Len(Replay(c)) <= Ring
  BY <1>6 DEF Logs
<1>11. hdr[Chosen].gen \in 0..MaxGen
  BY <1>2 DEF JournalTypeOK
<1> QED BY <1>2, <1>3, <1>4, <1>6, <1>7, <1>8, <1>9, <1>10, <1>11 DEF c

-----------------------------------------------------------------------------
(* Types and phases                                                        *)

(* The types of everything but the flash.                                  *)
RamTypes == RingIs(buf, head, count) /\ nextId \in 1..(MaxId + 1) /\ firstId \in 1..(MaxId + 1)

ControlTypes ==
    /\ clock \in BOOLEAN /\ ready \in BOOLEAN
    /\ active \in Banks \cup {NoBank} /\ gen \in 0..MaxGen /\ nextRec \in 0..Slots
    /\ pc \in {"off", "start", "idle", "append", "backfill"} \cup Job
    /\ todo \subseteq 0..(Ring - 1) /\ compact \in BOOLEAN /\ written \in 0..Ring
    /\ faults \in 0..MaxFaults /\ stored \in BOOLEAN
    /\ sound \in BOOLEAN /\ tail \in {"whole", "failed", "broken"}

(* The type invariant by parts: flash, ring, control.                      *)
LEMMA TypeParts ==
    /\ JournalTypeOK <=> /\ hdr \in [Banks -> [gen : 0..MaxGen, committed : BOOLEAN]]
                         /\ rec \in Records /\ RamTypes /\ ControlTypes
    /\ JournalTypeOK' <=> /\ hdr' \in [Banks -> [gen : 0..MaxGen, committed : BOOLEAN]]
                          /\ rec' \in Records /\ RamTypes' /\ ControlTypes'
BY DEF JournalTypeOK, RamTypes, ControlTypes, Records, Cells, CellValues, RingIs, RingValues, Job

(* The types of the ring are preserved.                                    *)
LEMMA RamTypesNext ==
    ASSUME JournalInv, Next
    PROVE  RamTypes'
<1> RamTypes /\ JournalTypeOK /\ BankInv /\ RamInv /\ PhaseInv
  BY TypeParts DEF JournalInv
<1>f. ASSUME UNCHANGED <<buf, head, count, nextId, firstId>> PROVE RamTypes'
  BY <1>f DEF RamTypes, RingIs
<1>z. ASSUME buf' = [i \in 0..(Ring - 1) |-> Erased], head' = 0, count' = 0 PROVE RingIs(buf', head', count')
  BY <1>z, RingNat DEF RingIs, RingValues
<1>1. CASE PowerUpLoad
  <2>1. /\ buf' = [i \in 0..(Ring - 1) |-> IF i < Len(Disk) THEN Disk[i + 1] ELSE Erased]
        /\ count' = Len(Disk) /\ head' = Len(Disk) % Ring
        /\ nextId' = NextIdOf(rec[Chosen]) /\ firstId' = NextIdOf(rec[Chosen])
        /\ pc = "off" /\ Chosen # NoBank
    BY <1>1 DEF PowerUpLoad
  <2>2. Disk \in Seq(Entries) /\ Len(Disk) <= Ring /\ NextIdOf(rec[Chosen]) \in 1..(MaxId + 1)
    BY <2>1, LoadIs
  <2>3. RingIs(buf', head', count')
    BY <2>1, <2>2, LoadRing
  <2> QED BY <2>1, <2>2, <2>3 DEF RamTypes
<1>2. CASE PowerCut
  <2>1. /\ buf' = [i \in 0..(Ring - 1) |-> Erased] /\ head' = 0 /\ count' = 0
        /\ nextId' = 1 /\ firstId' = 1
    BY <1>2 DEF PowerCut, RamReset
  <2>2. 1 \in 1..(MaxId + 1)
    BY JournalAssumption
  <2> QED BY <2>1, <2>2, <1>z DEF RamTypes
<1>3. CASE RecordStart \/ Record
  <2>1. PushEvent
    BY <1>3 DEF RecordStart, Record
  <2>2. /\ buf' = [buf EXCEPT ![head] = [id |-> nextId, timed |-> clock]]
        /\ head' = (head + 1) % Ring
        /\ count' = IF count < Ring THEN count + 1 ELSE count
        /\ nextId' = nextId + 1 /\ firstId' = firstId /\ nextId <= MaxId
    BY <2>1 DEF PushEvent, Room
  <2>3. [id |-> nextId, timed |-> clock] \in Entries
    BY <2>2 DEF JournalTypeOK, Entries
  <2>4. RingIs(buf', head', count')
    BY <2>2, <2>3, RecordRing DEF RamTypes
  <2>5. nextId' \in 1..(MaxId + 1)
    BY <2>2, JournalAssumption DEF RamTypes
  <2> QED BY <2>2, <2>4, <2>5 DEF RamTypes
<1>4. CASE Clear
  BY <1>4, <1>z DEF Clear, RamTypes
<1>5. CASE BackfillOk \/ BackfillFails \/ BackfillRamOnly
  <2>1. /\ StampHead
    BY <1>5 DEF BackfillOk, BackfillFails, BackfillRamOnly
  <2>2. /\ todo # {} /\ buf' = [buf EXCEPT ![Stamping] = [buf[Stamping] EXCEPT !.timed = TRUE]]
        /\ UNCHANGED <<head, count, nextId, firstId>>
    BY <2>1 DEF StampHead
  <2>3. buf[Stamping] \in Entries
    BY <2>2, StampingIs
  <2>4. [buf[Stamping] EXCEPT !.timed = TRUE] \in RingValues
    BY <2>3 DEF Entries, RingValues
  <2>5. buf' \in [0..(Ring - 1) -> RingValues]
    BY <2>2, <2>4 DEF RamTypes, RingIs
  <2> QED BY <2>2, <2>5 DEF RamTypes, RingIs
<1>6. CASE JobFails
  <2>1. /\ UNCHANGED <<buf, nextId, firstId>>
        /\ count' \in {count, 0} /\ head' \in {head, 0}
    BY <1>6 DEF JobFails
  <2> QED BY <2>1, RingNat DEF RamTypes, RingIs
<1>7. CASE PowerUpEmpty \/ ClockSet \/ TimeSynced \/ AppendOk \/ AppendFails \/ AppendNoRoom
  BY <1>7, <1>f DEF PowerUpEmpty, ClockSet, TimeSynced, AppendOk, AppendFails, AppendNoRoom, ramLog
<1>8. CASE BackfillEnd \/ EraseBank \/ CopyRecord \/ CopyDone \/ WriteHeader \/ CommitBank
  BY <1>8, <1>f DEF BackfillEnd, EraseBank, CopyRecord, CopyDone, WriteHeader, CommitBank, ramLog
<1> QED BY <1>1, <1>2, <1>3, <1>4, <1>5, <1>6, <1>7, <1>8 DEF Next

(* The types of the other variables and the phase invariant are preserved. *)
LEMMA ControlNext ==
    ASSUME JournalInv, Next
    PROVE  ControlTypes' /\ PhaseInv'
<1> /\ ControlTypes /\ PhaseInv /\ JournalTypeOK /\ BankInv /\ RamInv /\ CopyInv
    /\ RingIs(buf, head, count) /\ Ring \in Nat /\ Ring > 0 /\ Slots \in Nat /\ Ring < Slots
    /\ MaxGen \in Nat /\ MaxGen > 0 /\ MaxFaults \in Nat /\ count \in Nat /\ count <= Ring
  BY TypeParts, TypeFacts, RingNat, JournalAssumption DEF JournalInv
<1>b. BankInv'
  BY JournalNextInv
<1>1. CASE PowerUpEmpty
  <2>1. active = NoBank /\ gen = 0
    BY <1>1 DEF PowerUpEmpty, BankInv, PhaseInv
  <2> QED BY <1>1, <2>1 DEF PowerUpEmpty, ControlTypes, PhaseInv, Job, flash, ramLog, journal, history, BankInv
<1>2. CASE PowerUpLoad
  <2>1. /\ Chosen \in Banks /\ hdr[Chosen].gen \in 0..MaxGen /\ hdr[Chosen].gen < MaxGen
        /\ ValidCount(rec[Chosen]) \in 0..Slots
    BY <1>2, LoadIs DEF PowerUpLoad, Room
  <2>2. DamagedTail(rec[Chosen]) \in BOOLEAN
    BY DEF DamagedTail
  <2>3. ControlTypes'
    BY <1>2, <2>1, <2>2 DEF PowerUpLoad, ControlTypes, PhaseInv, Job, history
  <2>4. PhaseInv'
    BY <1>2, <2>1, <2>2, BankFacts DEF PowerUpLoad, ControlTypes, PhaseInv, Job, history
  <2> QED BY <2>3, <2>4
<1>3. CASE PowerCut
  <2>1. 0 \in 0..MaxFaults /\ 0 \in 0..MaxGen /\ 0 \in 0..Slots /\ 0 \in 0..Ring
    OBVIOUS
  <2> QED BY <1>3, <2>1 DEF PowerCut, RamReset, ControlTypes, PhaseInv, Job
<1>4. CASE RecordStart \/ Record
  <2>1. PushEvent /\ pc \in {"start", "idle"}
    BY <1>4 DEF RecordStart, Record
  <2> QED BY <2>1 DEF PushEvent, Room, ControlTypes, PhaseInv, Job, flash, journal, history
<1>5. CASE ClockSet
  BY <1>5 DEF ClockSet, ControlTypes, PhaseInv, Job, flash, ramLog, journal, history
<1>6. CASE TimeSynced
  <2>1. PICK oldest \in firstId..nextId : todo' = Unstamped(oldest)
    BY <1>6 DEF TimeSynced
  <2>2. \A i \in 0..(count - 1) : IndexOf(i) \in 0..(Ring - 1)
    BY PlaceIs, ContentsIs DEF RingIs
  <2>3. todo' \subseteq 0..(Ring - 1)
    BY <2>1, <2>2 DEF Unstamped
  <2> QED BY <1>6, <2>3 DEF TimeSynced, ControlTypes, PhaseInv, Job, flash, ramLog, journal, history
<1>7. CASE Clear
  BY <1>7 DEF Clear, ControlTypes, PhaseInv, Job, flash, journal, history
<1>8. CASE AppendOk
  <2>1. nextRec + 1 \in 0..Slots
    BY <1>8 DEF AppendOk, Appending, ControlTypes
  <2> QED BY <1>8, <2>1 DEF AppendOk, Appending, ControlTypes, PhaseInv, Job, ramLog, history
<1>9. CASE AppendFails
  BY <1>9, FaultIs DEF AppendFails, Appending, ControlTypes, PhaseInv, Job, ramLog, journal, FailedTail
<1>10. CASE AppendNoRoom
  BY <1>10 DEF AppendNoRoom, ControlTypes, PhaseInv, Job, flash, ramLog, journal, history
<1>11. CASE BackfillOk
  <2>1. nextRec + 1 \in 0..Slots
    BY <1>11 DEF BackfillOk, Appending, ControlTypes
  <2> QED BY <1>11, <2>1 DEF BackfillOk, StampHead, Appending, ControlTypes, PhaseInv, Job, history
<1>12. CASE BackfillFails
  BY <1>12, FaultIs DEF BackfillFails, StampHead, Appending, ControlTypes, PhaseInv, Job, FailedTail
<1>13. CASE BackfillRamOnly
  BY <1>13 DEF BackfillRamOnly, StampHead, ControlTypes, PhaseInv, Job, flash, history
<1>14. CASE BackfillEnd
  BY <1>14 DEF BackfillEnd, ControlTypes, PhaseInv, Job, flash, ramLog, journal, history
<1>15. CASE EraseBank
  BY <1>15 DEF EraseBank, ControlTypes, PhaseInv, Job, ramLog, journal, history
<1>16. CASE CopyRecord
  <2>1. written + 1 \in 0..Ring
    BY <1>16 DEF CopyRecord, ControlTypes
  <2> QED BY <1>16, <2>1 DEF CopyRecord, ControlTypes, PhaseInv, Job, ramLog, journal, history
<1>17. CASE CopyDone
  BY <1>17 DEF CopyDone, ControlTypes, PhaseInv, Job, flash, ramLog, journal, history
<1>18. CASE WriteHeader
  BY <1>18 DEF WriteHeader, ControlTypes, PhaseInv, Job, ramLog, journal, history
<1>19. CASE CommitBank
  <2>1. Target \in Banks /\ gen + 1 \in 0..MaxGen /\ written \in 0..Slots
    BY <1>19, TypeFacts DEF CommitBank, PhaseInv, Job, ControlTypes
  <2> QED BY <1>19, <2>1, BankFacts DEF CommitBank, ControlTypes, PhaseInv, Job, ramLog
<1>20. CASE JobFails
  <2>1. /\ faults' \in 0..MaxFaults /\ sound' = FALSE
        /\ pc \in Job /\ pc' = (IF ready THEN "idle" ELSE "start")
        /\ written' = 0 /\ stored' = FALSE
        /\ tail' = (IF ready /\ tail # "whole" THEN "broken" ELSE tail)
        /\ UNCHANGED <<clock, ready, active, gen, nextRec, todo, compact>>
    BY <1>20, FaultIs DEF JobFails, journal, Job, ControlTypes
  <2>2. ControlTypes'
    <3>1. pc' \in {"off", "start", "idle", "append", "backfill"} \cup Job
      BY <2>1
    <3>2. tail' \in {"whole", "failed", "broken"}
      BY <2>1 DEF ControlTypes
    <3>3. written' \in 0..Ring
      BY <2>1
    <3> QED BY <2>1, <3>1, <3>2, <3>3 DEF ControlTypes
  <2>3. PhaseInv'
    BY <2>1 DEF ControlTypes, PhaseInv, Job
  <2> QED BY <2>2, <2>3
<1> QED
  BY <1>1, <1>2, <1>3, <1>4, <1>5, <1>6, <1>7, <1>8, <1>9, <1>10, <1>11, <1>12, <1>13, <1>14, <1>15,
     <1>16, <1>17, <1>18, <1>19, <1>20 DEF Next

(* The type invariant is preserved.                                        *)
LEMMA TypesNext == JournalInv /\ Next => JournalTypeOK'
BY TypeParts, FlashTypesNext, RamTypesNext, ControlNext

-----------------------------------------------------------------------------
(* The ring                                                                *)

(* What a step does to the log in memory.                                  *)
Recorded(e) ==
    /\ pc \in {"start", "idle"} /\ nextId <= MaxId
    /\ e = [id |-> nextId, timed |-> clock]
    /\ Contents' = Pushed(Contents, e) /\ count' > 0
    /\ nextId' = nextId + 1 /\ pc' \in {"append", "idle"} /\ todo' = todo

StampedAt(k) ==
    /\ pc = "backfill" /\ pc' = "backfill"
    /\ k \in 1..count /\ Contents[k] = buf[Stamping] /\ Contents[k] \in Entries
    /\ Contents' = [Contents EXCEPT ![k] = [Contents[k] EXCEPT !.timed = TRUE]]
    /\ UNCHANGED <<head, count, nextId>> /\ Stamping \in todo /\ todo' = todo \ {Stamping}

(* event_log_record pushes the event with the next id.                     *)
LEMMA RecordIs ==
    ASSUME JournalInv, PushEvent, pc \in {"start", "idle"}
    PROVE  \E e \in Entries : Recorded(e)
<1> DEFINE e == [id |-> nextId, timed |-> clock]
<1>1. RingIs(buf, head, count)
  BY TypeFacts DEF JournalInv
<1>2. nextId <= MaxId
  BY DEF PushEvent, Room
<1>3. e \in Entries
  BY <1>2 DEF JournalInv, JournalTypeOK, Entries
<1>4. /\ buf' = [buf EXCEPT ![head] = e]
      /\ head' = (head + 1) % Ring
      /\ count' = IF count < Ring THEN count + 1 ELSE count
      /\ nextId' = nextId + 1 /\ todo' = todo /\ pc' \in {"append", "idle"}
  BY DEF PushEvent
<1>5. RingLog(buf', head', count') = Pushed(RingLog(buf, head, count), e) /\ count' > 0
  <2> HIDE DEF e
  <2>1. LET c2 == IF count < Ring THEN count + 1 ELSE count IN
        c2 > 0 /\ RingLog([buf EXCEPT ![head] = e], (head + 1) % Ring, c2)
                    = Pushed(RingLog(buf, head, count), e)
    BY <1>1, <1>3, RecordRing
  <2> QED BY <1>4, <2>1
<1> QED BY <1>2, <1>3, <1>4, <1>5, ContentsIs DEF Recorded

(* One iteration of the back-fill stamps one event of the log.             *)
LEMMA StampIs ==
    ASSUME JournalInv, StampHead
    PROVE  \E k \in 1..count : StampedAt(k)
<1>1. RingIs(buf, head, count)
  BY TypeFacts DEF JournalInv
<1>2. /\ pc = "backfill" /\ pc' = "backfill" /\ todo # {} /\ todo' = todo \ {Stamping}
      /\ UNCHANGED <<head, count, nextId>>
      /\ buf' = [buf EXCEPT ![Stamping] = [buf[Stamping] EXCEPT !.timed = TRUE]]
  BY DEF StampHead
<1>3. Stamping \in todo
  BY <1>2, StampingIs DEF JournalInv
<1>4. PICK k \in 1..count : Stamping = Place(head, count, k - 1) /\ buf[Stamping] = Contents[k]
                            /\ Contents[k] \in Entries
  BY <1>2, StampingIs DEF JournalInv
<1> DEFINE e == [Contents[k] EXCEPT !.timed = TRUE]
<1>5. e \in Entries
  BY <1>4 DEF Entries
<1>6. buf' = [buf EXCEPT ![Place(head, count, k - 1)] = e]
  BY <1>2, <1>4
<1>7. RingLog(buf, head, count)[k] \in Entries
  BY <1>4, ContentsIs
<1> HIDE DEF e
<1>8. RingLog(buf', head, count) = [RingLog(buf, head, count) EXCEPT ![k] = e]
  <2>1. RingLog([buf EXCEPT ![Place(head, count, k - 1)] = e], head, count)
            = [RingLog(buf, head, count) EXCEPT ![k] = e]
    BY <1>1, <1>5, <1>7, StampRing
  <2> QED BY <1>6, <2>1
<1>9. Contents' = [Contents EXCEPT ![k] = e]
  BY <1>2, <1>8, ContentsIs
<1> QED BY <1>2, <1>3, <1>4, <1>9 DEF StampedAt, e

(* Steps that leave the ring alone leave the log alone.                    *)
LEMMA ContentsSame ==
    ASSUME UNCHANGED <<buf, head, count>>
    PROVE  Contents' = Contents
BY DEF Contents, IndexOf

(* A ring without events is the empty log.                                 *)
LEMMA ContentsNone ==
    ASSUME JournalTypeOK', count' = 0
    PROVE  Contents' = <<>>
<1>1. RingIs(buf', head', count')
  BY DEF JournalTypeOK, RingIs, RingValues
<1> QED BY <1>1, RingLogFacts, ContentsIs

(* Every step records an event, stamps one, loads the log, empties it or   *)
(* leaves it alone.                                                        *)
LEMMA RamStep ==
    ASSUME JournalInv, Next
    PROVE  \/ (RecordStart \/ Record) /\ \E e \in Entries : Recorded(e)
           \/ (BackfillOk \/ BackfillFails \/ BackfillRamOnly) /\ \E k \in 1..count : StampedAt(k)
           \/ PowerUpLoad /\ Contents' = Disk
           \/ (Clear \/ PowerCut) /\ Contents' = <<>> /\ count' = 0
           \/ JobFails /\ ~ready /\ Contents' = <<>> /\ count' = 0
           \/ TimeSynced /\ Contents' = Contents /\ UNCHANGED <<buf, head, count, nextId>>
           \/ /\ PowerUpEmpty \/ ClockSet \/ AppendOk \/ AppendFails \/ AppendNoRoom \/ BackfillEnd
                 \/ EraseBank \/ CopyRecord \/ CopyDone \/ WriteHeader \/ CommitBank \/ (JobFails /\ ready)
              /\ Contents' = Contents /\ UNCHANGED <<buf, head, count, nextId, todo>>
              /\ pc' # "append"
<1> JournalTypeOK' /\ JournalTypeOK /\ BankInv
  BY TypesNext DEF JournalInv
<1>1. CASE RecordStart \/ Record
  <2>1. PushEvent /\ pc \in {"start", "idle"}
    BY <1>1 DEF RecordStart, Record
  <2> QED BY <1>1, <2>1, RecordIs
<1>2. CASE BackfillOk \/ BackfillFails \/ BackfillRamOnly
  <2>1. StampHead
    BY <1>2 DEF BackfillOk, BackfillFails, BackfillRamOnly
  <2> QED BY <1>2, <2>1, StampIs
<1>3. CASE PowerUpLoad
  <2>1. /\ buf' = [i \in 0..(Ring - 1) |-> IF i < Len(Disk) THEN Disk[i + 1] ELSE Erased]
        /\ count' = Len(Disk) /\ head' = Len(Disk) % Ring
        /\ pc = "off" /\ Chosen # NoBank
    BY <1>3 DEF PowerUpLoad
  <2>2. Disk \in Seq(Entries) /\ Len(Disk) <= Ring
    BY <2>1, LoadIs
  <2>3. RingLog(buf', head', count') = Disk
    BY <2>1, <2>2, LoadRing
  <2> QED BY <1>3, <2>3, ContentsIs
<1>4. CASE Clear \/ PowerCut
  <2>1. count' = 0
    BY <1>4 DEF Clear, PowerCut, RamReset
  <2> QED BY <1>4, <2>1, ContentsNone
<1>5. CASE JobFails /\ ~ready
  <2>1. count' = 0
    BY <1>5 DEF JobFails
  <2> QED BY <1>5, <2>1, ContentsNone
<1>6. CASE JobFails /\ ready
  BY <1>6, ContentsSame DEF JobFails
<1>7. CASE TimeSynced
  BY <1>7, ContentsSame DEF TimeSynced, ramLog
<1>8. CASE PowerUpEmpty \/ ClockSet \/ AppendOk \/ AppendFails \/ AppendNoRoom
  BY <1>8, ContentsSame DEF PowerUpEmpty, ClockSet, AppendOk, AppendFails, AppendNoRoom, ramLog
<1>9. CASE BackfillEnd \/ EraseBank \/ CopyRecord \/ CopyDone \/ WriteHeader \/ CommitBank
  BY <1>9, ContentsSame DEF BackfillEnd, EraseBank, CopyRecord, CopyDone, WriteHeader, CommitBank, ramLog
<1> QED BY <1>1, <1>2, <1>3, <1>4, <1>5, <1>6, <1>7, <1>8, <1>9 DEF Next

(* The ring keeps different ids, below the next one.                       *)
LEMMA RamNext ==
    ASSUME JournalInv, Next
    PROVE  RamInv'
<1> /\ JournalTypeOK' /\ JournalTypeOK /\ BankInv /\ RamInv /\ PhaseInv /\ PhaseInv'
    /\ count \in Nat /\ Len(Contents) = count /\ nextId \in Nat
    /\ Contents \in Logs(Entries)
  BY TypesNext, ControlNext, TypeFacts DEF JournalInv, RamInv
<1>c. Len(Contents') = count'
  <2>1. RingIs(buf', head', count')
    BY DEF JournalTypeOK, RingIs, RingValues
  <2> QED BY <2>1, RingLogFacts, ContentsIs
<1>i. \A i \in 1..count : Contents[i].id < nextId /\ Contents[i] \in Entries
  BY DEF RamInv, Logs
<1>d. \A i \in 1..count : Contents[i].id \in Nat
  BY <1>i DEF Entries
<1>1. ASSUME RecordStart \/ Record, NEW e \in Entries, Recorded(e) PROVE RamInv'
  <2>1. /\ e.id = nextId /\ Contents' = Pushed(Contents, e) /\ nextId' = nextId + 1
        /\ todo' = {} /\ count' > 0
    BY <1>1 DEF Recorded, PhaseInv
  <2>2. \A i \in 1..Len(Contents) : Contents[i].id # e.id
    BY <1>i, <1>d, <2>1
  <2>3. Contents' \in Logs(Entries)
    BY <2>1, <2>2, PushedLog
  <2>4. (\A i \in 1..count' : Contents'[i].id < nextId') /\ Contents'[count'].id = nextId' - 1
    <3>1. Contents \in Seq(Entries) /\ Len(Contents) <= Ring /\ Ring \in Nat /\ Ring > 0
      BY RingNat DEF Logs
    <3>2. CASE count < Ring
      <4>1. /\ Len(Pushed(Contents, e)) = count + 1 /\ Pushed(Contents, e)[count + 1] = e
            /\ \A i \in 1..count : Pushed(Contents, e)[i] = Contents[i]
        <5>1. Len(Contents) < Ring
          BY <3>2
        <5>2. /\ Len(Pushed(Contents, e)) = Len(Contents) + 1
              /\ Pushed(Contents, e)[Len(Contents) + 1] = e
              /\ \A i \in 1..Len(Contents) : Pushed(Contents, e)[i] = Contents[i]
          BY <3>1, <5>1, PushedShort
        <5> QED BY <5>2
      <4>2. count' = count + 1
        BY <1>c, <2>1, <4>1
      <4>3. \A i \in 1..(count + 1) : i \in 1..count \/ i = count + 1
        OBVIOUS
      <4>4. \A i \in 1..(count + 1) : Contents'[i].id < nextId + 1
        BY <1>i, <1>d, <2>1, <4>1, <4>3
      <4> QED BY <2>1, <4>1, <4>2, <4>4
    <3>3. CASE count = Ring
      <4>1. /\ Len(Pushed(Contents, e)) = Ring /\ Pushed(Contents, e)[Ring] = e
            /\ \A i \in 1..(Ring - 1) : Pushed(Contents, e)[i] = Contents[i + 1]
        BY <3>1, <3>3, PushedFull
      <4>2. count' = Ring
        BY <1>c, <2>1, <4>1
      <4>3. \A i \in 1..Ring : (i \in 1..(Ring - 1) /\ i + 1 \in 1..count) \/ i = Ring
        BY <3>1, <3>3
      <4>4. \A i \in 1..Ring : Contents'[i].id < nextId + 1
        BY <1>i, <1>d, <2>1, <4>1, <4>3
      <4> QED BY <2>1, <4>1, <4>2, <4>4
    <3> QED BY <3>1, <3>2, <3>3
  <2> QED BY <2>1, <2>3, <2>4 DEF RamInv
<1>2. ASSUME NEW k \in 1..count, StampedAt(k) PROVE RamInv'
  <2>1. [Contents[k] EXCEPT !.timed = TRUE] \in Entries
        /\ Contents[k].id = [Contents[k] EXCEPT !.timed = TRUE].id
    BY <1>i DEF Entries
  <2>2. /\ Contents' \in Logs(Entries)
        /\ \A i \in 1..count : Contents'[i].id = Contents[i].id
    <3> DEFINE r == [Contents[k] EXCEPT !.timed = TRUE]
    <3>1. r \in Entries /\ Contents[k].id = r.id /\ k \in 1..Len(Contents)
      BY <2>1
    <3>2. Contents' = [Contents EXCEPT ![k] = r]
      BY <1>2 DEF StampedAt
    <3> HIDE DEF r
    <3> DEFINE log == Contents
    <3>3. log \in Logs(Entries) /\ k \in 1..Len(log) /\ log[k].id = r.id
      BY <3>1
    <3> HIDE DEF log
    <3>4. /\ [log EXCEPT ![k] = r] \in Logs(Entries)
          /\ \A i \in 1..Len(log) : [log EXCEPT ![k] = r][i].id = log[i].id
      BY <3>1, <3>3, ReplacedLog
    <3> QED BY <3>2, <3>4 DEF log
  <2>3. UNCHANGED <<head, count, nextId>> /\ todo' \subseteq todo /\ pc' = "backfill"
    BY <1>2 DEF StampedAt
  <2>4. todo' \subseteq {IndexOf(i - 1)' : i \in 1..count'}
    BY <2>3 DEF RamInv, IndexOf
  <2> QED BY <1>i, <2>2, <2>3, <2>4 DEF RamInv
<1>3. CASE PowerUpLoad /\ Contents' = Disk
  <2>1. /\ Disk \in Logs(Entries)
        /\ \A i \in 1..Len(Disk) : Disk[i].id < NextIdOf(rec[Chosen])
    BY <1>3, LoadIs DEF PowerUpLoad
  <2>2. nextId' = NextIdOf(rec[Chosen]) /\ todo' = {} /\ pc' # "append"
    BY <1>3 DEF PowerUpLoad, PhaseInv
  <2> QED BY <1>3, <1>c, <2>1, <2>2 DEF RamInv
<1>4. ASSUME Contents' = <<>>, count' = 0, pc' # "append", todo' = {} PROVE RamInv'
  <2>1. <<>> \in Logs(Entries)
    BY RingNat DEF Logs, Distinct
  <2> QED BY <1>4, <2>1 DEF RamInv
<1>5. CASE (Clear \/ PowerCut) /\ Contents' = <<>> /\ count' = 0
  <2>1. pc' # "append" /\ todo' = {}
    BY <1>5 DEF Clear, PowerCut, RamReset, PhaseInv
  <2> QED BY <1>4, <1>5, <2>1
<1>6. CASE JobFails /\ ~ready /\ Contents' = <<>> /\ count' = 0
  <2>1. pc' # "append" /\ todo' = {}
    BY <1>6 DEF JobFails, PhaseInv
  <2> QED BY <1>4, <1>6, <2>1
<1>7. CASE TimeSynced /\ Contents' = Contents /\ UNCHANGED <<buf, head, count, nextId>>
  <2>1. PICK oldest \in firstId..nextId : todo' = Unstamped(oldest)
    BY <1>7 DEF TimeSynced
  <2>2. \A i \in 0..(count - 1) : i + 1 \in 1..count /\ (i + 1) - 1 = i
    OBVIOUS
  <2>3. todo' \subseteq {IndexOf(i - 1) : i \in 1..count}
    BY <2>1, <2>2 DEF Unstamped
  <2>4. todo' \subseteq {IndexOf(i - 1)' : i \in 1..count'}
    BY <1>7, <2>3 DEF IndexOf
  <2>5. pc' # "append"
    BY <1>7 DEF TimeSynced
  <2> QED BY <1>7, <2>4, <2>5 DEF RamInv
<1>8. ASSUME Contents' = Contents, UNCHANGED <<buf, head, count, nextId, todo>>, pc' # "append"
      PROVE RamInv'
  <2>1. {IndexOf(i - 1)' : i \in 1..count'} = {IndexOf(i - 1) : i \in 1..count}
    BY <1>8 DEF IndexOf
  <2> QED BY <1>8, <2>1 DEF RamInv
<1> QED BY <1>1, <1>2, <1>3, <1>5, <1>6, <1>7, <1>8, RamStep

-----------------------------------------------------------------------------
(* What the flash restores after a step                                    *)

(* With a bank in use the flash restores that bank.                        *)
LEMMA DiskActive ==
    ASSUME JournalTypeOK, BankInv
    PROVE  /\ active # NoBank => Disk = Replay(rec[active]) /\ rec[active] \in Cells
           /\ active = NoBank /\ pc # "off" => Disk = <<>>
           /\ Disk \in Logs(Entries)
<1>1. hdr \in Headers /\ rec \in Records
  BY TypeFacts
<1>2. ASSUME active # NoBank PROVE Disk = Replay(rec[active]) /\ rec[active] \in Cells
  <2>1. active \in Banks /\ hdr[active].committed /\ (hdr[1 - active].committed => hdr[1 - active].gen < hdr[active].gen)
    BY <1>2, TypeFacts DEF BankInv, HeaderValid
  <2>2. \A r : DiskIn(hdr, r) = Replay(r[active])
    BY <1>1, <2>1, YoungestChosen
  <2> QED BY <1>1, <2>1, <2>2, DiskIs DEF Records
<1>3. ASSUME active = NoBank, pc # "off" PROVE Disk = <<>>
  <2>1. \A b \in Banks : ~hdr[b].committed
    BY <1>3, BankFacts DEF BankInv, HeaderValid, Banks
  <2> QED BY <1>1, <2>1, NothingChosen, DiskIs
<1> QED BY <1>1, <1>2, <1>3, DiskLog, DiskIs

(* Writes to the bank being rewritten do not show.                         *)
LEMMA QuietWrite ==
    ASSUME JournalTypeOK, BankInv, pc # "off", NEW h \in Headers, NEW r \in Records,
           \A b \in Banks : b # Target => h[b] = hdr[b] /\ r[b] = rec[b],
           h[Target].committed => hdr[Target].committed /\ h[Target].gen = hdr[Target].gen
    PROVE  DiskIn(h, r) = Disk
<1>1. Target \in Banks /\ hdr \in Headers
  BY TypeFacts
<1>2. CASE active # NoBank
  <2>1. active \in Banks /\ Target = 1 - active /\ active # Target
    BY <1>2, TypeFacts
  <2>2. hdr[active].committed /\ hdr[active].gen = gen /\ (hdr[Target].committed => hdr[Target].gen < gen)
    BY <1>2, <2>1 DEF BankInv, HeaderValid
  <2>3. h[active] = hdr[active] /\ r[active] = rec[active]
    BY <2>1
  <2>4. h[active].committed /\ (h[1 - active].committed => h[1 - active].gen < h[active].gen)
    BY <2>1, <2>2, <2>3
  <2>5. DiskIn(h, r) = Replay(r[active])
    BY <2>1, <2>4, YoungestChosen
  <2> QED BY <1>2, <2>3, <2>5, DiskActive
<1>3. CASE active = NoBank
  <2>1. \A b \in Banks : ~hdr[b].committed
    BY <1>3, BankFacts DEF BankInv, HeaderValid, Banks
  <2>2. \A b \in Banks : ~h[b].committed
    BY <1>1, <2>1
  <2>3. DiskIn(h, r) = <<>>
    BY <2>2, NothingChosen
  <2> QED BY <1>3, <2>3, DiskActive
<1> QED BY <1>2, <1>3

(* Erasing, copying and writing the header do not show before the commit   *)
(* word.                                                                   *)
LEMMA DiskQuiet ==
    ASSUME JournalInv, NEW h, NEW r,
           (h = hdr /\ r = rec) \/ HalfErase(h, r) \/ HalfCopy(h, r) \/ HalfHeader(h, r)
    PROVE  DiskIn(h, r) = Disk
<1> JournalTypeOK /\ BankInv /\ hdr \in Headers /\ rec \in Records /\ Target \in Banks
  BY TypeFacts DEF JournalInv
<1>1. r \in Records
  BY FlashTyped DEF JournalInv, FlashChange
<1>2. CASE h = hdr /\ r = rec
  BY <1>2, DiskIs
<1>3. CASE HalfErase(h, r)
  <2>1. NoHeader \in [gen : Nat, committed : BOOLEAN] /\ ~NoHeader.committed
    BY DEF NoHeader
  <2>2. /\ h \in Headers /\ \A b \in Banks : b # Target => h[b] = hdr[b]
        /\ h[Target] = hdr[Target] \/ ~h[Target].committed
    <3>1. CASE h = hdr
      BY <3>1
    <3>2. CASE h = [hdr EXCEPT ![Target] = NoHeader]
      BY <2>1, <3>2 DEF Headers
    <3> QED BY <1>3, <3>1, <3>2 DEF HalfErase
  <2>3. \A b \in Banks : b # Target => r[b] = rec[b]
    BY <1>3 DEF HalfErase, Records
  <2>4. pc # "off"
    BY <1>3 DEF HalfErase
  <2> QED BY <1>1, <2>2, <2>3, <2>4, QuietWrite
<1>4. CASE HalfCopy(h, r)
  <2>1. h = hdr /\ pc # "off"
    BY <1>4 DEF HalfCopy
  <2>2. PICK x \in CopyCells : r = [rec EXCEPT ![Target][written + 1] = x]
    BY <1>4 DEF HalfCopy
  <2>3. \A b \in Banks : b # Target => r[b] = rec[b]
    BY <2>2 DEF Records
  <2> QED BY <1>1, <2>1, <2>3, QuietWrite
<1>5. CASE HalfHeader(h, r)
  <2>1. pc = "header" /\ r = rec /\ ~hdr[Target].committed /\ gen \in Nat
    BY <1>5 DEF HalfHeader, BankInv, HeaderValid
  <2>2. [hdr[Target] EXCEPT !.gen = gen + 1] \in [gen : Nat, committed : BOOLEAN]
        /\ ~[hdr[Target] EXCEPT !.gen = gen + 1].committed
    <3>1. hdr[Target] \in [gen : Nat, committed : BOOLEAN]
      BY DEF Headers
    <3> QED BY <2>1, <3>1
  <2>3. h = [hdr EXCEPT ![Target] = [hdr[Target] EXCEPT !.gen = gen + 1]]
    BY <1>5 DEF HalfHeader
  <2>4. h \in Headers /\ ~h[Target].committed /\ \A b \in Banks : b # Target => h[b] = hdr[b]
    BY <2>2, <2>3 DEF Headers
  <2> QED BY <1>1, <2>1, <2>4, QuietWrite
<1> QED BY <1>2, <1>3, <1>4, <1>5

(* The commit word switches to the log the ring holds.                     *)
LEMMA DiskSwitched ==
    ASSUME JournalInv, NEW h, NEW r, Switched(h, r)
    PROVE  DiskIn(h, r) = Contents
<1> /\ JournalTypeOK /\ BankInv /\ hdr \in Headers /\ rec \in Records /\ Target \in Banks
    /\ gen \in Nat /\ CopyInv /\ RamInv /\ Len(Contents) = count
  BY TypeFacts DEF JournalInv
<1>1. pc = "commit" /\ r = rec /\ h = [hdr EXCEPT ![Target] = [hdr[Target] EXCEPT !.committed = TRUE]]
  BY DEF Switched
<1>2. hdr[Target] \in [gen : Nat, committed : BOOLEAN] /\ hdr[Target].gen = gen + 1
  BY <1>1 DEF Headers, BankInv
<1> DEFINE x == [hdr[Target] EXCEPT !.committed = TRUE]
<1>3. x \in [gen : Nat, committed : BOOLEAN] /\ x.committed /\ x.gen = gen + 1
  BY <1>2
<1> HIDE DEF x
<1>4. h \in Headers /\ h[Target] = x /\ \A b \in Banks : b # Target => h[b] = hdr[b]
  <2>1. h = [hdr EXCEPT ![Target] = x]
    BY <1>1 DEF x
  <2> QED BY <1>3, <2>1 DEF Headers
<1>5. 1 - Target \in Banks /\ 1 - Target # Target
  BY BankFacts
<1>6. h[1 - Target].committed => h[1 - Target].gen < h[Target].gen
  <2>1. h[1 - Target] = hdr[1 - Target]
    BY <1>4, <1>5
  <2>2. CASE active = NoBank
    <3>1. ~hdr[1 - Target].committed
      BY <1>1, <1>5, <2>2 DEF BankInv, HeaderValid, Banks
    <3> QED BY <2>1, <3>1
  <2>3. CASE active # NoBank
    <3>1. active \in Banks /\ Target = 1 - active
      BY <2>3, TypeFacts
    <3>2. 1 - Target = active
      BY <3>1 DEF Banks
    <3>3. hdr[active].gen = gen
      BY <2>3 DEF BankInv
    <3> QED BY <1>3, <1>4, <2>1, <3>2, <3>3
  <2> QED BY <2>2, <2>3
<1>7. DiskIn(h, rec) = Replay(rec[Target])
  BY <1>3, <1>4, <1>6, YoungestChosen
<1>8. rec[Target] \in Cells /\ Contents \in Logs(Entries)
  BY DEF Records, RamInv
<1>9. \A s \in 1..Slots : rec[Target][s] = IF s <= Len(Contents) THEN Contents[s] ELSE Erased
  BY <1>1 DEF CopyInv
<1>10. Replay(rec[Target]) = Contents
  BY <1>8, <1>9, ReplayCopy
<1> QED BY <1>1, <1>7, <1>10

(* A record write at the end of a bank in order adds its record or         *)
(* nothing.                                                                *)
LEMMA DiskAppended ==
    ASSUME JournalInv, tail = "whole", NEW h, NEW r, HalfAppend(h, r)
    PROVE  DiskIn(h, r) \in {Disk, Upsert(Disk, AppendEntry)}
<1> /\ JournalTypeOK /\ BankInv /\ RamInv /\ PhaseInv /\ hdr \in Headers /\ rec \in Records
  BY TypeFacts DEF JournalInv
<1>1. Appending /\ h = hdr
  BY DEF HalfAppend
<1>2. PICK x \in AppendCells : r = [rec EXCEPT ![active][nextRec + 1] = x]
  BY DEF HalfAppend
<1>3. /\ AppendEntry \in Entries /\ active \in Banks /\ nextRec + 1 \in 1..Slots
      /\ ready /\ nextRec < Slots /\ nextRec \in 0..Slots
  BY <1>1, AppendEntryIs DEF JournalTypeOK
<1>4. rec[active] \in Cells /\ Whole(rec[active], nextRec)
  BY <1>3 DEF Records, JournalInv, SlotInv
<1>5. rec[active][nextRec + 1] = Erased
  BY <1>3, <1>4, RingNat DEF Whole
<1>6. x \in {Torn, AppendEntry} /\ x \in CellValues
  BY <1>2, <1>3, <1>5, CellFacts DEF AppendCells, Programmed
<1>7. r[active] = [rec[active] EXCEPT ![nextRec + 1] = x]
  BY <1>2, <1>3, <1>6, CellWrite
<1>8. DiskIn(h, r) = Replay(r[active]) /\ Disk = Replay(rec[active])
  <2>1. active # NoBank
    BY <1>3, BankFacts
  <2>2. hdr[active].committed /\ (hdr[1 - active].committed => hdr[1 - active].gen < hdr[active].gen)
    BY <2>1 DEF BankInv, HeaderValid
  <2>3. DiskIn(hdr, r) = Replay(r[active])
    BY <1>3, <2>2, YoungestChosen
  <2> QED BY <1>1, <2>1, <2>3, DiskActive
<1> DEFINE c == rec[active]
           d == [c EXCEPT ![nextRec + 1] = x]
<1>9. /\ x \in Entries => Replay(d) = Upsert(Replay(c), x)
      /\ x \notin Entries => Replay(d) = Replay(c)
  <2>1. c \in Cells /\ Whole(c, nextRec)
    BY <1>4
  <2> HIDE DEF c
  <2> QED BY <1>3, <1>6, <2>1, ReplayAppend
<1> HIDE DEF d
<1>10. CASE x = Torn
  <2>1. DiskIn(h, r) = Disk
    BY <1>7, <1>8, <1>9, <1>10, CellFacts DEF d
  <2> QED BY <2>1
<1>11. CASE x = AppendEntry
  <2>1. DiskIn(h, r) = Upsert(Disk, AppendEntry)
    BY <1>3, <1>7, <1>8, <1>9, <1>11 DEF d
  <2> QED BY <2>1
<1> QED BY <1>6, <1>10, <1>11

(* An append that succeeds at the end of a bank in order.                  *)
LEMMA AppendSucceeds ==
    ASSUME JournalInv, Appending, hdr' = hdr, active' = active,
           rec' = [rec EXCEPT ![active][nextRec + 1] = Programmed(@, AppendEntry)]
    PROVE  /\ tail = "whole" =>
                /\ Disk' = Upsert(Disk, AppendEntry)
                /\ Whole(rec'[active], nextRec + 1)
           /\ \A s \in 1..Slots : s <= nextRec + 1 => rec'[active][s] # Erased
<1> /\ JournalTypeOK /\ BankInv /\ RamInv /\ PhaseInv /\ SlotInv /\ hdr \in Headers /\ rec \in Records
  BY TypeFacts DEF JournalInv
<1>1. /\ AppendEntry \in Entries /\ active \in Banks /\ nextRec + 1 \in 1..Slots
      /\ ready /\ nextRec < Slots /\ nextRec \in 0..Slots
  BY AppendEntryIs DEF JournalTypeOK
<1> DEFINE x == Programmed(rec[active][nextRec + 1], AppendEntry)
<1>2. rec' = [rec EXCEPT ![active][nextRec + 1] = x]
  OBVIOUS
<1>3. rec[active] \in Cells /\ rec[active][nextRec + 1] \in CellValues
  BY <1>1 DEF Records, Cells
<1>4. x \in CellValues /\ x # Erased
  BY <1>1, <1>3, ProgrammedIs DEF RingValues
<1>x. rec[active][nextRec + 1] = Erased => x = AppendEntry
  BY <1>1, <1>3, ProgrammedIs DEF RingValues
<1> HIDE DEF x
<1>5. /\ rec'[active] = [rec[active] EXCEPT ![nextRec + 1] = x] /\ rec'[active][nextRec + 1] = x
      /\ \A t \in 1..Slots : t # nextRec + 1 => rec'[active][t] = rec[active][t]
  <2> DEFINE p == nextRec + 1
  <2>1. p \in 1..Slots /\ rec' = [rec EXCEPT ![active][p] = x]
    BY <1>1, <1>2
  <2> HIDE DEF p
  <2>2. rec'[active] = [rec[active] EXCEPT ![p] = x]
    BY <1>1, <2>1 DEF Records
  <2>3. rec'[active][p] = x /\ \A t \in 1..Slots : t # p => rec'[active][t] = rec[active][t]
    BY <1>3, <2>1, <2>2 DEF Cells
  <2> QED BY <2>2, <2>3 DEF p
<1>6. ASSUME NEW s \in 1..Slots, s <= nextRec + 1 PROVE rec'[active][s] # Erased
  <2>1. CASE s = nextRec + 1
    BY <1>4, <1>5, <2>1
  <2>2. CASE s # nextRec + 1
    <3>1. s <= nextRec
      BY <1>1, <1>6, <2>2, RingNat
    <3> QED BY <1>1, <1>5, <2>2, <3>1 DEF SlotInv
  <2> QED BY <2>1, <2>2
<1>7. ASSUME tail = "whole"
      PROVE  Disk' = Upsert(Disk, AppendEntry) /\ Whole(rec'[active], nextRec + 1)
  <2>1. Whole(rec[active], nextRec)
    BY <1>1, <1>7 DEF SlotInv
  <2>2. rec[active][nextRec + 1] = Erased
    BY <1>1, <2>1, RingNat DEF Whole
  <2>3. x = AppendEntry
    BY <1>x, <2>2
  <2> DEFINE c == rec[active]
             d == [c EXCEPT ![nextRec + 1] = x]
  <2>4. Replay(d) = Upsert(Replay(c), x) /\ Whole(d, nextRec + 1)
    <3>1. c \in Cells /\ Whole(c, nextRec)
      BY <1>3, <2>1
    <3> HIDE DEF c
    <3> QED BY <1>1, <1>4, <2>3, <3>1, ReplayAppend
  <2>5. rec'[active] = d
    BY <1>5
  <2> HIDE DEF d
  <2>6. active # NoBank
    BY <1>1, BankFacts
  <2>7. hdr[active].committed /\ (hdr[1 - active].committed => hdr[1 - active].gen < hdr[active].gen)
    BY <2>6 DEF BankInv, HeaderValid
  <2>8. \A r : DiskIn(hdr, r) = Replay(r[active])
    BY <1>1, <2>7, YoungestChosen
  <2>9. DiskIn(hdr', rec') = Replay(rec'[active])
    BY <2>8
  <2>10. Disk = Replay(rec[active])
    BY <2>6, DiskActive
  <2> QED BY <2>3, <2>4, <2>5, <2>9, <2>10, DiskIs
<1> QED BY <1>6, <1>7

(* A write behind the last record keeps a bank packed.                     *)
LEMMA PackedWrite ==
    ASSUME NEW c, Packed(c), NEW p \in 1..Slots, \A s \in 1..Slots : s < p => c[s] # Erased,
           NEW d, d[p] # Erased, \A s \in 1..Slots : s # p => d[s] = c[s]
    PROVE  Packed(d)
BY DEF Packed

(* The bank being copied to has been written up to its last record.        *)
LEMMA CopyPosition ==
    ASSUME JournalInv, pc = "copy", written < count
    PROVE  /\ written + 1 \in 1..Slots /\ Contents[written + 1] \in Entries
           /\ rec[Target][written + 1] = Erased
           /\ \A s \in 1..Slots : s < written + 1 => rec[Target][s] \in Entries
<1> /\ JournalTypeOK /\ BankInv /\ RamInv /\ CopyInv
    /\ written \in Nat /\ count \in Nat /\ count <= Ring /\ Len(Contents) = count
    /\ Slots \in Nat /\ Ring \in Nat /\ Ring < Slots
  BY TypeFacts, RingNat DEF JournalInv
<1>1. Contents \in Seq(Entries)
  BY DEF RamInv, Logs
<1>2. written + 1 \in 1..Slots /\ written + 1 \in 1..Len(Contents)
  OBVIOUS
<1>3. \A s \in 1..Slots : rec[Target][s] = IF s <= written THEN Contents[s] ELSE Erased
  BY DEF CopyInv
<1>4. ASSUME NEW s \in 1..Slots, s < written + 1 PROVE rec[Target][s] \in Entries
  <2>1. s <= written /\ s \in 1..Len(Contents)
    BY <1>4
  <2> QED BY <1>1, <1>3, <2>1
<1>5. rec[Target][written + 1] = Erased
  BY <1>2, <1>3
<1> QED BY <1>1, <1>2, <1>4, <1>5

(* What a flash operation, whole or in part, does to the banks.            *)
LEMMA AppendEffect ==
    ASSUME JournalInv, NEW h, NEW r, HalfAppend(h, r)
    PROVE  /\ active \in Banks /\ nextRec + 1 \in 1..Slots /\ AppendEntry \in Entries /\ ready
           /\ r[active][nextRec + 1] \in {Torn, AppendEntry}
           /\ \A s \in 1..Slots : s # nextRec + 1 => r[active][s] = rec[active][s]
           /\ \A b \in Banks : b # active => r[b] = rec[b]
<1> /\ JournalTypeOK /\ BankInv /\ RamInv /\ PhaseInv /\ rec \in Records
  BY TypeFacts DEF JournalInv
<1>1. Appending /\ \E x \in AppendCells : r = [rec EXCEPT ![active][nextRec + 1] = x]
  BY DEF HalfAppend
<1>2. active \in Banks /\ nextRec + 1 \in 1..Slots /\ AppendEntry \in Entries /\ ready
  BY <1>1, AppendEntryIs
<1> DEFINE p == nextRec + 1
<1>3. PICK x \in AppendCells : r = [rec EXCEPT ![active][p] = x]
  BY <1>1
<1>4. p \in 1..Slots
  BY <1>2
<1>5. rec[active] \in Cells /\ rec[active][p] \in CellValues
  BY <1>2, <1>4 DEF Records, Cells
<1>6. x \in {Torn, AppendEntry}
  BY <1>2, <1>3, <1>5, ProgrammedIs DEF AppendCells, RingValues
<1> HIDE DEF p
<1>7. r[active] = [rec[active] EXCEPT ![p] = x] /\ \A b \in Banks : b # active => r[b] = rec[b]
  BY <1>2, <1>3 DEF Records
<1>8. r[active][p] = x /\ \A s \in 1..Slots : s # p => r[active][s] = rec[active][s]
  BY <1>4, <1>5, <1>7 DEF Cells
<1> QED BY <1>2, <1>6, <1>7, <1>8 DEF p

(* All flash operations but an append touch the replacement bank only.     *)
LEMMA TargetEffect ==
    ASSUME JournalInv, NEW h, NEW r, FlashChange(h, r), ~HalfAppend(h, r)
    PROVE  \A b \in Banks : b # Target => r[b] = rec[b]
<1> rec \in Records /\ Target \in Banks
  BY TypeFacts DEF JournalInv
<1>1. CASE (h = hdr /\ r = rec) \/ HalfHeader(h, r) \/ Switched(h, r)
  BY <1>1 DEF HalfHeader, Switched
<1>2. CASE HalfErase(h, r)
  BY <1>2 DEF HalfErase, Records
<1>3. CASE HalfCopy(h, r)
  BY <1>3 DEF HalfCopy, Records
<1> QED BY <1>1, <1>2, <1>3 DEF FlashChange

(* A copy, whole or in part, writes one slot of the replacement bank.      *)
LEMMA CopyEffect ==
    ASSUME JournalInv, NEW h, NEW r, HalfCopy(h, r)
    PROVE  /\ r[Target][written + 1] \in {Torn, Contents[written + 1]}
           /\ \A s \in 1..Slots : s # written + 1 => r[Target][s] = rec[Target][s]
<1> rec \in Records /\ Target \in Banks /\ pc = "copy" /\ written < count
  BY TypeFacts DEF JournalInv, HalfCopy
<1> DEFINE p == written + 1
<1>1. p \in 1..Slots /\ rec[Target][p] = Erased
  BY CopyPosition
<1>2. PICK x \in {Torn, Programmed(rec[Target][p], Contents[p])} : r = [rec EXCEPT ![Target][p] = x]
  BY DEF HalfCopy, CopyCells
<1>3. x \in {Torn, Contents[p]}
  BY <1>1, <1>2 DEF Programmed
<1>4. rec[Target] \in Cells
  BY DEF Records
<1> HIDE DEF p
<1>5. r[Target] = [rec[Target] EXCEPT ![p] = x]
  BY <1>2 DEF Records
<1>6. r[Target][p] = x /\ \A s \in 1..Slots : s # p => r[Target][s] = rec[Target][s]
  BY <1>1, <1>4, <1>5 DEF Cells
<1> QED BY <1>3, <1>6 DEF p

(* Banks stay packed.                                                      *)
LEMMA PackedNext ==
    ASSUME JournalInv, Next
    PROVE  \A b \in Banks : Packed(rec'[b])
<1> /\ JournalTypeOK /\ BankInv /\ rec \in Records /\ Target \in Banks /\ SlotInv
    /\ nextRec \in Nat /\ written \in Nat
  BY TypeFacts DEF JournalInv
<1>p. \A b \in Banks : Packed(rec[b])
  BY DEF SlotInv
<1>c. FlashChange(hdr', rec')
  BY FlashStep DEF FlashChange, FlashIdle
<1>1. CASE HalfAppend(hdr', rec')
  <2> DEFINE p == nextRec + 1
  <2>1. /\ active \in Banks /\ p \in 1..Slots /\ ready
        /\ rec'[active][p] # Erased
        /\ \A s \in 1..Slots : s # p => rec'[active][s] = rec[active][s]
        /\ \A b \in Banks : b # active => rec'[b] = rec[b]
    BY <1>1, AppendEffect, CellFacts
  <2>2. \A s \in 1..Slots : s < p => rec[active][s] # Erased
    BY <2>1 DEF SlotInv
  <2> HIDE DEF p
  <2>3. Packed(rec'[active])
    <3>1. PICK a \in Banks : a = active
      BY <2>1
    <3> DEFINE c == rec[a]
               d == rec'[a]
    <3>2. /\ Packed(c) /\ d[p] # Erased /\ (\A s \in 1..Slots : s # p => d[s] = c[s])
          /\ \A s \in 1..Slots : s < p => c[s] # Erased
      BY <1>p, <2>1, <2>2, <3>1
    <3> HIDE DEF c, d
    <3>3. Packed(d)
      BY <2>1, <3>2, PackedWrite
    <3> QED BY <3>1, <3>3 DEF d
  <2> QED BY <1>p, <2>1, <2>3
<1>2. CASE ~HalfAppend(hdr', rec')
  <2>1. \A b \in Banks : b # Target => rec'[b] = rec[b]
    BY <1>2, <1>c, TargetEffect
  <2>2. PICK g \in Banks : g = Target
    OBVIOUS
  <2>3. Packed(rec'[g])
    <3>1. CASE (hdr' = hdr /\ rec' = rec) \/ HalfHeader(hdr', rec') \/ Switched(hdr', rec')
      BY <1>p, <3>1 DEF HalfHeader, Switched
    <3>2. CASE HalfErase(hdr', rec')
      <4>1. rec'[g] = rec[g] \/ rec'[g] = BlankBank
        BY <2>2, <3>2 DEF HalfErase, Records
      <4> QED BY <1>p, <4>1, BlankCells DEF Packed
    <3>3. CASE HalfCopy(hdr', rec')
      <4> DEFINE p == written + 1
                 c == rec[g]
                 d == rec'[g]
      <4>1. pc = "copy" /\ written < count
        BY <3>3 DEF HalfCopy
      <4>2. /\ p \in 1..Slots /\ Contents[p] \in Entries
            /\ \A s \in 1..Slots : s < p => c[s] \in Entries
        BY <2>2, <4>1, CopyPosition
      <4>3. d[p] \in {Torn, Contents[p]} /\ \A s \in 1..Slots : s # p => d[s] = c[s]
        BY <2>2, <3>3, CopyEffect
      <4>4. Packed(c)
        BY <1>p
      <4> HIDE DEF p, c, d
      <4>5. Packed(d)
        BY <4>2, <4>3, <4>4, CellFacts, PackedWrite
      <4> QED BY <4>5 DEF d
    <3> QED BY <1>2, <1>c, <3>1, <3>2, <3>3 DEF FlashChange
  <2> QED BY <1>p, <2>1, <2>2, <2>3
<1> QED BY <1>1, <1>2

-----------------------------------------------------------------------------
(* The bank in use                                                         *)

(* The ids the bank in use holds are below this one.                       *)
IdBound == IF pc = "append" THEN nextId - 1 ELSE nextId

SlotReady ==
    /\ ready => \A s \in 1..Slots :
            /\ rec[active][s].id < IdBound
            /\ s <= nextRec => rec[active][s] # Erased
    /\ ready /\ tail = "whole" => Whole(rec[active], nextRec)

(* The invariant of the banks by parts.                                    *)
LEMMA SlotParts ==
    /\ SlotInv <=> (\A b \in Banks : Packed(rec[b])) /\ SlotReady
    /\ SlotInv' <=> (\A b \in Banks : Packed(rec'[b])) /\ SlotReady'
BY DEF SlotInv, SlotReady, IdBound

(* An append never writes an id that is still to be given out.             *)
LEMMA AppendEntryOld ==
    ASSUME JournalInv, Appending
    PROVE  AppendEntry.id < nextId /\ AppendEntry.id \in Int
<1> JournalTypeOK /\ BankInv /\ RamInv /\ PhaseInv /\ nextId \in Nat
  BY TypeFacts DEF JournalInv
<1>1. AppendEntry \in Entries
  BY AppendEntryIs
<1>2. AppendEntry.id \in Int
  BY <1>1, CellFacts
<1>3. CASE pc = "append"
  BY <1>2, <1>3, AppendEntryIs
<1>4. CASE pc # "append"
  <2>1. todo # {}
    BY <1>4, AppendEntryIs
  <2>2. PICK k \in 1..count : buf[Stamping] = Contents[k] /\ Contents[k] \in Entries
    BY <2>1, StampingIs
  <2>3. AppendEntry.id = Contents[k].id
    BY <1>4, <2>2 DEF AppendEntry, Entries
  <2> QED BY <1>2, <2>3 DEF RamInv
<1> QED BY <1>3, <1>4

(* Only an append changes the bank in use.                                 *)
LEMMA ActiveKept ==
    ASSUME JournalInv, Next, ~HalfAppend(hdr', rec'), active # NoBank
    PROVE  rec'[active] = rec[active]
<1>1. FlashChange(hdr', rec')
  BY FlashStep DEF FlashChange, FlashIdle
<1>2. active \in Banks /\ active # Target
  BY TypeFacts DEF JournalInv
<1> QED BY <1>1, <1>2, TargetEffect

(* A step that keeps the bank, and writes at most one record of it.        *)
LEMMA SlotKept ==
    ASSUME JournalInv, Next, active' = active, nextRec' = nextRec, ready' => ready,
           tail' = "whole" => tail = "whole" /\ ~HalfAppend(hdr', rec'),
           ready => IdBound' \in Int /\ IdBound' >= nextId
    PROVE  SlotReady'
<1> SUFFICES ASSUME ready' PROVE SlotReady'
  BY DEF SlotReady
<1> /\ JournalTypeOK /\ BankInv /\ RamInv /\ PhaseInv /\ SlotReady /\ rec \in Records
    /\ ready /\ nextId \in Nat /\ IdBound' \in Int /\ IdBound' >= nextId /\ nextRec \in Nat
  BY TypeFacts, SlotParts DEF JournalInv
<1>1. active # NoBank /\ active \in Banks
  BY TypeFacts DEF PhaseInv
<1>2. IdBound <= nextId /\ IdBound \in Int
  BY DEF IdBound
<1>3. \A s \in 1..Slots : /\ rec[active][s].id \in Int /\ rec[active][s].id < IdBound
                          /\ s <= nextRec => rec[active][s] # Erased
  BY <1>1, CellFacts DEF SlotReady, Records, Cells
<1>4. CASE ~HalfAppend(hdr', rec')
  <2>1. rec'[active] = rec[active]
    BY <1>1, <1>4, ActiveKept
  <2>2. ASSUME NEW s \in 1..Slots
        PROVE  rec'[active'][s].id < IdBound' /\ (s <= nextRec' => rec'[active'][s] # Erased)
    BY <1>2, <1>3, <2>1
  <2>3. tail' = "whole" => Whole(rec'[active'], nextRec')
    BY <2>1 DEF SlotReady
  <2> QED BY <2>2, <2>3 DEF SlotReady
<1>5. CASE HalfAppend(hdr', rec')
  <2> DEFINE p == nextRec + 1
  <2>1. /\ p \in 1..Slots /\ rec'[active][p] \in {Torn, AppendEntry}
        /\ \A s \in 1..Slots : s # p => rec'[active][s] = rec[active][s]
    BY <1>5, AppendEffect
  <2>2. AppendEntry.id < nextId /\ AppendEntry.id \in Int /\ Torn.id = -1
    BY <1>5, AppendEntryOld DEF HalfAppend, Torn
  <2>3. ~(p <= nextRec)
    OBVIOUS
  <2> HIDE DEF p
  <2>4. ASSUME NEW s \in 1..Slots
        PROVE  rec'[active'][s].id < IdBound' /\ (s <= nextRec' => rec'[active'][s] # Erased)
    <3>1. CASE s = p
      <4>1. rec'[active][s].id = -1 \/ rec'[active][s].id = AppendEntry.id
        BY <2>1, <2>2, <3>1
      <4>2. rec'[active][s].id < IdBound'
        BY <2>2, <4>1
      <4> QED BY <2>3, <3>1, <4>2
    <3>2. CASE s # p
      BY <1>2, <1>3, <2>1, <3>2
    <3> QED BY <3>1, <3>2
  <2> QED BY <1>5, <2>4 DEF SlotReady
<1> QED BY <1>4, <1>5

(* An append that succeeds.                                                *)
LEMMA SlotAppended ==
    ASSUME JournalInv, Next, Appending, UNCHANGED <<hdr, active, ready, tail, nextId>>,
           rec' = [rec EXCEPT ![active][nextRec + 1] = Programmed(@, AppendEntry)],
           nextRec' = nextRec + 1, pc' # "append"
    PROVE  SlotReady'
<1> /\ JournalTypeOK /\ BankInv /\ RamInv /\ PhaseInv /\ SlotReady /\ rec \in Records
    /\ nextId \in Nat /\ nextRec \in Nat
  BY TypeFacts, SlotParts DEF JournalInv
<1>1. HalfAppend(hdr', rec')
  <2>1. rec' = [rec EXCEPT ![active][nextRec + 1]
                    = Programmed(rec[active][nextRec + 1], AppendEntry)]
    OBVIOUS
  <2> QED BY <2>1 DEF HalfAppend, AppendCells
<1> DEFINE p == nextRec + 1
<1>2. /\ p \in 1..Slots /\ rec'[active][p] \in {Torn, AppendEntry} /\ active \in Banks /\ ready
      /\ \A s \in 1..Slots : s # p => rec'[active][s] = rec[active][s]
  BY <1>1, AppendEffect
<1>3. /\ tail = "whole" => Whole(rec'[active], p)
      /\ \A s \in 1..Slots : s <= p => rec'[active][s] # Erased
  BY AppendSucceeds
<1>4. AppendEntry.id < nextId /\ AppendEntry.id \in Int /\ Torn.id = -1
  BY AppendEntryOld DEF Torn
<1>5. nextRec' = p
  OBVIOUS
<1>6. IdBound <= nextId /\ IdBound \in Int /\ IdBound' = nextId
  BY DEF IdBound
<1> HIDE DEF p
<1>7. \A s \in 1..Slots : rec[active][s].id \in Int /\ rec[active][s].id < IdBound
  BY <1>2, CellFacts DEF SlotReady, Records, Cells
<1>8. ASSUME NEW s \in 1..Slots PROVE rec'[active][s].id < IdBound'
  <2>1. CASE s = p
    <3>1. rec'[active][s].id = -1 \/ rec'[active][s].id = AppendEntry.id
      BY <1>2, <1>4, <2>1
    <3> QED BY <1>4, <1>6, <3>1
  <2>2. CASE s # p
    BY <1>2, <1>6, <1>7, <2>2
  <2> QED BY <2>1, <2>2
<1> QED BY <1>3, <1>5, <1>8 DEF SlotReady

(* A boot: the bank it chose is packed, so an undamaged tail is erased.    *)
LEMMA SlotLoaded ==
    ASSUME JournalInv, PowerUpLoad
    PROVE  SlotReady'
<1> /\ JournalTypeOK /\ BankInv /\ SlotInv /\ Slots \in Nat
  BY RingNat DEF JournalInv
<1>1. pc = "off" /\ Chosen # NoBank
  BY DEF PowerUpLoad
<1>2. Chosen \in Banks /\ rec[Chosen] \in Cells
  BY <1>1, LoadIs
<1> DEFINE c == rec[Chosen]
           n == ValidCount(c)
           m == NextIdOf(c)
<1>3. c \in Cells /\ Packed(c)
  BY <1>2 DEF SlotInv
<1>4. /\ active' = Chosen /\ nextRec' = n /\ rec' = rec /\ ready' = ~DamagedTail(c)
      /\ nextId' = m /\ pc' # "append"
  BY DEF PowerUpLoad, flash
<1> HIDE DEF c
<1>5. n \in 0..Slots /\ (\A s \in 1..n : c[s] \in Entries) /\ (n < Slots => c[n + 1] \notin Entries)
  BY <1>3, ValidCountExists
<1>6. m \in 1..(MaxId + 1) /\ \A s \in 1..n : c[s].id < m
  BY <1>3, NextIdIs
<1>7. ASSUME ready' PROVE Whole(c, n)
  <2>1. ASSUME n < Slots PROVE c[n + 1] = Erased
    <3>1. n + 1 \in 1..Slots
      BY <1>5, <2>1
    <3>2. c[n + 1] \in CellValues /\ c[n + 1] \notin Entries
      BY <1>3, <1>5, <2>1, <3>1 DEF Cells
    <3>3. c[n + 1] # Torn
      BY <1>4, <1>7, <2>1 DEF DamagedTail
    <3> QED BY <3>2, <3>3 DEF CellValues
  <2>2. ASSUME NEW s \in 1..Slots, ~(s <= n) PROVE c[s] = Erased
    <3>1. n < Slots /\ n + 1 \in 1..Slots /\ (n + 1 = s \/ n + 1 < s)
      BY <1>5, <2>2
    <3> QED BY <1>3, <2>1, <3>1 DEF Packed
  <2>3. \A s \in 1..Slots : s <= n => s \in 1..n
    BY <1>5
  <2> QED BY <1>5, <2>2, <2>3 DEF Whole
<1> HIDE DEF n, m
<1>8. ASSUME ready', NEW s \in 1..Slots
      PROVE  c[s].id < m /\ (s <= n => c[s] # Erased)
  <2>1. CASE s <= n
    <3>1. s \in 1..n
      BY <1>5, <2>1
    <3> QED BY <1>5, <1>6, <3>1, CellFacts
  <2>2. CASE ~(s <= n)
    <3>1. c[s] = Erased /\ Erased.id = 0 /\ m > 0
      BY <1>6, <1>7, <1>8, <2>2 DEF Whole, Erased
    <3> QED BY <1>6, <2>2, <3>1
  <2> QED BY <2>1, <2>2
<1>9. rec'[active'] = c
  BY <1>4 DEF c
<1>10. IdBound' = m
  BY <1>4 DEF IdBound
<1> QED BY <1>4, <1>7, <1>8, <1>9, <1>10 DEF SlotReady

(* The commit word: the replacement bank holds the ring and nothing else.  *)
LEMMA SlotCommitted ==
    ASSUME JournalInv, CommitBank
    PROVE  SlotReady'
<1> /\ JournalTypeOK /\ BankInv /\ RamInv /\ CopyInv /\ Target \in Banks /\ rec \in Records
    /\ Len(Contents) = count /\ count \in Nat /\ nextId \in Nat /\ nextId >= 1
  BY TypeFacts DEF JournalInv
<1>1. /\ pc = "commit" /\ active' = Target /\ nextRec' = written /\ rec' = rec
      /\ nextId' = nextId /\ pc' # "append"
  BY DEF CommitBank, ramLog
<1>2. /\ written = count
      /\ \A s \in 1..Slots : rec[Target][s] = IF s <= count THEN Contents[s] ELSE Erased
  BY <1>1 DEF CopyInv
<1>3. \A i \in 1..count : Contents[i] \in Entries /\ Contents[i].id < nextId
  BY DEF RamInv, Logs
<1>4. Erased.id = 0 /\ Erased \notin Entries
  BY CellFacts DEF Erased
<1>5. ASSUME NEW s \in 1..Slots
      PROVE  /\ rec[Target][s].id < nextId
             /\ IF s <= count THEN rec[Target][s] \in Entries ELSE rec[Target][s] = Erased
  <2>1. CASE s <= count
    <3>1. s \in 1..count
      BY <2>1
    <3> QED BY <1>2, <1>3, <2>1, <3>1
  <2>2. CASE ~(s <= count)
    BY <1>2, <1>4, <2>2
  <2> QED BY <2>1, <2>2
<1>6. rec'[active'] = rec[Target] /\ IdBound' = nextId /\ nextRec' = count
  BY <1>1, <1>2 DEF IdBound
<1> QED BY <1>4, <1>5, <1>6 DEF SlotReady, Whole

(* The invariant of the banks is preserved.                                *)
LEMMA SlotNext ==
    ASSUME JournalInv, Next
    PROVE  SlotInv'
<1> /\ JournalTypeOK /\ BankInv /\ PhaseInv /\ nextId \in Nat
  BY TypeFacts DEF JournalInv
<1>p. \A b \in Banks : Packed(rec'[b])
  BY PackedNext
<1>k. ASSUME active' = active, nextRec' = nextRec, ready' => ready,
             tail' = "whole" => tail = "whole" /\ ~HalfAppend(hdr', rec'),
             nextId' = nextId, pc' # "append"
      PROVE  SlotReady'
  <2>1. IdBound' = nextId
    BY <1>k DEF IdBound
  <2> QED BY <1>k, <2>1, SlotKept
<1>r. SlotReady'
  <2>1. CASE PowerUpLoad
    BY <2>1, SlotLoaded
  <2>2. CASE CommitBank
    BY <2>2, SlotCommitted
  <2>3. CASE AppendOk
    BY <2>3, SlotAppended DEF AppendOk, ramLog, history
  <2>4. CASE BackfillOk
    <3>1. pc' # "append"
      BY <2>4 DEF BackfillOk, StampHead
    <3> QED BY <2>4, <3>1, SlotAppended DEF BackfillOk, StampHead, history
  <2>5. CASE PowerCut
    BY <2>5 DEF PowerCut, RamReset, SlotReady
  <2>6. CASE RecordStart \/ Record
    <3>1. PushEvent /\ pc # "append"
      BY <2>6 DEF RecordStart, Record
    <3>2. /\ UNCHANGED <<active, nextRec, ready, tail>> /\ rec' = rec /\ nextId' = nextId + 1
          /\ pc' = (IF ready THEN "append" ELSE "idle")
      BY <3>1 DEF PushEvent, flash, journal, history
    <3>3. ready => IdBound' = nextId
      BY <3>2 DEF IdBound
    <3>4. ~HalfAppend(hdr', rec') \/ ~ready
      BY <2>6 DEF HalfAppend, Appending, RecordStart, Record
    <3> QED BY <3>2, <3>3, <3>4, SlotKept DEF SlotReady
  <2>7. CASE AppendFails
    <3>1. tail' # "whole"
      BY <2>7 DEF AppendFails, FailedTail
    <3> QED BY <1>k, <2>7, <3>1 DEF AppendFails, ramLog, journal
  <2>8. CASE BackfillFails
    <3>1. tail' # "whole" /\ pc' # "append"
      BY <2>8 DEF BackfillFails, FailedTail, StampHead
    <3> QED BY <1>k, <2>8, <3>1 DEF BackfillFails, StampHead
  <2>9. CASE JobFails
    <3>1. ~HalfAppend(hdr', rec')
      BY <2>9 DEF JobFails, HalfAppend, Appending
    <3>2. /\ UNCHANGED <<active, nextRec, ready, nextId>> /\ pc' # "append"
          /\ tail' = "whole" => tail = "whole"
      BY <2>9 DEF JobFails, journal
    <3> QED BY <1>k, <3>1, <3>2
  <2>10. CASE AppendNoRoom
    <3>1. ~Appending
      BY <2>10, TypeFacts, RingNat DEF AppendNoRoom, Appending, JournalInv
    <3> QED BY <1>k, <2>10, <3>1 DEF AppendNoRoom, HalfAppend, flash, ramLog, journal, history
  <2>11. CASE BackfillRamOnly
    <3>1. pc' # "append" /\ UNCHANGED <<active, ready, nextId>>
      BY <2>11 DEF BackfillRamOnly, StampHead
    <3> QED BY <1>k, <2>11, <3>1 DEF BackfillRamOnly, HalfAppend, history
  <2>12. CASE BackfillEnd
    <3>1. ~Appending
      BY <2>12 DEF BackfillEnd, Appending
    <3> QED BY <1>k, <2>12, <3>1 DEF BackfillEnd, HalfAppend, ramLog, journal, history
  <2>13. CASE PowerUpEmpty \/ ClockSet \/ TimeSynced \/ Clear
    <3>1. ~Appending
      BY <2>13 DEF PowerUpEmpty, ClockSet, TimeSynced, Clear, Appending
    <3> QED BY <1>k, <2>13, <3>1
            DEF PowerUpEmpty, ClockSet, TimeSynced, Clear, HalfAppend, ramLog, journal, history
  <2>14. CASE EraseBank \/ CopyRecord \/ CopyDone \/ WriteHeader
    <3>1. ~Appending
      BY <2>14 DEF EraseBank, CopyRecord, CopyDone, WriteHeader, Appending
    <3> QED BY <1>k, <2>14, <3>1
            DEF EraseBank, CopyRecord, CopyDone, WriteHeader, HalfAppend, ramLog, journal, history
  <2> QED
    BY <2>1, <2>2, <2>3, <2>4, <2>5, <2>6, <2>7, <2>8, <2>9, <2>10, <2>11, <2>12, <2>13, <2>14 DEF Next
<1> QED BY <1>p, <1>r, SlotParts

-----------------------------------------------------------------------------
(* The replacement bank                                                    *)

(* The replacement bank holds what was copied, after every step.           *)
LEMMA CopyNext ==
    ASSUME JournalInv, Next
    PROVE  CopyInv'
<1> /\ JournalTypeOK /\ BankInv /\ CopyInv /\ RamInv /\ Target \in Banks /\ rec \in Records
    /\ count \in Nat /\ written \in Nat
  BY TypeFacts DEF JournalInv
<1> DEFINE Copied(c, w) == \A s \in 1..Slots : c[s] = IF s <= w THEN Contents[s] ELSE Erased
<1>t. ASSUME active' = active, Contents' = Contents, count' = count,
             written' <= count, Copied(rec'[Target], written'),
             pc' \in {"header", "commit"} => written' = count
      PROVE  CopyInv'
  <2>1. Target' = Target
    BY <1>t DEF Target
  <2> QED BY <1>t, <2>1 DEF CopyInv
<1>c. pc \in {"copy", "header", "commit"} => written <= count /\ Copied(rec[Target], written)
  BY DEF CopyInv
<1> HIDE DEF Copied
<1>1. CASE EraseBank
  <2>1. /\ rec' = [rec EXCEPT ![Target] = BlankBank] /\ written' = 0 /\ pc' = "copy"
        /\ active' = active /\ UNCHANGED <<buf, head, count>>
    BY <1>1 DEF EraseBank, ramLog, journal
  <2>2. rec'[Target] = BlankBank
    BY <2>1 DEF Records
  <2>3. \A s \in 1..Slots : ~(s <= 0)
    BY RingNat
  <2>4. Copied(rec'[Target], 0)
    BY <2>2, <2>3, BlankCells DEF Copied
  <2> QED BY <1>t, <2>1, <2>4, ContentsSame
<1>2. CASE CopyRecord
  <2> DEFINE p == written + 1
  <2>1. /\ rec' = [rec EXCEPT ![Target][p] = Programmed(rec[Target][p], Contents[p])]
        /\ written' = p /\ pc' = "copy" /\ pc = "copy" /\ written < count /\ hdr' = hdr
        /\ active' = active /\ UNCHANGED <<buf, head, count>>
    BY <1>2 DEF CopyRecord, ramLog, journal
  <2>2. p \in 1..Slots /\ rec[Target][p] = Erased
    BY <2>1, CopyPosition
  <2>3. Programmed(rec[Target][p], Contents[p]) = Contents[p]
    BY <2>2 DEF Programmed
  <2>4. rec' = [rec EXCEPT ![Target][p] = Contents[p]]
    BY <2>1, <2>3
  <2>5. written' = p /\ p <= count
    BY <2>1
  <2>6. \A s \in 1..Slots : s # p => (s <= p <=> s <= written)
    OBVIOUS
  <2>7. p <= p
    OBVIOUS
  <2> HIDE DEF p
  <2>8. rec'[Target][p] = Contents[p] /\ \A s \in 1..Slots : s # p => rec'[Target][s] = rec[Target][s]
    BY <2>2, <2>4 DEF Records, Cells
  <2>9. Copied(rec'[Target], p)
    BY <1>c, <2>1, <2>6, <2>7, <2>8 DEF Copied
  <2> QED BY <1>t, <2>1, <2>5, <2>9, ContentsSame
<1>3. CASE CopyDone
  <2>1. /\ rec' = rec /\ written' = written /\ written = count /\ pc = "copy"
        /\ active' = active /\ UNCHANGED <<buf, head, count>>
    BY <1>3 DEF CopyDone, ramLog, journal, flash
  <2> QED BY <1>t, <1>c, <2>1, ContentsSame
<1>4. CASE WriteHeader
  <2>1. /\ rec' = rec /\ written' = written /\ pc = "header"
        /\ active' = active /\ UNCHANGED <<buf, head, count>>
    BY <1>4 DEF WriteHeader, ramLog, journal
  <2>2. written = count
    BY <2>1 DEF CopyInv
  <2> QED BY <1>t, <1>c, <2>1, <2>2, ContentsSame
<1>5. CASE PowerUpEmpty \/ PowerUpLoad \/ PowerCut \/ RecordStart \/ Record \/ ClockSet \/ TimeSynced
  BY <1>5 DEF PowerUpEmpty, PowerUpLoad, PowerCut, RecordStart, Record, PushEvent, ClockSet, TimeSynced,
     CopyInv
<1>6. CASE Clear \/ AppendOk \/ AppendFails \/ AppendNoRoom \/ BackfillEnd \/ CommitBank \/ JobFails
  BY <1>6 DEF Clear, AppendOk, AppendFails, AppendNoRoom, BackfillEnd, CommitBank, JobFails, CopyInv
<1>7. CASE BackfillOk \/ BackfillFails \/ BackfillRamOnly
  BY <1>7 DEF BackfillOk, BackfillFails, BackfillRamOnly, StampHead, CopyInv
<1> QED BY <1>1, <1>2, <1>3, <1>4, <1>5, <1>6, <1>7 DEF Next

-----------------------------------------------------------------------------
(* Flash and ring                                                          *)

(* A log is a suffix of itself.                                            *)
LEMMA SuffixSelf ==
    ASSUME NEW d, Len(d) \in Nat
    PROVE  Suffix(d, d)
<1>1. \A i \in 1..Len(d) : Len(d) - Len(d) + i = i
  OBVIOUS
<1> QED BY <1>1 DEF Suffix

(* What a step does to the log on flash.                                   *)
LEMMA DiskStep ==
    ASSUME JournalInv, Next
    PROVE  /\ ~HalfAppend(hdr', rec') /\ ~Switched(hdr', rec') => Disk' = Disk
           /\ Switched(hdr', rec') => Disk' = Contents
           /\ HalfAppend(hdr', rec') /\ tail = "whole" => Disk' \in {Disk, Upsert(Disk, AppendEntry)}
<1>1. FlashChange(hdr', rec')
  BY FlashStep DEF FlashChange, FlashIdle
<1>2. Disk' = DiskIn(hdr', rec')
  BY DiskIs
<1>3. ASSUME ~HalfAppend(hdr', rec'), ~Switched(hdr', rec') PROVE Disk' = Disk
  BY <1>1, <1>2, <1>3, DiskQuiet DEF FlashChange
<1> QED BY <1>2, <1>3, DiskSwitched, DiskAppended

(* A compaction that fails leaves the log on flash alone.                  *)
LEMMA JobFailsDisk ==
    ASSUME JournalInv, Next, JobFails
    PROVE  Disk' = Disk
<1> BankInv /\ pc \in Job
  BY DEF JournalInv, JobFails, Job
<1>1. ~HalfAppend(hdr', rec')
  BY DEF HalfAppend, Appending, Job
<1>2. CASE pc = "commit"
  <2>1. hdr' = hdr /\ ~hdr[Target].committed /\ hdr \in Headers /\ Target \in Banks
    <3>1. \E f \in {<<hdr, rec>>} : hdr' = f[1] /\ rec' = f[2]
      BY <1>2 DEF JobFails, Fault, FaultFlash
    <3> QED BY <1>2, <3>1, TypeFacts DEF BankInv, HeaderValid, JournalInv
  <2>2. [hdr EXCEPT ![Target].committed = TRUE] # hdr
    BY <2>1 DEF Headers
  <2> QED BY <1>1, <2>1, <2>2, DiskStep DEF Switched
<1>3. CASE pc # "commit"
  BY <1>1, <1>3, DiskStep DEF Switched
<1> QED BY <1>2, <1>3

(* The bank in use knows no id that the program will give out.             *)
LEMMA DiskOld ==
    ASSUME JournalInv, ready
    PROVE  /\ Disk \in Logs(Entries)
           /\ \A i \in 1..Len(Disk) : Disk[i].id \in Int /\ Disk[i].id < IdBound
<1> /\ JournalTypeOK /\ BankInv /\ PhaseInv /\ SlotReady /\ rec \in Records /\ Slots \in Nat
  BY TypeFacts, SlotParts, RingNat DEF JournalInv
<1>1. active # NoBank /\ active \in Banks
  BY TypeFacts DEF PhaseInv
<1>2. Disk = Replay(rec[active]) /\ rec[active] \in Cells /\ Disk \in Logs(Entries)
  BY <1>1, DiskActive
<1>3. /\ \A i \in 1..Len(Replay(rec[active])) : \E s \in 1..ValidCount(rec[active]) :
            Replay(rec[active])[i].id = rec[active][s].id
      /\ ValidCount(rec[active]) \in 0..Slots
  BY <1>2, ReplayAny, ValidCountExists
<1>4. \A s \in 1..Slots : rec[active][s].id \in Int /\ rec[active][s].id < IdBound
  BY <1>2, CellFacts DEF SlotReady, Cells
<1>5. \A s \in 1..ValidCount(rec[active]) : s \in 1..Slots
  BY <1>3
<1> QED BY <1>2, <1>3, <1>4, <1>5

(* The append of a recorded event adds it to the log on flash.             *)
LEMMA AppendIsPush ==
    ASSUME JournalInv, Appending, pc = "append"
    PROVE  Upsert(Disk, AppendEntry) = Pushed(Disk, buf[Newest])
<1> JournalTypeOK /\ BankInv /\ RamInv /\ PhaseInv /\ nextId \in Nat
  BY TypeFacts DEF JournalInv
<1>1. AppendEntry = buf[Newest] /\ AppendEntry.id = nextId - 1 /\ ready
  BY AppendEntryIs
<1>2. Disk \in Logs(Entries) /\ \A i \in 1..Len(Disk) : Disk[i].id # AppendEntry.id
  BY <1>1, DiskOld DEF IdBound
<1> QED BY <1>1, <1>2, UpsertNew

(* The newest slot of the ring is the event just recorded.                 *)
LEMMA RecordNewest ==
    ASSUME JournalInv, PushEvent, NEW e, Recorded(e)
    PROVE  buf'[Newest'] = e
<1> Ring \in Nat /\ Ring > 0 /\ RingIs(buf, head, count)
  BY TypeFacts, RingNat DEF JournalInv
<1>1. head \in 0..(Ring - 1) /\ buf \in [0..(Ring - 1) -> RingValues]
  BY DEF RingIs
<1>2. head' = (head + 1) % Ring /\ buf' = [buf EXCEPT ![head] = [id |-> nextId, timed |-> clock]]
  BY DEF PushEvent
<1>3. (head' + Ring - 1) % Ring = head
  <2>1. CASE head + 1 < Ring
    <3>1. head' = head + 1
      BY <1>1, <1>2, <2>1, Modulus
    <3>2. head' + Ring - 1 = head + Ring /\ head + Ring \in Nat
      BY <1>1, <3>1
    <3>3. (head + Ring) % Ring = head + Ring - Ring
      <4> DEFINE a == head + Ring
      <4>1. a \in Nat /\ Ring <= a /\ a < Ring + Ring
        BY <1>1
      <4> HIDE DEF a
      <4>2. a % Ring = a - Ring
        BY <4>1, Modulus
      <4> QED BY <1>1, <4>1, <4>2 DEF a
    <3> QED BY <1>1, <3>2, <3>3
  <2>2. CASE head + 1 = Ring
    <3>1. head' = 0
      <4>1. Ring % Ring = Ring - Ring
        BY Modulus
      <4> QED BY <1>2, <2>2, <4>1
    <3>2. (Ring - 1) % Ring = Ring - 1
      <4> DEFINE a == Ring - 1
      <4>1. a \in Nat /\ a < Ring
        OBVIOUS
      <4> HIDE DEF a
      <4>2. a % Ring = a
        BY <4>1, Modulus
      <4> QED BY <4>2 DEF a
    <3>3. head' + Ring - 1 = Ring - 1 /\ head = Ring - 1
      BY <1>1, <2>2, <3>1
    <3> QED BY <3>2, <3>3
  <2> QED BY <1>1, <2>1, <2>2
<1>4. Newest' = head
  BY <1>3 DEF Newest
<1>5. e = [id |-> nextId, timed |-> clock]
  BY DEF Recorded
<1> QED BY <1>1, <1>2, <1>4, <1>5

(* What the back-fill stamps is what it appends.                           *)
LEMMA StampEntry ==
    ASSUME JournalInv, Appending, pc = "backfill", NEW k \in 1..count, StampedAt(k)
    PROVE  /\ AppendEntry = [Contents[k] EXCEPT !.timed = TRUE] /\ AppendEntry \in Entries
           /\ AppendEntry.id = Contents[k].id /\ k \in 1..Len(Contents)
           /\ Contents' = [Contents EXCEPT ![k] = AppendEntry]
<1>1. Len(Contents) = count /\ Contents[k] \in Entries /\ Contents[k] = buf[Stamping]
  BY TypeFacts DEF JournalInv, StampedAt
<1>2. AppendEntry = [Contents[k] EXCEPT !.timed = TRUE]
  BY <1>1 DEF AppendEntry
<1> QED BY <1>1, <1>2 DEF StampedAt, Entries

(* The two logs after an append that succeeds in a bank that is in order.  *)
LEMMA LogsAppended ==
    ASSUME JournalInv, Next, AppendOk, tail = "whole"
    PROVE  Disk' = Pushed(Disk, buf[Newest]) /\ Contents' = Contents
<1>1. /\ Appending /\ pc = "append" /\ hdr' = hdr /\ active' = active
      /\ rec' = [rec EXCEPT ![active][nextRec + 1] = Programmed(@, AppendEntry)]
      /\ UNCHANGED <<buf, head, count>>
  BY DEF AppendOk, ramLog
<1>2. Disk' = Upsert(Disk, AppendEntry)
  BY <1>1, AppendSucceeds
<1> QED BY <1>1, <1>2, AppendIsPush, ContentsSame

(* A back-fill append that succeeds stamps both logs.                      *)
LEMMA LogsStamped ==
    ASSUME JournalInv, BackfillOk, tail = "whole"
    PROVE  /\ ready /\ ~compact /\ nextRec < Slots /\ pc = "backfill"
           /\ \E k \in 1..count :
                /\ StampedAt(k) /\ k \in 1..Len(Contents)
                /\ AppendEntry \in Entries /\ AppendEntry.id = Contents[k].id
                /\ AppendEntry = [Contents[k] EXCEPT !.timed = TRUE]
                /\ Contents' = [Contents EXCEPT ![k] = AppendEntry]
                /\ Disk' = Upsert(Disk, AppendEntry)
<1>1. /\ Appending /\ pc = "backfill" /\ hdr' = hdr /\ active' = active /\ StampHead
      /\ rec' = [rec EXCEPT ![active][nextRec + 1] = Programmed(@, AppendEntry)]
  BY DEF BackfillOk, StampHead
<1>2. Disk' = Upsert(Disk, AppendEntry)
  BY <1>1, AppendSucceeds
<1>3. PICK k \in 1..count : StampedAt(k)
  BY <1>1, StampIs
<1> QED BY <1>1, <1>2, <1>3, StampEntry DEF Appending

(* The flash knows what the program reports, after every step.             *)
LEMMA SuffixNext ==
    ASSUME JournalInv, Next
    PROVE  SuffixInv'
<1> SUFFICES ASSUME ready', tail' = "whole" PROVE SuffixInv'
  BY DEF SuffixInv
<1> /\ JournalTypeOK /\ BankInv /\ RamInv /\ PhaseInv /\ SuffixInv
    /\ nextRec \in Nat /\ nextRec <= Slots /\ Slots \in Nat /\ count \in Nat
    /\ Len(Contents) = count /\ Contents \in Logs(Entries) /\ Disk \in Logs(Entries)
    /\ Contents \in Seq(Entries) /\ Len(Contents) <= Ring
    /\ Disk \in Seq(Entries) /\ Len(Disk) <= Ring /\ Len(Disk) \in Nat
  BY TypeFacts, RingNat, DiskActive DEF JournalInv, RamInv, Logs
(* A step into or within the idle phases that agrees with the flash.       *)
<1>s. ASSUME Suffix(Contents', Disk'), pc' \in {"start", "idle"}, ~compact' PROVE SuffixInv'
  BY <1>s DEF SuffixInv, Job
(* A step into or within a compaction.                                     *)
<1>j. ASSUME pc' \in Job, nextRec' = Slots \/ count' = 0 PROVE SuffixInv'
  BY <1>j DEF SuffixInv, Job
<1>1. CASE PowerUpLoad
  <2>1. Disk' = Disk /\ Contents' = Disk
    <3>1. ~HalfAppend(hdr', rec') /\ ~Switched(hdr', rec')
      BY <1>1 DEF PowerUpLoad, HalfAppend, Appending, Switched
    <3> QED BY <1>1, <3>1, DiskStep, RamStep
            DEF PowerUpLoad, RecordStart, Record, BackfillOk, BackfillFails, BackfillRamOnly, StampHead,
                Clear, PowerCut, JobFails, TimeSynced, PowerUpEmpty, ClockSet, AppendOk, AppendFails,
                AppendNoRoom, BackfillEnd, EraseBank, CopyRecord, CopyDone, WriteHeader, CommitBank
  <2>2. pc' = "start" /\ ~compact'
    BY <1>1 DEF PowerUpLoad, PhaseInv
  <2> QED BY <1>s, <2>1, <2>2, SuffixSelf
<1>2. CASE RecordStart \/ Record
  <2>1. PushEvent /\ pc \in {"start", "idle"}
    BY <1>2 DEF RecordStart, Record
  <2>2. PICK e \in Entries : Recorded(e)
    BY <2>1, RecordIs
  <2>3. buf'[Newest'] = e
    BY <2>1, <2>2, RecordNewest
  <2>4. /\ pc' = "append" /\ ready /\ tail = "whole" /\ nextRec' = nextRec /\ ~compact'
        /\ hdr' = hdr /\ rec' = rec
    BY <2>1 DEF PushEvent, journal, history, PhaseInv, flash
  <2>5. Disk' = Disk /\ Contents' = Pushed(Contents, e)
    <3>1. ~HalfAppend(hdr', rec') /\ ~Switched(hdr', rec')
      BY <2>1 DEF HalfAppend, Appending, Switched
    <3> QED BY <2>2, <3>1, DiskStep DEF Recorded
  <2>6. ASSUME nextRec < Slots PROVE Suffix(Contents', Pushed(Disk', buf'[Newest']))
    <3>1. Suffix(Contents, Disk)
      BY <2>1, <2>4, <2>6 DEF SuffixInv
    <3>2. Suffix(Pushed(Contents, e), Pushed(Disk, e))
      BY <2>2, <3>1, PushedSuffix
    <3> QED BY <2>3, <2>5, <3>2
  <2> QED BY <2>4, <2>6 DEF SuffixInv, Job
<1>3. CASE ClockSet
  <2>1. /\ pc = "idle" /\ pc' = pc /\ UNCHANGED <<hdr, rec, buf, head, count, ready, tail, nextRec,
                                                  stored, compact>>
    BY <1>3 DEF ClockSet, flash, ramLog, journal, history
  <2>2. Disk' = Disk /\ Contents' = Contents
    BY <2>1, ContentsSame, DiskIs
  <2> QED BY <2>1, <2>2 DEF SuffixInv, Job, PhaseInv
<1>4. CASE TimeSynced
  <2>1. /\ pc = "idle" /\ pc' = "backfill" /\ todo' # {}
        /\ UNCHANGED <<hdr, rec, buf, head, count, ready, tail, nextRec, compact>>
    BY <1>4 DEF TimeSynced, flash, ramLog, journal, history
  <2>2. Disk' = Disk /\ Contents' = Contents
    BY <2>1, ContentsSame, DiskIs
  <2> QED BY <2>1, <2>2 DEF SuffixInv, Job, PhaseInv
<1>5. CASE Clear
  <2>1. pc' = "erase" /\ count' = 0
    BY <1>5 DEF Clear
  <2> QED BY <1>j, <2>1 DEF Job
<1>6. CASE AppendOk
  <2>1. /\ pc = "append" /\ nextRec < Slots /\ pc' = "idle" /\ ~compact' /\ tail = "whole" /\ ready
    BY <1>6 DEF AppendOk, Appending, PhaseInv, history
  <2>2. Suffix(Contents, Pushed(Disk, buf[Newest]))
    BY <2>1 DEF SuffixInv
  <2> QED BY <1>6, <1>s, <2>1, <2>2, LogsAppended
<1>7. CASE AppendFails \/ BackfillFails
  BY <1>7 DEF AppendFails, BackfillFails, FailedTail
<1>8. CASE AppendNoRoom
  <2>1. pc' = "erase" /\ nextRec' = nextRec /\ nextRec >= Slots
    BY <1>8 DEF AppendNoRoom, journal
  <2> QED BY <1>j, <2>1 DEF Job
<1>9. CASE BackfillOk
  <2>1. /\ tail = "whole" /\ ready /\ pc' = "backfill" /\ compact' = compact
    BY <1>9 DEF BackfillOk, StampHead, history
  <2>2. /\ ready /\ ~compact /\ nextRec < Slots /\ pc = "backfill"
        /\ \E k \in 1..Len(Contents) :
             /\ AppendEntry \in Entries /\ AppendEntry.id = Contents[k].id
             /\ Contents' = [Contents EXCEPT ![k] = AppendEntry]
             /\ Disk' = Upsert(Disk, AppendEntry)
    BY <1>9, <2>1, LogsStamped
  <2>3. PICK k \in 1..Len(Contents) :
             /\ AppendEntry \in Entries /\ AppendEntry.id = Contents[k].id
             /\ Contents' = [Contents EXCEPT ![k] = AppendEntry]
             /\ Disk' = Upsert(Disk, AppendEntry)
    BY <2>2
  <2>4. Suffix(Contents, Disk)
    BY <2>1, <2>2 DEF SuffixInv
  <2>5. Suffix(Contents', Disk')
    <3> DEFINE r == AppendEntry
               c == Contents
               d == Disk
    <3>1. r \in Entries /\ r.id = c[k].id /\ k \in 1..Len(c) /\ Suffix(c, d)
          /\ c \in Logs(Entries) /\ d \in Logs(Entries)
          /\ Contents' = [c EXCEPT ![k] = r] /\ Disk' = Upsert(d, r)
      BY <2>3, <2>4
    <3> HIDE DEF r, c, d
    <3>2. Suffix([c EXCEPT ![k] = r], Upsert(d, r))
      BY <3>1, ReplacedSuffix
    <3> QED BY <3>1, <3>2
  <2> QED BY <2>1, <2>2, <2>5 DEF SuffixInv, Job
<1>10. CASE BackfillRamOnly
  <2>1. /\ ~Appending /\ pc = "backfill" /\ todo # {} /\ ready' = ready /\ pc' = pc
        /\ compact' = ready /\ nextRec' = nextRec /\ count' = count /\ tail' = tail
    BY <1>10 DEF BackfillRamOnly, StampHead, history
  <2>2. nextRec = Slots \/ count = 0
    <3>1. CASE compact
      BY <2>1, <3>1 DEF SuffixInv
    <3>2. CASE ~compact
      BY <2>1, <3>2 DEF Appending
    <3> QED BY <3>1, <3>2
  <2> QED BY <2>1, <2>2 DEF SuffixInv, Job
<1>11. CASE BackfillEnd
  <2>1. /\ pc = "backfill" /\ todo = {} /\ pc' = (IF compact THEN "erase" ELSE "idle") /\ ~compact'
        /\ UNCHANGED <<hdr, rec, buf, head, count, ready, tail, nextRec>>
    BY <1>11 DEF BackfillEnd, flash, ramLog, journal, history
  <2>2. Disk' = Disk /\ Contents' = Contents
    BY <2>1, ContentsSame, DiskIs
  <2>3. CASE compact
    <3>1. nextRec = Slots \/ count = 0
      BY <2>1, <2>3 DEF SuffixInv
    <3> QED BY <1>j, <2>1, <2>3, <3>1 DEF Job
  <2>4. CASE ~compact
    <3>1. Suffix(Contents, Disk)
      BY <2>1, <2>4 DEF SuffixInv
    <3> QED BY <1>s, <2>1, <2>2, <2>4, <3>1
  <2> QED BY <2>3, <2>4
<1>12. CASE EraseBank \/ CopyRecord \/ CopyDone \/ WriteHeader
  <2>1. /\ pc \in Job /\ pc' \in Job /\ UNCHANGED <<count, ready, tail, nextRec>>
    BY <1>12 DEF EraseBank, CopyRecord, CopyDone, WriteHeader, Job, ramLog, journal, history
  <2> QED BY <1>j, <2>1 DEF SuffixInv
<1>13. CASE CommitBank
  <2>1. /\ Switched(hdr', rec') /\ UNCHANGED <<buf, head, count>> /\ pc' \in {"idle", "start"}
        /\ compact' = compact /\ pc = "commit"
    BY <1>13 DEF CommitBank, Switched, ramLog
  <2>2. Disk' = Contents /\ Contents' = Contents /\ ~compact'
    BY <2>1, DiskStep, ContentsSame DEF PhaseInv
  <2> QED BY <1>s, <2>1, <2>2, SuffixSelf
<1>14. CASE JobFails
  <2>1. /\ pc \in Job /\ ready /\ tail = "whole" /\ pc' = "idle" /\ ~stored' /\ nextRec' = nextRec
        /\ UNCHANGED <<buf, head, count>> /\ ~compact'
    BY <1>14 DEF JobFails, Job, journal, PhaseInv
  <2>3. Disk' = Disk /\ Contents' = Contents
    BY <1>14, <2>1, JobFailsDisk, ContentsSame
  <2>4. nextRec = Slots \/ count = 0
    BY <2>1 DEF SuffixInv
  <2>5. nextRec < Slots => Suffix(Contents', Disk')
    BY <2>3, <2>4 DEF Suffix
  <2> QED BY <2>1, <2>5 DEF SuffixInv, Job
<1>15. CASE PowerUpEmpty \/ PowerCut
  BY <1>15 DEF PowerUpEmpty, PowerCut, RamReset, PhaseInv
<1> QED
  BY <1>1, <1>2, <1>3, <1>4, <1>5, <1>6, <1>7, <1>8, <1>9, <1>10, <1>11, <1>12, <1>13, <1>14, <1>15
  DEF Next

(* Without failures flash and ring agree, after every step.                *)
LEMMA SoundNext ==
    ASSUME JournalInv, Next
    PROVE  SoundInv'
<1> SUFFICES ASSUME sound' PROVE SoundInv'
  BY DEF SoundInv
<1> /\ JournalTypeOK /\ BankInv /\ RamInv /\ PhaseInv /\ SoundInv
    /\ Contents \in Logs(Entries) /\ Disk \in Logs(Entries)
  BY DiskActive DEF JournalInv, RamInv
<1>u. sound /\ ~(AppendFails \/ BackfillFails \/ JobFails)
  <2>1. sound' => sound
    BY FaultIs DEF Next, PowerUpEmpty, PowerUpLoad, PowerCut, RecordStart, Record, PushEvent, ClockSet,
       TimeSynced, Clear, AppendOk, AppendFails, AppendNoRoom, BackfillOk, BackfillFails,
       BackfillRamOnly, BackfillEnd, EraseBank, CopyRecord, CopyDone, WriteHeader, CommitBank, JobFails,
       history
  <2> QED BY <2>1, FaultIs DEF AppendFails, BackfillFails, JobFails
<1> tail = "whole"
  BY <1>u DEF SoundInv
(* A step into an idle phase that agrees with the flash.                   *)
<1>s. ASSUME Disk' = Contents', pc' \in {"start", "idle"}, ready', tail' = "whole" PROVE SoundInv'
  BY <1>s DEF SoundInv
<1>j. ASSUME pc' \in Job \cup {"off"}, tail' = "whole" PROVE SoundInv'
  BY <1>j DEF SoundInv, Job
<1>q. ASSUME ~HalfAppend(hdr', rec'), ~Switched(hdr', rec') PROVE Disk' = Disk
  BY <1>q, DiskStep
<1>1. CASE PowerUpEmpty
  BY <1>1, <1>j DEF PowerUpEmpty, history, Job
<1>2. CASE PowerUpLoad
  <2>1. ~HalfAppend(hdr', rec') /\ ~Switched(hdr', rec')
    BY <1>2 DEF PowerUpLoad, HalfAppend, Appending, Switched
  <2>2. Contents' = Disk
    BY <1>2, RamStep
       DEF PowerUpLoad, RecordStart, Record, BackfillOk, BackfillFails, BackfillRamOnly, StampHead,
           Clear, PowerCut, JobFails, TimeSynced, PowerUpEmpty, ClockSet, AppendOk, AppendFails,
           AppendNoRoom, BackfillEnd, EraseBank, CopyRecord, CopyDone, WriteHeader, CommitBank
  <2>3. /\ ready' = ~DamagedTail(rec[Chosen]) /\ tail' = "whole"
        /\ pc' = IF DamagedTail(rec[Chosen]) THEN "erase" ELSE "start"
    BY <1>2 DEF PowerUpLoad, history
  <2>4. CASE DamagedTail(rec[Chosen])
    BY <1>j, <2>3, <2>4 DEF Job
  <2>5. CASE ~DamagedTail(rec[Chosen])
    BY <1>q, <1>s, <2>1, <2>2, <2>3, <2>5
  <2> QED BY <2>4, <2>5
<1>3. CASE PowerCut
  BY <1>3, <1>j DEF PowerCut
<1>4. CASE RecordStart \/ Record
  <2>1. PushEvent /\ pc \in {"start", "idle"}
    BY <1>4 DEF RecordStart, Record
  <2>2. PICK e \in Entries : Recorded(e)
    BY <2>1, RecordIs
  <2>3. buf'[Newest'] = e
    BY <2>1, <2>2, RecordNewest
  <2>4. /\ ready /\ Disk = Contents
    BY <1>u, <2>1 DEF SoundInv
  <2>5. pc' = "append" /\ tail' = "whole" /\ ready'
    BY <2>1, <2>4 DEF PushEvent, history
  <2>6. Disk' = Disk
    BY <1>q, <2>1 DEF HalfAppend, Appending, Switched
  <2>7. Contents' = Pushed(Disk', buf'[Newest'])
    BY <2>2, <2>3, <2>4, <2>6 DEF Recorded
  <2> QED BY <2>5, <2>7 DEF SoundInv
<1>5. CASE ClockSet
  <2>1. /\ pc = "idle" /\ pc' = pc /\ UNCHANGED <<hdr, rec, buf, head, count, ready, tail>>
    BY <1>5 DEF ClockSet, flash, ramLog, history
  <2>2. Disk' = Disk /\ Contents' = Contents
    BY <2>1, ContentsSame, DiskIs
  <2> QED BY <1>s, <1>u, <2>1, <2>2 DEF SoundInv
<1>6. CASE TimeSynced
  <2>1. /\ pc = "idle" /\ pc' = "backfill" /\ UNCHANGED <<hdr, rec, buf, head, count, ready, tail>>
    BY <1>6 DEF TimeSynced, flash, ramLog, history
  <2>2. Disk' = Disk /\ Contents' = Contents
    BY <2>1, ContentsSame, DiskIs
  <2> QED BY <1>u, <2>1, <2>2 DEF SoundInv
<1>7. CASE Clear
  <2>1. pc' = "erase" /\ tail' = "whole"
    BY <1>7, <1>u DEF Clear, SoundInv, history
  <2> QED BY <1>j, <2>1 DEF Job
<1>8. CASE AppendOk
  <2>1. /\ pc = "append" /\ ready /\ ready' /\ pc' = "idle" /\ tail' = "whole"
    BY <1>8 DEF AppendOk, Appending, history
  <2>2. Contents = Pushed(Disk, buf[Newest])
    BY <1>u, <2>1 DEF SoundInv
  <2> QED BY <1>8, <1>s, <2>1, <2>2, LogsAppended
<1>9. CASE AppendNoRoom
  BY <1>9, <1>j DEF AppendNoRoom, history, Job
<1>10. CASE BackfillOk
  <2>1. /\ ready /\ ~compact /\ pc = "backfill"
        /\ \E k \in 1..Len(Contents) :
             /\ AppendEntry \in Entries /\ AppendEntry.id = Contents[k].id
             /\ Contents' = [Contents EXCEPT ![k] = AppendEntry]
             /\ Disk' = Upsert(Disk, AppendEntry)
    BY <1>10, LogsStamped
  <2>2. PICK k \in 1..Len(Contents) :
             /\ AppendEntry \in Entries /\ AppendEntry.id = Contents[k].id
             /\ Contents' = [Contents EXCEPT ![k] = AppendEntry]
             /\ Disk' = Upsert(Disk, AppendEntry)
    BY <2>1
  <2>3. Disk = Contents
    BY <1>u, <2>1 DEF SoundInv
  <2>4. Upsert(Contents, AppendEntry) = [Contents EXCEPT ![k] = AppendEntry]
    BY <2>2, UpsertKnown
  <2>5. Disk' = Contents'
    BY <2>2, <2>3, <2>4
  <2>6. pc' = "backfill" /\ ready' /\ tail' = "whole"
    BY <1>10, <2>1 DEF BackfillOk, StampHead, history
  <2> QED BY <2>5, <2>6 DEF SoundInv
<1>11. CASE BackfillRamOnly
  <2>1. /\ pc' = "backfill" /\ ready /\ ready' /\ compact' /\ tail' = "whole"
    BY <1>11, <1>u DEF BackfillRamOnly, StampHead, history, SoundInv
  <2> QED BY <2>1 DEF SoundInv
<1>12. CASE BackfillEnd
  <2>1. /\ pc = "backfill" /\ pc' = (IF compact THEN "erase" ELSE "idle") /\ tail' = "whole"
        /\ UNCHANGED <<hdr, rec, buf, head, count, ready>>
    BY <1>12 DEF BackfillEnd, flash, ramLog, history
  <2>2. Disk' = Disk /\ Contents' = Contents
    BY <2>1, ContentsSame, DiskIs
  <2>3. CASE compact
    BY <1>j, <2>1, <2>3 DEF Job
  <2>4. CASE ~compact
    BY <1>s, <1>u, <2>1, <2>2, <2>4 DEF SoundInv
  <2> QED BY <2>3, <2>4
<1>13. CASE EraseBank \/ CopyRecord \/ CopyDone \/ WriteHeader
  BY <1>13, <1>j DEF EraseBank, CopyRecord, CopyDone, WriteHeader, Job, history
<1>14. CASE CommitBank
  <2>1. /\ Switched(hdr', rec') /\ UNCHANGED <<buf, head, count>> /\ pc' \in {"idle", "start"}
        /\ ready' /\ tail' = "whole"
    BY <1>14 DEF CommitBank, Switched, ramLog
  <2> QED BY <1>s, <2>1, DiskStep, ContentsSame
<1> QED
  BY <1>u, <1>1, <1>2, <1>3, <1>4, <1>5, <1>6, <1>7, <1>8, <1>9, <1>10, <1>11, <1>12, <1>13, <1>14
  DEF Next

(* A blank flash and a program that does not run satisfy the invariant.    *)
LEMMA JournalInvInit == Init => JournalInv
<1> SUFFICES ASSUME Init PROVE JournalInv
  OBVIOUS
<1>1. BankInv
  BY JournalInitInv
<1>2. JournalTypeOK
  <2>1. 0 \in 0..MaxGen /\ 0 \in 0..(Ring - 1) /\ 0 \in 0..Ring /\ 1 \in 1..(MaxId + 1) /\ 0 \in 0..Slots
        /\ 0 \in 0..MaxFaults
    BY JournalAssumption
  <2>2. hdr \in [Banks -> [gen : 0..MaxGen, committed : BOOLEAN]]
    BY <2>1 DEF Init, NoHeader
  <2>3. rec \in [Banks -> [1..Slots -> Entries \cup {Erased, Torn}]]
    BY DEF Init, BlankBank
  <2>4. buf \in [0..(Ring - 1) -> Entries \cup {Erased}]
    BY DEF Init
  <2> QED BY <2>1, <2>2, <2>3, <2>4 DEF Init, JournalTypeOK
<1>3. Contents = <<>>
  <2>1. RingIs(buf, head, count) /\ count = 0
    BY <1>2 DEF JournalTypeOK, RingIs, RingValues, Init
  <2> QED BY <2>1, RingLogFacts, ContentsIs
<1>4. PhaseInv
  BY DEF Init, PhaseInv, Job
<1>5. RamInv
  <2>1. <<>> \in Logs(Entries)
    BY RingNat DEF Logs, Distinct
  <2> QED BY <1>3, <2>1 DEF Init, RamInv
<1>6. SlotInv
  BY DEF Init, SlotInv, Packed, BlankBank
<1>7. CopyInv /\ SuffixInv /\ SoundInv
  BY DEF Init, CopyInv, SuffixInv, SoundInv
<1> QED BY <1>1, <1>2, <1>4, <1>5, <1>6, <1>7 DEF JournalInv

(* Every step preserves the invariant.                                     *)
LEMMA JournalInvNext == JournalInv /\ [Next]_vars => JournalInv'
<1>1. CASE JournalInv /\ Next
  <2>1. BankInv'
    BY <1>1, JournalNextInv DEF JournalInv
  <2>2. JournalTypeOK' /\ PhaseInv'
    BY <1>1, TypesNext, ControlNext
  <2>3. RamInv' /\ SlotInv' /\ CopyInv' /\ SuffixInv' /\ SoundInv'
    BY <1>1, RamNext, SlotNext, CopyNext, SuffixNext, SoundNext
  <2> QED BY <2>1, <2>2, <2>3 DEF JournalInv
<1>2. CASE JournalInv /\ UNCHANGED vars
  <2>1. /\ UNCHANGED <<hdr, rec, buf, head, count, nextId, firstId, clock, ready, active, gen>>
        /\ UNCHANGED <<nextRec, pc, todo, compact, written, faults, stored, sound, tail>>
    BY <1>2 DEF vars
  <2>2. Contents' = Contents /\ Disk' = Disk /\ Target' = Target /\ buf'[Newest'] = buf[Newest]
    BY <2>1, ContentsSame, DiskIs DEF Target, Newest
  <2>3. JournalTypeOK'
    BY <1>2, <2>1 DEF JournalInv, JournalTypeOK
  <2>4. BankInv' /\ PhaseInv'
    BY <1>2, <2>1, JournalNextInv DEF JournalInv, PhaseInv, Job
  <2>5. RamInv'
    <3>1. {IndexOf(i - 1)' : i \in 1..count'} = {IndexOf(i - 1) : i \in 1..count}
      BY <2>1 DEF IndexOf
    <3> QED BY <1>2, <2>1, <2>2, <3>1 DEF JournalInv, RamInv
  <2>6. SlotInv' /\ CopyInv'
    BY <1>2, <2>1, <2>2 DEF JournalInv, SlotInv, CopyInv, Packed, Whole
  <2>7. SuffixInv' /\ SoundInv'
    BY <1>2, <2>1, <2>2 DEF JournalInv, SuffixInv, SoundInv, Job
  <2> QED BY <2>3, <2>4, <2>5, <2>6, <2>7 DEF JournalInv
<1> QED BY <1>1, <1>2

-----------------------------------------------------------------------------
(* Nothing the flash took is lost                                          *)

(* A suffix has no other events.                                           *)
LEMMA SuffixMembers ==
    ASSUME NEW c, NEW d, Len(c) \in Nat, Len(d) \in Nat, DOMAIN c = 1..Len(c), DOMAIN d = 1..Len(d),
           Suffix(c, d)
    PROVE  \A i \in DOMAIN c : \E j \in DOMAIN d : c[i] = d[j]
<1> SUFFICES ASSUME NEW i \in 1..Len(c) PROVE \E j \in 1..Len(d) : c[i] = d[j]
  OBVIOUS
<1>1. Len(d) - Len(c) + i \in 1..Len(d)
  BY DEF Suffix
<1> QED BY <1>1 DEF Suffix

(* The invariant implies what the journal promises.                        *)
LEMMA JournalInvDurable == JournalInv => JournalDurable
<1> SUFFICES ASSUME JournalInv PROVE JournalDurable
  OBVIOUS
<1> /\ JournalTypeOK /\ BankInv /\ PhaseInv /\ SuffixInv /\ SoundInv /\ Disk \in Logs(Entries)
    /\ Len(Contents) = count /\ count \in Nat /\ DOMAIN Contents = 1..count
  BY TypeFacts, DiskActive DEF JournalInv
<1>1. Len(Disk) \in Nat /\ DOMAIN Disk = 1..Len(Disk)
  BY DEF Logs
<1>2. StoredEventsDurable
  <2> SUFFICES ASSUME pc = "idle", ready, stored, tail # "broken"
               PROVE  EventsOf(Contents) \subseteq EventsOf(Disk)
    BY DEF StoredEventsDurable
  <2>1. tail = "whole"
    BY DEF PhaseInv, JournalTypeOK, Job
  <2>2. Suffix(Contents, Disk)
    BY <2>1 DEF SuffixInv
  <2> QED BY <1>1, <2>2, SuffixMembers DEF EventsOf
<1>3. IdleSynced
  BY DEF IdleSynced, SoundInv
<1> QED BY <1>2, <1>3 DEF JournalDurable

(* A journal append that is under way finds the bank in order, unless it   *)
(* follows a failed append that was not repaired.                          *)
LEMMA AppendingWhole ==
    ASSUME JournalInv, Appending, tail # "broken"
    PROVE  tail = "whole"
BY DEF JournalInv, JournalTypeOK, PhaseInv, Appending, Job

(* What the flash holds when the append under way has arrived.             *)
LEMMA AppendArrives ==
    ASSUME JournalInv, Appending, tail = "whole"
    PROVE  /\ pc = "append" =>
                /\ Upsert(Disk, AppendEntry) = Pushed(Disk, buf[Newest])
                /\ Suffix(Contents, Upsert(Disk, AppendEntry))
           /\ pc = "backfill" =>
                \E k \in 1..Len(Contents) :
                    /\ Contents[k] \in Entries /\ AppendEntry \in Entries
                    /\ AppendEntry = [Contents[k] EXCEPT !.timed = TRUE]
                    /\ AppendEntry.id = Contents[k].id
                    /\ Suffix(Contents, Disk)
           /\ pc \in {"append", "backfill"}
<1> JournalTypeOK /\ BankInv /\ RamInv /\ PhaseInv /\ SuffixInv /\ Len(Contents) = count
  BY TypeFacts DEF JournalInv
<1>1. ready /\ nextRec < Slots /\ (pc = "append" \/ (pc = "backfill" /\ todo # {} /\ ~compact))
  BY DEF Appending
<1>2. CASE pc = "append"
  BY <1>1, <1>2, AppendIsPush DEF SuffixInv
<1>3. CASE pc = "backfill" /\ todo # {} /\ ~compact
  <2>1. PICK k \in 1..count : buf[Stamping] = Contents[k] /\ Contents[k] \in Entries
    BY <1>3, StampingIs
  <2>2. AppendEntry = [Contents[k] EXCEPT !.timed = TRUE]
    BY <1>3, <2>1 DEF AppendEntry
  <2>3. AppendEntry \in Entries /\ AppendEntry.id = Contents[k].id
    BY <2>1, <2>2 DEF Entries
  <2>4. Suffix(Contents, Disk)
    BY <1>1, <1>3 DEF SuffixInv
  <2> QED BY <1>3, <2>1, <2>2, <2>3, <2>4
<1> QED BY <1>1, <1>2, <1>3

(* No step makes the flash forget an event the program reports.            *)
LEMMA ForgetsNothing ==
    ASSUME JournalInv, Next, ~(tail = "broken" /\ Appending)
    PROVE  IdsOf(Disk) \cap IdsOf(Contents) \subseteq IdsOf(Disk')
<1> /\ JournalTypeOK /\ BankInv /\ Disk \in Logs(Entries)
    /\ Len(Contents) \in Nat /\ DOMAIN Contents = 1..Len(Contents)
    /\ Len(Disk) \in Nat /\ DOMAIN Disk = 1..Len(Disk)
  BY TypeFacts, DiskActive DEF JournalInv, Logs
<1>1. CASE ~HalfAppend(hdr', rec')
  <2>1. Disk' \in {Disk, Contents}
    BY <1>1, DiskStep
  <2> QED BY <2>1 DEF IdsOf
<1>2. CASE HalfAppend(hdr', rec')
  <2>1. Appending /\ tail = "whole"
    BY <1>2, AppendingWhole DEF HalfAppend
  <2>2. Disk' \in {Disk, Upsert(Disk, AppendEntry)}
    BY <1>2, <2>1, DiskStep
  <2>3. CASE Disk' = Disk
    BY <2>3
  <2>4. CASE Disk' = Upsert(Disk, AppendEntry) /\ pc = "append"
    <3>1. Suffix(Contents, Disk') /\ Disk' \in Logs(Entries)
      <4>1. AppendEntry \in Entries
        BY <2>1, AppendEntryIs DEF JournalInv
      <4> QED BY <2>1, <2>4, <4>1, AppendArrives, UpsertLog
    <3>2. Len(Disk') \in Nat /\ DOMAIN Disk' = 1..Len(Disk')
      BY <3>1 DEF Logs
    <3>3. \A i \in DOMAIN Contents : \E j \in DOMAIN Disk' : Contents[i] = Disk'[j]
      <4> SUFFICES ASSUME NEW i \in 1..Len(Contents) PROVE \E j \in 1..Len(Disk') : Contents[i] = Disk'[j]
        BY <3>2
      <4>1. Len(Disk') - Len(Contents) + i \in 1..Len(Disk')
        BY <3>1, <3>2 DEF Suffix
      <4>2. Contents[i] = Disk'[Len(Disk') - Len(Contents) + i]
        BY <3>1 DEF Suffix
      <4> QED BY <4>1, <4>2
    <3>4. IdsOf(Contents) \subseteq IdsOf(Disk')
      BY <3>3 DEF IdsOf
    <3> QED BY <3>4
  <2>5. CASE Disk' = Upsert(Disk, AppendEntry) /\ pc = "backfill"
    <3>1. PICK k \in 1..Len(Contents) : /\ AppendEntry \in Entries /\ AppendEntry.id = Contents[k].id
                                        /\ Suffix(Contents, Disk)
      BY <2>1, <2>5, AppendArrives
    <3>2. PICK j \in DOMAIN Disk : Contents[k] = Disk[j]
      BY <3>1, SuffixMembers
    <3> DEFINE d == Disk
               r == AppendEntry
    <3>3. d \in Logs(Entries) /\ r \in Entries /\ j \in 1..Len(d) /\ d[j].id = r.id
      BY <3>1, <3>2
    <3>4. Disk' = Upsert(d, r) /\ IdsOf(Disk) = IdsOf(d) /\ DOMAIN d = 1..Len(d)
      BY <2>5
    <3> HIDE DEF d, r
    <3>5. Upsert(d, r) = [d EXCEPT ![j] = r]
      BY <3>3, UpsertKnown
    <3>6. \A i \in 1..Len(d) : [d EXCEPT ![j] = r][i].id = d[i].id
      BY <3>3, ReplacedLog
    <3>7. IdsOf(Upsert(d, r)) = IdsOf(d)
      BY <3>4, <3>5, <3>6 DEF IdsOf
    <3> QED BY <3>4, <3>7
  <2> QED BY <2>1, <2>2, <2>3, <2>4, <2>5, AppendArrives
<1> QED BY <1>1, <1>2

-----------------------------------------------------------------------------
(* The refinement of the durable log                                       *)

(* The abstract log and the ring push an event alike.                      *)
LEMMA PushIs ==
    ASSUME NEW log \in Logs(Entries), NEW e
    PROVE  Abstract!Push(log, e) = Pushed(log, e)
BY RingNat DEF Abstract!Push, Pushed, Logs

(* The journal starts as the abstract log does.                            *)
LEMMA RefinesInit == Init => Abstract!LogInit
<1> SUFFICES ASSUME Init PROVE Abstract!LogInit
  OBVIOUS
<1>1. JournalInv
  BY JournalInvInit
<1>2. Contents = <<>>
  <2>1. RingIs(buf, head, count) /\ count = 0
    BY <1>1, TypeFacts DEF JournalInv, Init
  <2> QED BY <2>1, RingLogFacts, ContentsIs
<1>3. Disk = <<>>
  <2>1. hdr \in Headers /\ \A b \in Banks : ~hdr[b].committed
    BY DEF Init, NoHeader, Headers
  <2> QED BY <2>1, NothingChosen, DiskIs
<1> QED BY <1>2, <1>3 DEF Abstract!LogInit, Init

(* A loss of power leaves the log before or after the operation under way. *)
LEMMA RefinesPowerCut ==
    ASSUME JournalInv, PowerCut, Next, sound
    PROVE  Abstract!PowerCut
<1> /\ JournalTypeOK /\ BankInv /\ SoundInv /\ Disk \in Logs(Entries) /\ Contents \in Logs(Entries)
    /\ DOMAIN Contents = 1..Len(Contents)
  BY TypeFacts, DiskActive DEF JournalInv, RamInv, Logs
<1>1. pc # "off" /\ pc' = "off" /\ count' = 0
  BY DEF PowerCut, RamReset
<1>2. Contents' = <<>>
  BY <1>1, TypesNext, ContentsNone
<1>3. Disk' \in IF Disk = Contents
                THEN {Contents} \cup {Abstract!Stamped(Contents, i) : i \in DOMAIN Contents}
                ELSE {Disk, Contents}
  <2>1. CASE ~HalfAppend(hdr', rec')
    BY <2>1, DiskStep
  <2>2. CASE HalfAppend(hdr', rec')
    <3>1. Appending /\ tail = "whole"
      BY <2>2 DEF HalfAppend, SoundInv
    <3>2. Disk' \in {Disk, Upsert(Disk, AppendEntry)}
      BY <2>2, <3>1, DiskStep
    <3>3. CASE pc = "append"
      <4>1. Upsert(Disk, AppendEntry) = Contents
        BY <3>1, <3>3, AppendArrives DEF SoundInv
      <4> QED BY <3>2, <4>1
    <3>4. CASE pc = "backfill"
      <4>1. PICK k \in 1..Len(Contents) :
                /\ AppendEntry \in Entries /\ AppendEntry.id = Contents[k].id
                /\ AppendEntry = [Contents[k] EXCEPT !.timed = TRUE]
        BY <3>1, <3>4, AppendArrives
      <4>2. Disk = Contents
        BY <3>1, <3>4 DEF SoundInv, Appending
      <4>3. Upsert(Contents, AppendEntry) = [Contents EXCEPT ![k] = AppendEntry]
        BY <4>1, UpsertKnown
      <4>4. Upsert(Contents, AppendEntry) = Abstract!Stamped(Contents, k)
        BY <4>1, <4>3 DEF Abstract!Stamped
      <4> QED BY <3>2, <4>2, <4>4
    <3> QED BY <3>1, <3>3, <3>4, AppendArrives
  <2> QED BY <2>1, <2>2
<1> QED BY <1>1, <1>2, <1>3 DEF Abstract!PowerCut

(* Every step without a failing flash operation is a step of the abstract  *)
(* log or none of its business.                                            *)
LEMMA RefinesStep ==
    ASSUME JournalInv, Next, sound'
    PROVE  [Abstract!LogNext]_<<Contents, Disk, pc # "off">>
<1> /\ JournalTypeOK /\ BankInv /\ RamInv /\ PhaseInv /\ SoundInv /\ SoundInv'
    /\ Disk \in Logs(Entries) /\ Contents \in Logs(Entries)
    /\ Len(Contents) = count /\ DOMAIN Contents = 1..count
  BY TypeFacts, DiskActive, SoundNext DEF JournalInv, RamInv
<1>u. sound /\ ~(AppendFails \/ BackfillFails \/ JobFails)
  <2>1. sound' => sound
    BY FaultIs DEF Next, PowerUpEmpty, PowerUpLoad, PowerCut, RecordStart, Record, PushEvent, ClockSet,
       TimeSynced, Clear, AppendOk, AppendFails, AppendNoRoom, BackfillOk, BackfillFails,
       BackfillRamOnly, BackfillEnd, EraseBank, CopyRecord, CopyDone, WriteHeader, CommitBank, JobFails,
       history
  <2> QED BY <2>1, FaultIs DEF AppendFails, BackfillFails, JobFails
<1>w. tail = "whole"
  BY <1>u DEF SoundInv
<1>q. ASSUME ~HalfAppend(hdr', rec'), ~Switched(hdr', rec') PROVE Disk' = Disk
  BY <1>q, DiskStep
<1>t. ASSUME Contents' = Contents, Disk' = Disk, pc # "off", pc' # "off"
      PROVE  [Abstract!LogNext]_<<Contents, Disk, pc # "off">>
  BY <1>t
<1>1. CASE PowerUpEmpty
  <2>1. /\ pc = "off" /\ Chosen = NoBank /\ pc' # "off" /\ UNCHANGED <<hdr, rec, buf, head, count>>
    BY <1>1 DEF PowerUpEmpty, flash, ramLog
  <2>2. Contents = <<>> /\ Contents' = Contents
    <3>1. count = 0 /\ RingIs(buf, head, count)
      BY <2>1, TypeFacts DEF PhaseInv
    <3> QED BY <2>1, <3>1, RingLogFacts, ContentsIs, ContentsSame
  <2>3. Disk = <<>> /\ Disk' = Disk
    BY <2>1, DiskIs DEF Disk
  <2>4. Abstract!Boot
    BY <2>1, <2>2, <2>3 DEF Abstract!Boot
  <2> QED BY <2>4 DEF Abstract!LogNext
<1>2. CASE PowerUpLoad
  <2>1. pc = "off" /\ pc' # "off" /\ UNCHANGED <<hdr, rec>>
    BY <1>2 DEF PowerUpLoad, flash
  <2>2. Contents' = Disk /\ Disk' = Disk
    <3>1. Contents' = Disk
      BY <1>2, RamStep
         DEF PowerUpLoad, RecordStart, Record, BackfillOk, BackfillFails, BackfillRamOnly, StampHead,
             Clear, PowerCut, JobFails, TimeSynced, PowerUpEmpty, ClockSet, AppendOk, AppendFails,
             AppendNoRoom, BackfillEnd, EraseBank, CopyRecord, CopyDone, WriteHeader, CommitBank
    <3> QED BY <2>1, <3>1, DiskIs
  <2>3. Abstract!Boot
    BY <2>1, <2>2 DEF Abstract!Boot
  <2> QED BY <2>3 DEF Abstract!LogNext
<1>3. CASE PowerCut
  BY <1>3, <1>u, RefinesPowerCut DEF Abstract!LogNext
<1>4. CASE RecordStart \/ Record
  <2>1. PushEvent /\ pc \in {"start", "idle"}
    BY <1>4 DEF RecordStart, Record
  <2>2. PICK e \in Entries : Recorded(e)
    BY <2>1, RecordIs
  <2>3. Disk = Contents /\ pc' # "off"
    BY <1>u, <2>1 DEF SoundInv, PushEvent
  <2>4. Disk' = Disk
    BY <1>q, <2>1 DEF HalfAppend, Appending, Switched
  <2>5. e.id \notin Abstract!Ids(Contents)
    <3>1. e.id = nextId /\ nextId \in Nat
      BY <2>2, TypeFacts DEF Recorded
    <3>2. \A i \in 1..count : Contents[i].id < nextId
      BY DEF RamInv
    <3> QED BY <3>1, <3>2 DEF Abstract!Ids
  <2>6. Contents' = Abstract!Push(Contents, e)
    BY <2>2, PushIs DEF Recorded
  <2>7. Abstract!LogRecord(e)
    BY <2>1, <2>3, <2>4, <2>5, <2>6 DEF Abstract!LogRecord
  <2> QED BY <2>7 DEF Abstract!LogNext
<1>5. CASE ClockSet \/ TimeSynced \/ AppendNoRoom \/ BackfillEnd \/ CopyDone
  <2>1. UNCHANGED <<hdr, rec, buf, head, count>> /\ pc # "off" /\ pc' # "off"
    BY <1>5 DEF ClockSet, TimeSynced, AppendNoRoom, BackfillEnd, CopyDone, flash, ramLog
  <2> QED BY <1>t, <2>1, ContentsSame, DiskIs
<1>6. CASE EraseBank \/ CopyRecord \/ WriteHeader
  <2>1. UNCHANGED <<buf, head, count>> /\ pc # "off" /\ pc' # "off"
    BY <1>6 DEF EraseBank, CopyRecord, WriteHeader, ramLog
  <2>2. ~HalfAppend(hdr', rec') /\ ~Switched(hdr', rec')
    BY <1>6 DEF EraseBank, CopyRecord, WriteHeader, HalfAppend, Appending, Switched
  <2> QED BY <1>q, <1>t, <2>1, <2>2, ContentsSame
<1>7. CASE Clear
  <2>1. pc = "idle" /\ pc' # "off" /\ UNCHANGED <<hdr, rec>> /\ count' = 0
    BY <1>7 DEF Clear, flash
  <2>2. Disk = Contents
    BY <1>u, <2>1 DEF SoundInv
  <2>3. Contents' = <<>>
    BY <2>1, TypesNext, ContentsNone
  <2>4. Abstract!LogClear
    BY <2>1, <2>2, <2>3, DiskIs DEF Abstract!LogClear
  <2> QED BY <2>4 DEF Abstract!LogNext
<1>8. CASE AppendOk
  <2>1. /\ pc = "append" /\ pc' = "idle" /\ Disk' = Pushed(Disk, buf[Newest]) /\ Contents' = Contents
    BY <1>8, <1>w, LogsAppended DEF AppendOk
  <2>2. Contents = Pushed(Disk, buf[Newest])
    BY <1>u, <2>1 DEF SoundInv
  <2>3. Abstract!Persist
    BY <2>1, <2>2 DEF Abstract!Persist
  <2> QED BY <2>3 DEF Abstract!LogNext
<1>9. CASE CommitBank
  <2>1. /\ Switched(hdr', rec') /\ UNCHANGED <<buf, head, count>> /\ pc # "off" /\ pc' # "off"
    BY <1>9 DEF CommitBank, Switched, ramLog
  <2>2. Abstract!Persist
    BY <2>1, DiskStep, ContentsSame DEF Abstract!Persist
  <2> QED BY <2>2 DEF Abstract!LogNext
<1>10. CASE BackfillOk
  <2>1. PICK k \in 1..count :
            /\ AppendEntry \in Entries /\ AppendEntry.id = Contents[k].id /\ k \in 1..Len(Contents)
            /\ AppendEntry = [Contents[k] EXCEPT !.timed = TRUE]
            /\ Contents' = [Contents EXCEPT ![k] = AppendEntry]
            /\ Disk' = Upsert(Disk, AppendEntry)
    BY <1>10, <1>w, LogsStamped
  <2>2. ready /\ ~compact /\ pc = "backfill" /\ pc' # "off"
    BY <1>10, <1>w, LogsStamped DEF BackfillOk, StampHead
  <2>3. Disk = Contents
    BY <1>u, <2>2 DEF SoundInv
  <2>4. Upsert(Contents, AppendEntry) = [Contents EXCEPT ![k] = AppendEntry]
    BY <2>1, UpsertKnown
  <2>5. Contents' = Abstract!Stamped(Contents, k) /\ Disk' = Contents'
    BY <2>1, <2>3, <2>4 DEF Abstract!Stamped
  <2>6. Abstract!LogStamp(k)
    BY <2>2, <2>5 DEF Abstract!LogStamp
  <2> QED BY <2>6 DEF Abstract!LogNext
<1>11. CASE BackfillRamOnly
  <2>1. StampHead /\ pc # "off" /\ pc' # "off" /\ UNCHANGED <<hdr, rec>>
    BY <1>11 DEF BackfillRamOnly, StampHead, flash
  <2>2. PICK k \in 1..count : StampedAt(k)
    BY <2>1, StampIs
  <2>3. Contents' = Abstract!Stamped(Contents, k)
    BY <2>2 DEF StampedAt, Abstract!Stamped
  <2>4. Abstract!LogStamp(k)
    BY <2>1, <2>3, DiskIs DEF Abstract!LogStamp
  <2> QED BY <2>4 DEF Abstract!LogNext
<1> QED BY <1>u, <1>1, <1>2, <1>3, <1>4, <1>5, <1>6, <1>7, <1>8, <1>9, <1>10, <1>11 DEF Next

-----------------------------------------------------------------------------
(* The theorems                                                            *)

(* The invariant holds in every state of event_log.cpp and                 *)
(* history_storage.cpp, for every size of ring and bank, every number of   *)
(* failing flash operations and every loss of power.                       *)
THEOREM JournalInvAlways == JournalSpec => []JournalInv
BY JournalInvInit, JournalInvNext, PTL DEF JournalSpec

(* Between operations whose flash operations all succeeded, the flash holds*)
(* every event the program reports, in its latest version; and before the  *)
(* first failure of a flash operation exactly those events, in that order  *)
(* (event_log_record, event_log_time_synced, event_log_clear).             *)
THEOREM JournalDurableAlways == JournalSpec => []JournalDurable
BY JournalInvAlways, JournalInvDurable, PTL

(* No step of the program, no failing flash operation and no loss of power *)
(* removes from flash an event that the program still reports, unless an   *)
(* append follows one that failed and was never repaired.                  *)
THEOREM JournalNeverForgets == JournalSpec => NeverForgets
<1>1. JournalInv /\ [Next]_vars
        => [~(tail = "broken" /\ Appending) =>
                IdsOf(Disk) \cap IdsOf(Contents) \subseteq IdsOf(Disk')]_vars
  BY ForgetsNothing
<1> QED BY <1>1, JournalInvAlways, PTL DEF JournalSpec, NeverForgets

(* As long as no flash operation fails, the ring and its two-bank journal  *)
(* are an abstract log that survives every loss of power with the state    *)
(* before or after the operation under way.                                *)
THEOREM JournalImplementsDurableLog == JournalSpec => SoundImplementsDurableLog
<1>1. JournalInv /\ [Next]_vars
        => [sound' => [Abstract!LogNext]_<<Contents, Disk, pc # "off">>]_vars
  BY RefinesStep
<1>2. Init => Abstract!LogInit
  BY RefinesInit
<1> QED BY <1>1, <1>2, JournalInvAlways, PTL DEF JournalSpec, SoundImplementsDurableLog

=============================================================================
