--------------------------- MODULE WebServerProofs ---------------------------
(***************************************************************************)
(* Proofs about what keeps the web servers up.                             *)
(*                                                                         *)
(* The safety net, for all the delays and limits of wifi_supervisor.cpp:   *)
(* it cannot boot-loop the controller, its events about an outage are      *)
(* matched, and it reboots only after an outage as long as                 *)
(* API_DOWN_REBOOT_MS.                                                     *)
(*                                                                         *)
(* The service task, for any number of start and probe requests: a restart *)
(* is not lost among merged requests, a reported success is not a stale    *)
(* one, and no server comes back after the shutdown of a firmware          *)
(* download.                                                               *)
(***************************************************************************)
EXTENDS ApiService, ApiSafetyNet, TLAPS

(* The limits are whole numbers, and a failure count has room.             *)
LEMMA Limits ==
    /\ DownReboot \in Nat /\ HealthyReset \in Nat /\ ProbeEvery \in Nat /\ RepairEvery \in Nat
    /\ BootGrace \in Nat /\ MaxReboots \in Nat /\ Check \in Nat /\ ProbeMax \in Nat /\ RestartMax \in Nat
    /\ FailsToAct \in Nat /\ 0 \in 0..(FailsToAct - 1)
    /\ Unset \in Unset..DownReboot /\ Unset \in Unset..HealthyReset /\ Unset \in Unset..ProbeEvery
    /\ 0 \in Unset..ProbeEvery
BY NetAssumption DEF Unset

-----------------------------------------------------------------------------
(* The clocks                                                              *)

(* An age grows with the time that passes, up to its cutoff.               *)
LEMMA LaterAge ==
    ASSUME NEW max \in Nat, NEW age \in Unset..max, NEW d \in Nat
    PROVE  /\ Later(age, d, max) \in Unset..max
           /\ (Later(age, d, max) = Unset) <=> (age = Unset)
BY DEF Later, Unset

(* Two ages with the same cutoff keep their order.                         *)
LEMMA LaterOrder ==
    ASSUME NEW max \in Nat, NEW age \in Unset..max, NEW since \in 0..max, age <= since,
           NEW d \in Nat
    PROVE  Later(age, d, max) <= Later(since, d, max) /\ Later(since, d, max) \in 0..max
BY DEF Later, Unset

(* A clock started d ago is not ahead of one that ran through d.           *)
LEMMA LaterStart ==
    ASSUME NEW max \in Nat, NEW since \in 0..max, NEW d \in Nat
    PROVE  Later(0, d, max) <= Later(since, d, max)
BY DEF Later, Unset

(* A clock that was started shows it.                                      *)
LEMMA LaterFresh ==
    ASSUME NEW max \in Nat, NEW d \in Nat
    PROVE  Later(0, d, max) \in Unset..max /\ Later(0, d, max) # Unset
BY DEF Later, Unset

-----------------------------------------------------------------------------
(* The watch                                                               *)

(* Time changes the ages of a watch alone.                                 *)
LEMMA AgedWatch ==
    ASSUME NEW w \in Watches, NEW d \in Nat
    PROVE  /\ Aged(w, d) \in Watches
           /\ Aged(w, d).down = Later(w.down, d, DownReboot)
           /\ (Aged(w, d).down = Unset) <=> (w.down = Unset)
           /\ Aged(w, d).logged = w.logged
           /\ Recorded(Aged(w, d)) = Recorded(w)
<1>1. /\ w.down \in Unset..DownReboot /\ w.healthy \in Unset..HealthyReset
      /\ w.probe \in Unset..ProbeEvery /\ w.repair \in Unset..RepairEvery
    BY DEF Watches
<1>2. DownReboot \in Nat /\ HealthyReset \in Nat /\ ProbeEvery \in Nat /\ RepairEvery \in Nat
    BY Limits
<1>3. /\ Later(w.down, d, DownReboot) \in Unset..DownReboot
      /\ Later(w.healthy, d, HealthyReset) \in Unset..HealthyReset
      /\ Later(w.probe, d, ProbeEvery) \in Unset..ProbeEvery
      /\ Later(w.repair, d, RepairEvery) \in Unset..RepairEvery
      /\ (Later(w.down, d, DownReboot) = Unset) <=> (w.down = Unset)
    BY <1>1, <1>2, LaterAge
<1> DEFINE aged(a, b, c, e) == [w EXCEPT !.down = a, !.healthy = b, !.probe = c, !.repair = e]
<1>4. \A a \in Unset..DownReboot, b \in Unset..HealthyReset, c \in Unset..ProbeEvery,
          e \in Unset..RepairEvery :
        /\ aged(a, b, c, e) \in Watches
        /\ aged(a, b, c, e).down = a
        /\ aged(a, b, c, e).logged = w.logged
    BY DEF Watches
<1>5. Aged(w, d) = aged(Later(w.down, d, DownReboot), Later(w.healthy, d, HealthyReset),
                        Later(w.probe, d, ProbeEvery), Later(w.repair, d, RepairEvery))
    BY DEF Aged
<1> HIDE DEF aged
<1>6. /\ Aged(w, d) \in Watches /\ Aged(w, d).down = Later(w.down, d, DownReboot)
      /\ Aged(w, d).logged = w.logged
    BY <1>3, <1>4, <1>5
<1> QED BY <1>3, <1>6 DEF Recorded

(* An outage begins with an unreported watch, or goes on.                  *)
LEMMA BegunWatch ==
    ASSUME NEW w \in Watches, NEW ago \in Nat
    PROVE  /\ EpisodeBegin(w, ago) \in Watches
           /\ EpisodeBegin(w, ago).down # Unset
           /\ EpisodeBegin(w, ago).down =
                IF w.down = Unset THEN Later(0, ago, DownReboot) ELSE w.down
           /\ Recorded(EpisodeBegin(w, ago)) = Recorded(w)
<1>1. Later(0, ago, DownReboot) \in Unset..DownReboot /\ Later(0, ago, DownReboot) # Unset
    BY Limits, LaterFresh
<1>2. CASE w.down = Unset
    <2>1. \A a \in Unset..DownReboot :
            LET x == [w EXCEPT !.down = a, !.logged = FALSE, !.attempted = FALSE]
            IN  x \in Watches /\ x.down = a /\ ~x.logged
        BY DEF Watches
    <2> DEFINE x == EpisodeBegin(w, ago)
    <2>2. x \in Watches /\ x.down = Later(0, ago, DownReboot) /\ ~x.logged
        BY <1>1, <1>2, <2>1, Zenon DEF EpisodeBegin
    <2> QED BY <1>1, <1>2, <2>2 DEF Recorded
<1>3. CASE w.down # Unset
    BY <1>3 DEF EpisodeBegin
<1> QED BY <1>2, <1>3

(* The end of an outage closes it.                                         *)
LEMMA EndedWatch ==
    ASSUME NEW w \in Watches
    PROVE  /\ EpisodeEnd(w) \in Watches /\ EpisodeEnd(w).down = Unset
           /\ Recorded(EpisodeEnd(w)) = 0
<1>1. Unset \in Unset..DownReboot /\ 0 \in 0..(FailsToAct - 1)
    BY Limits
<1> QED BY <1>1 DEF EpisodeEnd, Watches, Recorded

(* An outage under way that is logged is recorded, once.                   *)
LEMMA LoggedWatch ==
    ASSUME NEW w \in Watches, w.down # Unset
    PROVE  /\ LogDown(w) \in Watches /\ LogDown(w).down = w.down /\ LogDown(w).logged
           /\ Recorded(LogDown(w)) = 1 /\ Recorded(w) + NewDown(w) = 1
<1>1. LogDown(w) \in Watches /\ LogDown(w).down = w.down /\ LogDown(w).logged
    BY DEF LogDown, Watches
<1>2. w.logged \in BOOLEAN
    BY DEF Watches
<1> QED BY <1>1, <1>2 DEF NewDown, Recorded

(* Running healthily leaves the outage record alone and can only restore   *)
(* the budget.                                                             *)
LEMMA HealthyStep ==
    ASSUME NetTypeOK, NEW w \in Watches, NEW ago \in Nat, HealthyWatch(w, ago)
    PROVE  /\ watch' \in Watches /\ watch'.down = w.down /\ Recorded(watch') = Recorded(w)
           /\ pc' \in {"loop", "repair"}
           /\ \/ UNCHANGED <<rtc, streak>>
              \/ rtc' = [rtc EXCEPT !.count = 0] /\ streak' = 0
<1> DEFINE h == [w EXCEPT !.ever = TRUE,
                          !.healthy = IF @ = Unset THEN Later(0, ago, HealthyReset) ELSE @]
<1>1. /\ Later(0, ago, HealthyReset) \in Unset..HealthyReset
      /\ Later(0, ago, RepairEvery) \in Unset..RepairEvery
    BY Limits, LaterFresh
<1>2. h \in Watches /\ h.down = w.down /\ h.logged = w.logged
    <2>1. \A b \in Unset..HealthyReset :
            LET x == [w EXCEPT !.ever = TRUE, !.healthy = b]
            IN  x \in Watches /\ x.down = w.down /\ x.logged = w.logged
        BY DEF Watches
    <2>2. w.healthy \in Unset..HealthyReset
        BY DEF Watches
    <2>3. (IF w.healthy = Unset THEN Later(0, ago, HealthyReset) ELSE w.healthy)
                \in Unset..HealthyReset
        BY <1>1, <2>2
    <2> QED BY <2>1, <2>3, Zenon
<1>3. watch' = h \/ watch' = [h EXCEPT !.repair = Later(0, ago, RepairEvery)]
    BY DEF HealthyWatch
<1>4. pc' \in {"loop", "repair"}
    BY DEF HealthyWatch
<1>5. \/ UNCHANGED <<rtc, streak>>
      \/ rtc' = [rtc EXCEPT !.count = 0] /\ streak' = 0
    BY DEF HealthyWatch
<1> HIDE DEF h
<1>6. \A b \in Unset..RepairEvery :
        LET x == [h EXCEPT !.repair = b]
        IN  x \in Watches /\ x.down = h.down /\ x.logged = h.logged
    BY <1>2 DEF Watches
<1>7. watch' \in Watches /\ watch'.down = w.down /\ watch'.logged = w.logged
    BY <1>1, <1>2, <1>3, <1>6
<1> QED BY <1>4, <1>5, <1>7 DEF Recorded

(* api_maybe_reboot decides on a reboot only within the budget, after an   *)
(* outage that is long enough, and counts it.                              *)
LEMMA MaybeRebootStep ==
    ASSUME NetTypeOK, rtc.magic, NEW w \in Watches, NEW open, MaybeReboot(w, open)
    PROVE  /\ watch' = w
           /\ \/ pc' = "loop" /\ webOpen' = open /\ rtc' = rtc
              \/ /\ pc' = "reboot" /\ webOpen' = open - 1
                 /\ rtc.count < MaxReboots /\ w.down >= DownReboot
                 /\ rtc' = [rtc EXCEPT !.count = @ + 1, !.ours = TRUE]
BY DEF MaybeReboot, NetTypeOK

(* A failed probe opens an outage that a success d ago would have closed;  *)
(* it is reported when the failures make the net act, and only a reported  *)
(* one can end in a reboot.                                                *)
LEMMA ProbeFailsStep ==
    ASSUME NetTypeOK, rtc.magic, NEW w \in Watches, NEW d \in Nat, ProbeFails(w, d)
    PROVE  /\ watch' \in Watches
           /\ watch'.down = IF w.down = Unset THEN Later(0, d, DownReboot) ELSE w.down
           /\ watch'.down # Unset
           /\ \/ /\ pc' \in {"restart", "fallback"} /\ watch'.logged /\ rtc' = rtc
                 /\ webOpen' = webOpen + 1 - Recorded(w)
              \/ /\ pc' = "loop" /\ rtc' = rtc
                 /\ webOpen' = webOpen /\ Recorded(watch') = Recorded(w)
              \/ /\ pc' = "reboot" /\ Recorded(w) = 1 /\ webOpen' = webOpen - 1
                 /\ rtc.count < MaxReboots /\ watch'.down >= DownReboot
                 /\ rtc' = [rtc EXCEPT !.count = @ + 1, !.ours = TRUE]
<1> DEFINE v == [w EXCEPT !.healthy = Unset]
           y == EpisodeBegin(v, d)
           e == EpisodeBegin([w EXCEPT !.healthy = Unset, !.failures = @ + 1], d)
           act == [LogDown(e) EXCEPT !.failures = 0, !.attempted = TRUE]
<1>1. v \in Watches /\ v.down = w.down /\ Recorded(v) = Recorded(w)
    BY Limits DEF Watches, Recorded
<1>2. /\ y \in Watches /\ y.down # Unset /\ Recorded(y) = Recorded(w)
      /\ y.down = IF w.down = Unset THEN Later(0, d, DownReboot) ELSE w.down
    BY <1>1, BegunWatch
<1>3. e = [y EXCEPT !.failures = w.failures + 1]
    BY DEF EpisodeBegin, Watches
<1>4. /\ \/ /\ e.failures >= FailsToAct
            /\ watch' = act /\ webOpen' = webOpen + NewDown(e)
            /\ pc' \in {"restart", "fallback"} /\ rtc' = rtc
         \/ e.failures < FailsToAct /\ e.logged /\ MaybeReboot(e, webOpen)
         \/ /\ e.failures < FailsToAct /\ ~e.logged
            /\ watch' = e /\ pc' = "loop" /\ rtc' = rtc /\ webOpen' = webOpen
    BY DEF ProbeFails
<1>5. w.failures \in Nat /\ FailsToAct \in Nat
    BY Limits DEF Watches
<1> HIDE DEF v, y, e
<1>6. /\ e.down = y.down /\ e.logged = y.logged /\ e.failures = w.failures + 1
      /\ e.failures < FailsToAct => e \in Watches
      /\ Recorded(e) = Recorded(w) /\ NewDown(e) = 1 - Recorded(w)
    BY <1>2, <1>3, <1>5 DEF Watches, Recorded, NewDown
<1>7. act \in Watches /\ act.down = y.down /\ act.logged
    BY <1>2, <1>3, Limits DEF LogDown, Watches
<1> HIDE DEF act
<1>8. CASE /\ watch' = act /\ webOpen' = webOpen + NewDown(e)
           /\ pc' \in {"restart", "fallback"} /\ rtc' = rtc
    <2>1. webOpen \in Int /\ Recorded(w) \in Int
        BY DEF NetTypeOK, Recorded
    <2> QED BY <1>2, <1>6, <1>7, <1>8, <2>1
<1>9. CASE e.failures < FailsToAct /\ e.logged /\ MaybeReboot(e, webOpen)
    <2>1. e \in Watches
        BY <1>6, <1>9
    <2>2. /\ watch' = e
          /\ \/ pc' = "loop" /\ webOpen' = webOpen /\ rtc' = rtc
             \/ /\ pc' = "reboot" /\ webOpen' = webOpen - 1
                /\ rtc.count < MaxReboots /\ e.down >= DownReboot
                /\ rtc' = [rtc EXCEPT !.count = @ + 1, !.ours = TRUE]
        BY <1>9, <2>1, MaybeRebootStep
    <2>3. Recorded(e) = 1
        BY <1>2, <1>6, <1>9 DEF Recorded
    <2> QED BY <1>2, <1>6, <2>1, <2>2, <2>3
<1>10. CASE /\ e.failures < FailsToAct /\ ~e.logged
            /\ watch' = e /\ pc' = "loop" /\ rtc' = rtc /\ webOpen' = webOpen
    BY <1>2, <1>6, <1>10
<1> QED BY <1>4, <1>8, <1>9, <1>10

-----------------------------------------------------------------------------
(* The supervisor task                                                     *)

Loop == {"loop", "ensure", "probe", "restart", "fallback", "repair"}

(* What every step of a check does, as far as the invariant can tell.      *)
WatchStep ==
    /\ pc \in Loop /\ pc' \in Loop \cup {"reboot"}
    /\ watch' \in Watches /\ uptime' \in 0..BootGrace /\ sinceGood' \in 0..DownReboot
    /\ reason' = reason /\ EnvTypeOK'
    /\ watch'.down <= sinceGood'
    /\ pc' \in {"ensure", "restart", "fallback"} => watch'.down # Unset
    /\ pc' \in {"restart", "fallback"} => watch'.logged
    /\ \/ /\ pc' # "reboot" /\ webOpen' = Recorded(watch')
          /\ \/ UNCHANGED <<rtc, streak>>
             \/ rtc' = [rtc EXCEPT !.count = 0] /\ streak' = 0
       \/ /\ pc' = "reboot" /\ webOpen' = 0 /\ sinceGood' >= DownReboot
          /\ rtc.count < MaxReboots /\ streak' = streak
          /\ rtc' = [rtc EXCEPT !.count = @ + 1, !.ours = TRUE]

(* Such a step preserves the invariant.                                    *)
LEMMA WatchStepInv == NetInv /\ WatchStep => NetInv'
<1> SUFFICES ASSUME NetInv, WatchStep PROVE NetInv'
    OBVIOUS
<1> DEFINE RtcStates == [magic : BOOLEAN, count : 0..(MaxReboots + 1), ours : BOOLEAN]
<1>1. /\ rtc \in RtcStates /\ rtc.count \in Nat /\ MaxReboots \in Nat /\ streak \in Nat
    BY Limits DEF NetInv, NetTypeOK
<1>2. /\ rtc.magic /\ rtc.count <= MaxReboots /\ streak <= rtc.count
    BY DEF NetInv, BudgetInv, WatchStep, Loop
<1>3. \/ pc' # "reboot" /\ UNCHANGED <<rtc, streak>>
      \/ /\ pc' # "reboot" /\ rtc' \in RtcStates
         /\ rtc'.magic /\ rtc'.count = 0 /\ rtc'.ours = rtc.ours /\ streak' = 0
      \/ /\ pc' = "reboot" /\ rtc' \in RtcStates
         /\ rtc'.magic /\ rtc'.count = rtc.count + 1 /\ rtc'.ours
         /\ rtc.count < MaxReboots /\ streak' = streak
    <2>1. CASE pc' # "reboot" /\ rtc' = [rtc EXCEPT !.count = 0] /\ streak' = 0
        BY <1>1, <1>2, <2>1
    <2>2. CASE /\ pc' = "reboot" /\ rtc.count < MaxReboots /\ streak' = streak
               /\ rtc' = [rtc EXCEPT !.count = @ + 1, !.ours = TRUE]
        <3>1. rtc.count + 1 \in 0..(MaxReboots + 1)
            BY <1>1, <2>2
        <3>2. \A n \in 0..(MaxReboots + 1) :
                LET r == [rtc EXCEPT !.count = n, !.ours = TRUE]
                IN  r \in RtcStates /\ r.magic = rtc.magic /\ r.count = n /\ r.ours
            BY <1>1
        <3> HIDE DEF RtcStates
        <3>3. rtc' = [rtc EXCEPT !.count = rtc.count + 1, !.ours = TRUE]
            BY <2>2
        <3> QED BY <1>1, <1>2, <2>2, <3>1, <3>2, <3>3
    <2> QED BY <2>1, <2>2 DEF WatchStep
<1>4. NetTypeOK'
    <2>1. webOpen' \in Int
        BY DEF WatchStep, Recorded
    <2>2. rtc' \in RtcStates /\ streak' \in Nat
        BY <1>1, <1>3
    <2>3. pc' \in Loop \cup {"reboot"} /\ reason' \in {"sw", "other"}
        BY DEF WatchStep, NetInv, NetTypeOK
    <2> QED BY <2>1, <2>2, <2>3 DEF WatchStep, NetTypeOK, Loop
<1>5. BudgetInv'
    <2>1. pc' \notin {"off", "boot"}
        BY DEF WatchStep, Loop
    <2>2. rtc'.magic /\ rtc'.count <= MaxReboots /\ streak' <= rtc'.count
        BY <1>1, <1>2, <1>3
    <2>3. pc' = "reboot" => rtc'.ours /\ streak' < rtc'.count
        BY <1>1, <1>2, <1>3
    <2> QED BY <2>1, <2>2, <2>3 DEF BudgetInv
<1>6. OutageInv'
    BY DEF WatchStep, OutageInv, Loop
<1> QED BY <1>4, <1>5, <1>6 DEF NetInv

(* What the invariant says of a check in progress.                         *)
LEMMA LoopInv ==
    ASSUME NetInv, pc \in Loop
    PROVE  /\ NetTypeOK /\ watch \in Watches /\ rtc.magic
           /\ sinceGood \in 0..DownReboot /\ watch.down \in Unset..DownReboot
           /\ webOpen = Recorded(watch) /\ watch.down <= sinceGood
           /\ pc \in {"ensure", "restart", "fallback"} => watch.down # Unset
           /\ pc \in {"restart", "fallback"} => watch.logged
BY DEF NetInv, NetTypeOK, BudgetInv, OutageInv, Loop, Watches

(* While time passes the outage's clock stays behind the last success.     *)
LEMMA AgedInv ==
    ASSUME NetInv, pc \in Loop, NEW d \in Nat, Elapse(d)
    PROVE  /\ Later(sinceGood, d, DownReboot) \in 0..DownReboot
           /\ Aged(watch, d).down <= Later(sinceGood, d, DownReboot)
           /\ uptime' \in 0..BootGrace
<1>1. Aged(watch, d).down = Later(watch.down, d, DownReboot)
    BY LoopInv, AgedWatch
<1>2. /\ Later(watch.down, d, DownReboot) <= Later(sinceGood, d, DownReboot)
      /\ Later(sinceGood, d, DownReboot) \in 0..DownReboot
    BY LoopInv, LaterOrder, Limits
<1>3. uptime' \in 0..BootGrace
    BY Limits DEF Elapse, Later, Unset, NetInv, NetTypeOK
<1> QED BY <1>1, <1>2, <1>3

(* A start or restart that ends leaves the servers in some state.          *)
LEMMA StartResultTypes ==
    ASSUME NetTypeOK, NEW ok \in BOOLEAN, StartResult(ok)
    PROVE  web' \in {"down", "mute", "up"} /\ degraded' \in BOOLEAN
BY DEF StartResult, NetTypeOK, EnvTypeOK

(* A check that starts: the outage goes on, begins, or there is none.      *)
LEMMA SuperviseStep == NetInv /\ Supervise => WatchStep
<1> SUFFICES ASSUME NetInv, Supervise PROVE WatchStep
    OBVIOUS
<1>1. pc \in Loop
    BY DEF Supervise, Loop
<1>2. /\ NetTypeOK /\ watch \in Watches /\ EnvTypeOK' /\ reason' = reason /\ webOpen' = webOpen
    BY LoopInv, <1>1 DEF Supervise, NetTypeOK, EnvTypeOK, env
<1> DEFINE w(d) == Aged(watch, d)
           stopped(d) == [w(d) EXCEPT !.healthy = Unset, !.failures = 0]
<1>3. PICK d \in 1..Check :
        /\ Elapse(d) /\ sinceGood' = Later(sinceGood, d, DownReboot)
        /\ \/ watch' = w(d) /\ UNCHANGED <<rtc, pc, streak>>
           \/ /\ watch' = stopped(d) /\ pc' = "loop"
              /\ UNCHANGED <<rtc, streak>>
           \/ /\ watch' = [EpisodeBegin(stopped(d), 0) EXCEPT !.attempted = TRUE]
              /\ pc' = "ensure" /\ UNCHANGED <<rtc, streak>>
           \/ watch' = [w(d) EXCEPT !.probe = 0] /\ pc' = "probe" /\ UNCHANGED <<rtc, streak>>
           \/ HealthyWatch(w(d), 0)
    BY DEF Supervise
<1>4. pc = "loop" /\ d \in Nat
    BY Limits DEF Supervise
<1>5. /\ w(d) \in Watches /\ Recorded(w(d)) = Recorded(watch)
      /\ w(d).down <= sinceGood' /\ sinceGood' \in 0..DownReboot /\ uptime' \in 0..BootGrace
    BY <1>1, <1>2, <1>3, <1>4, AgedWatch, AgedInv
<1>6. webOpen = Recorded(watch)
    BY <1>1, LoopInv
<1> HIDE DEF w
<1>7. stopped(d) \in Watches /\ stopped(d).down = w(d).down /\ Recorded(stopped(d)) = Recorded(w(d))
    BY <1>5, Limits DEF Watches, Recorded
<1> HIDE DEF stopped
<1>8. CASE watch' = w(d) /\ UNCHANGED <<rtc, pc, streak>>
    BY <1>1, <1>2, <1>3, <1>4, <1>5, <1>6, <1>8 DEF WatchStep, Loop
<1>9. CASE watch' = stopped(d) /\ pc' = "loop" /\ UNCHANGED <<rtc, streak>>
    BY <1>1, <1>2, <1>3, <1>5, <1>6, <1>7, <1>9 DEF WatchStep, Loop
<1>10. CASE /\ watch' = [EpisodeBegin(stopped(d), 0) EXCEPT !.attempted = TRUE]
            /\ pc' = "ensure" /\ UNCHANGED <<rtc, streak>>
    <2> DEFINE y == EpisodeBegin(stopped(d), 0)
    <2>1. /\ y \in Watches /\ y.down # Unset /\ Recorded(y) = Recorded(stopped(d))
          /\ y.down = IF stopped(d).down = Unset THEN Later(0, 0, DownReboot) ELSE stopped(d).down
        BY <1>7, BegunWatch
    <2>2. Later(0, 0, DownReboot) <= sinceGood'
        BY <1>5, Limits DEF Later, Unset
    <2>3. y.down <= sinceGood'
        BY <1>5, <1>7, <2>1, <2>2
    <2> HIDE DEF y
    <2>4. watch' \in Watches /\ watch'.down = y.down /\ Recorded(watch') = Recorded(y)
        BY <1>10, <2>1 DEF y, Watches, Recorded
    <2> QED BY <1>1, <1>2, <1>3, <1>5, <1>6, <1>7, <1>10, <2>1, <2>3, <2>4 DEF WatchStep, Loop
<1>11. CASE watch' = [w(d) EXCEPT !.probe = 0] /\ pc' = "probe" /\ UNCHANGED <<rtc, streak>>
    <2>1. watch' \in Watches /\ watch'.down = w(d).down /\ Recorded(watch') = Recorded(w(d))
        BY <1>5, <1>11, Limits DEF Watches, Recorded
    <2> QED BY <1>1, <1>2, <1>3, <1>5, <1>6, <1>11, <2>1 DEF WatchStep, Loop
<1>12. CASE HealthyWatch(w(d), 0)
    <2>1. /\ watch' \in Watches /\ watch'.down = w(d).down /\ Recorded(watch') = Recorded(w(d))
          /\ pc' \in {"loop", "repair"}
          /\ \/ UNCHANGED <<rtc, streak>>
             \/ rtc' = [rtc EXCEPT !.count = 0] /\ streak' = 0
        BY <1>2, <1>5, <1>12, HealthyStep
    <2> QED BY <1>1, <1>2, <1>3, <1>5, <1>6, <2>1 DEF WatchStep, Loop
<1> QED BY <1>3, <1>8, <1>9, <1>10, <1>11, <1>12

(* wifi_mgr_api_ensure_running returns: the outage is reported, and closed *)
(* when the server runs again.                                             *)
LEMMA EnsuredStep == NetInv /\ Ensured => WatchStep
<1> SUFFICES ASSUME NetInv, Ensured PROVE WatchStep
    OBVIOUS
<1> DEFINE w(d) == Aged(watch, d)
           l(d) == LogDown(w(d))
           open(d) == webOpen + NewDown(w(d))
<1>1. pc \in Loop /\ pc = "ensure"
    BY DEF Ensured, Loop
<1>2. PICK d \in 0..RestartMax, ok \in BOOLEAN :
        /\ Elapse(d) /\ StartResult(ok)
        /\ \/ /\ watch' = [EpisodeEnd(l(d)) EXCEPT !.ever = TRUE, !.probe = Unset]
              /\ webOpen' = open(d) - Recorded(l(d))
              /\ pc' = "loop" /\ sinceGood' = 0 /\ rtc' = rtc
           \/ /\ MaybeReboot(l(d), open(d))
              /\ sinceGood' = Later(sinceGood, d, DownReboot)
    BY DEF Ensured
<1>3. d \in Nat /\ NetTypeOK /\ rtc.magic /\ reason' = reason /\ streak' = streak
    BY <1>1, LoopInv, Limits DEF Ensured
<1>4. EnvTypeOK'
    BY <1>2, <1>3, StartResultTypes DEF Ensured, NetTypeOK, EnvTypeOK
<1>5. /\ w(d) \in Watches /\ w(d).down # Unset /\ Recorded(w(d)) = webOpen
      /\ Later(sinceGood, d, DownReboot) \in 0..DownReboot
      /\ w(d).down <= Later(sinceGood, d, DownReboot) /\ uptime' \in 0..BootGrace
    BY <1>1, <1>2, <1>3, LoopInv, AgedWatch, AgedInv
<1> HIDE DEF w
<1>6. /\ l(d) \in Watches /\ l(d).down = w(d).down /\ Recorded(l(d)) = 1 /\ open(d) = 1
    BY <1>5, LoggedWatch DEF Recorded, NewDown
<1> HIDE DEF l, open
<1>7. CASE /\ watch' = [EpisodeEnd(l(d)) EXCEPT !.ever = TRUE, !.probe = Unset]
           /\ webOpen' = open(d) - Recorded(l(d))
           /\ pc' = "loop" /\ sinceGood' = 0 /\ rtc' = rtc
    <2> DEFINE y == EpisodeEnd(l(d))
    <2>1. y \in Watches /\ y.down = Unset /\ Recorded(y) = 0
        BY <1>6, EndedWatch
    <2> HIDE DEF y
    <2>2. watch' = [y EXCEPT !.ever = TRUE, !.probe = Unset]
        BY <1>7 DEF y
    <2>3. watch' \in Watches /\ watch'.down = Unset /\ Recorded(watch') = 0
        BY <2>1, <2>2, Limits DEF Watches, Recorded
    <2>4. Unset <= 0 /\ 0 \in 0..DownReboot
        BY Limits DEF Unset
    <2> QED BY <1>1, <1>3, <1>4, <1>5, <1>6, <1>7, <2>3, <2>4 DEF WatchStep, Loop
<1>8. CASE /\ MaybeReboot(l(d), open(d))
           /\ sinceGood' = Later(sinceGood, d, DownReboot)
    <2>1. /\ watch' = l(d)
          /\ \/ pc' = "loop" /\ webOpen' = open(d) /\ rtc' = rtc
             \/ /\ pc' = "reboot" /\ webOpen' = open(d) - 1
                /\ rtc.count < MaxReboots /\ l(d).down >= DownReboot
                /\ rtc' = [rtc EXCEPT !.count = @ + 1, !.ours = TRUE]
        BY <1>3, <1>6, <1>8, MaybeRebootStep
    <2>2. watch' \in Watches /\ watch'.down = w(d).down /\ Recorded(watch') = 1
        BY <1>6, <2>1
    <2>3. sinceGood' \in 0..DownReboot /\ watch'.down <= sinceGood'
        BY <1>5, <1>8, <2>2
    <2>4. CASE pc' = "loop" /\ webOpen' = open(d) /\ rtc' = rtc
        BY <1>1, <1>3, <1>4, <1>5, <1>6, <2>2, <2>3, <2>4 DEF WatchStep, Loop
    <2>5. CASE /\ pc' = "reboot" /\ webOpen' = open(d) - 1
               /\ rtc.count < MaxReboots /\ l(d).down >= DownReboot
               /\ rtc' = [rtc EXCEPT !.count = @ + 1, !.ours = TRUE]
        <3>1. sinceGood' >= DownReboot
            BY <1>6, <2>2, <2>3, <2>5, Limits DEF Watches, Unset
        <3> QED BY <1>1, <1>3, <1>4, <1>5, <1>6, <2>2, <2>3, <2>5, <3>1 DEF WatchStep, Loop
    <2> QED BY <2>1, <2>4, <2>5
<1> QED BY <1>2, <1>7, <1>8

(* The probe returns: a success closes the outage, a failure opens or      *)
(* continues one.                                                          *)
LEMMA ProbedStep == NetInv /\ Probed => WatchStep
<1> SUFFICES ASSUME NetInv, Probed PROVE WatchStep
    OBVIOUS
<1> DEFINE w(d) == Aged(watch, d)
<1>1. pc \in Loop /\ pc = "probe"
    BY DEF Probed, Loop
<1>2. PICK d \in 0..ProbeMax :
        /\ Elapse(d)
        /\ \/ /\ webOpen' = webOpen - Recorded(w(d)) /\ sinceGood' = 0
              /\ HealthyWatch(EpisodeEnd(w(d)), d)
           \/ /\ ProbeFails(w(d), d) /\ streak' = streak
              /\ sinceGood' = Later(sinceGood, d, DownReboot)
    BY DEF Probed
<1>3. d \in Nat /\ NetTypeOK /\ rtc.magic /\ reason' = reason
    BY <1>1, LoopInv, Limits DEF Probed
<1>4. EnvTypeOK'
    BY <1>3 DEF Probed, env, NetTypeOK, EnvTypeOK
<1>5. /\ w(d) \in Watches /\ Recorded(w(d)) = webOpen
      /\ Later(sinceGood, d, DownReboot) \in 0..DownReboot
      /\ w(d).down <= Later(sinceGood, d, DownReboot) /\ uptime' \in 0..BootGrace
    BY <1>1, <1>2, <1>3, LoopInv, AgedWatch, AgedInv
<1> HIDE DEF w
<1>6. CASE /\ webOpen' = webOpen - Recorded(w(d)) /\ sinceGood' = 0
           /\ HealthyWatch(EpisodeEnd(w(d)), d)
    <2> DEFINE y == EpisodeEnd(w(d))
    <2>1. y \in Watches /\ y.down = Unset /\ Recorded(y) = 0
        BY <1>5, EndedWatch
    <2>2. /\ watch' \in Watches /\ watch'.down = y.down /\ Recorded(watch') = Recorded(y)
          /\ pc' \in {"loop", "repair"}
          /\ \/ UNCHANGED <<rtc, streak>>
             \/ rtc' = [rtc EXCEPT !.count = 0] /\ streak' = 0
        BY <1>3, <1>6, <2>1, HealthyStep
    <2> HIDE DEF y
    <2>3. Unset <= 0 /\ 0 \in 0..DownReboot
        BY Limits DEF Unset
    <2>4. webOpen' = 0
        BY <1>5, <1>6 DEF Recorded
    <2> QED BY <1>1, <1>3, <1>4, <1>5, <1>6, <2>1, <2>2, <2>3, <2>4 DEF WatchStep, Loop
<1>7. CASE /\ ProbeFails(w(d), d) /\ streak' = streak
           /\ sinceGood' = Later(sinceGood, d, DownReboot)
    <2>1. /\ watch' \in Watches
          /\ watch'.down = IF w(d).down = Unset THEN Later(0, d, DownReboot) ELSE w(d).down
          /\ watch'.down # Unset
          /\ \/ /\ pc' \in {"restart", "fallback"} /\ watch'.logged /\ rtc' = rtc
                /\ webOpen' = webOpen + 1 - Recorded(w(d))
             \/ /\ pc' = "loop" /\ rtc' = rtc
                /\ webOpen' = webOpen /\ Recorded(watch') = Recorded(w(d))
             \/ /\ pc' = "reboot" /\ Recorded(w(d)) = 1 /\ webOpen' = webOpen - 1
                /\ rtc.count < MaxReboots /\ watch'.down >= DownReboot
                /\ rtc' = [rtc EXCEPT !.count = @ + 1, !.ours = TRUE]
        BY <1>3, <1>5, <1>7, ProbeFailsStep
    <2>2. Later(0, d, DownReboot) <= Later(sinceGood, d, DownReboot)
        BY <1>1, <1>3, LaterStart, LoopInv, Limits
    <2>3. sinceGood' \in 0..DownReboot /\ watch'.down <= sinceGood'
        BY <1>5, <1>7, <2>1, <2>2
    <2>4. CASE /\ pc' \in {"restart", "fallback"} /\ watch'.logged /\ rtc' = rtc
               /\ webOpen' = webOpen + 1 - Recorded(w(d))
        <3>1. webOpen' = 1 /\ Recorded(watch') = 1
            BY <1>5, <2>1, <2>4 DEF Recorded
        <3> QED BY <1>1, <1>3, <1>4, <1>5, <1>7, <2>1, <2>3, <2>4, <3>1 DEF WatchStep, Loop
    <2>5. CASE /\ pc' = "loop" /\ rtc' = rtc
               /\ webOpen' = webOpen /\ Recorded(watch') = Recorded(w(d))
        BY <1>1, <1>3, <1>4, <1>5, <1>7, <2>1, <2>3, <2>5 DEF WatchStep, Loop
    <2>6. CASE /\ pc' = "reboot" /\ Recorded(w(d)) = 1 /\ webOpen' = webOpen - 1
               /\ rtc.count < MaxReboots /\ watch'.down >= DownReboot
               /\ rtc' = [rtc EXCEPT !.count = @ + 1, !.ours = TRUE]
        <3>1. sinceGood' >= DownReboot
            BY <2>1, <2>3, <2>6, Limits DEF Watches, Unset
        <3>2. webOpen = 1 /\ webOpen' = webOpen - 1
            BY <1>5, <2>6, Zenon
        <3>3. webOpen' = 0
            BY <3>2
        <3> QED BY <1>1, <1>3, <1>4, <1>5, <1>7, <2>1, <2>3, <2>6, <3>1, <3>2, <3>3 DEF WatchStep, Loop
    <2> QED BY <2>1, <2>4, <2>5, <2>6
<1> QED BY <1>2, <1>6, <1>7

(* wifi_mgr_api_restart returns: its result is ignored, and the outage     *)
(* that made the net act may now be long enough for a reboot.              *)
LEMMA RestartedStep == NetInv /\ Restarted => WatchStep
<1> SUFFICES ASSUME NetInv, Restarted PROVE WatchStep
    OBVIOUS
<1> DEFINE w(d) == Aged(watch, d)
<1>1. pc \in Loop /\ pc \in {"restart", "fallback"}
    BY DEF Restarted, Loop
<1>2. PICK d \in 0..RestartMax, ok \in BOOLEAN :
        /\ Elapse(d) /\ StartResult(ok) /\ MaybeReboot(w(d), webOpen)
        /\ https' = (https /\ pc = "restart")
        /\ sinceGood' = Later(sinceGood, d, DownReboot)
    BY DEF Restarted
<1>3. d \in Nat /\ NetTypeOK /\ rtc.magic /\ reason' = reason /\ streak' = streak
    BY <1>1, LoopInv, Limits DEF Restarted
<1>4. EnvTypeOK'
    <2>1. web' \in {"down", "mute", "up"} /\ degraded' \in BOOLEAN
        BY <1>2, <1>3, StartResultTypes
    <2>2. https' \in BOOLEAN
        BY <1>2
    <2> QED BY <1>3, <2>1, <2>2 DEF Restarted, NetTypeOK, EnvTypeOK
<1>5. /\ w(d) \in Watches /\ w(d).down # Unset /\ w(d).logged /\ Recorded(w(d)) = 1
      /\ webOpen = 1 /\ sinceGood' \in 0..DownReboot
      /\ w(d).down <= sinceGood' /\ uptime' \in 0..BootGrace
    BY <1>1, <1>2, <1>3, LoopInv, AgedWatch, AgedInv DEF Recorded
<1> HIDE DEF w
<1>6. /\ watch' = w(d)
      /\ \/ pc' = "loop" /\ webOpen' = webOpen /\ rtc' = rtc
         \/ /\ pc' = "reboot" /\ webOpen' = webOpen - 1
            /\ rtc.count < MaxReboots /\ w(d).down >= DownReboot
            /\ rtc' = [rtc EXCEPT !.count = @ + 1, !.ours = TRUE]
    BY <1>2, <1>3, <1>5, MaybeRebootStep
<1>7. CASE pc' = "loop" /\ webOpen' = webOpen /\ rtc' = rtc
    BY <1>1, <1>3, <1>4, <1>5, <1>6, <1>7 DEF WatchStep, Loop
<1>8. CASE /\ pc' = "reboot" /\ webOpen' = webOpen - 1
           /\ rtc.count < MaxReboots /\ w(d).down >= DownReboot
           /\ rtc' = [rtc EXCEPT !.count = @ + 1, !.ours = TRUE]
    <2>1. sinceGood' >= DownReboot
        BY <1>5, <1>8, Limits DEF Watches, Unset
    <2>2. webOpen' = 0
        BY <1>5, <1>8
    <2> QED BY <1>1, <1>3, <1>4, <1>5, <1>6, <1>8, <2>1, <2>2 DEF WatchStep, Loop
<1> QED BY <1>6, <1>7, <1>8

(* A repaired secondary server changes nothing about the outage.           *)
LEMMA RepairedStep == NetInv /\ Repaired => WatchStep
<1> SUFFICES ASSUME NetInv, Repaired PROVE WatchStep
    OBVIOUS
<1>1. pc \in Loop /\ pc' = "loop" /\ UNCHANGED <<rtc, reason, streak, webOpen>>
    BY DEF Repaired, Loop
<1>2. PICK d \in 0..RestartMax :
        /\ Elapse(d) /\ watch' = Aged(watch, d)
        /\ sinceGood' = Later(sinceGood, d, DownReboot)
    BY DEF Repaired
<1>3. d \in Nat /\ NetTypeOK
    BY <1>1, LoopInv, Limits
<1>4. EnvTypeOK'
    BY <1>3 DEF Repaired, NetTypeOK, EnvTypeOK
<1>5. /\ watch' \in Watches /\ Recorded(watch') = webOpen
      /\ sinceGood' \in 0..DownReboot /\ watch'.down <= sinceGood' /\ uptime' \in 0..BootGrace
    BY <1>1, <1>2, <1>3, LoopInv, AgedWatch, AgedInv
<1> QED BY <1>1, <1>4, <1>5 DEF WatchStep, Loop

-----------------------------------------------------------------------------
(* Boots, resets and the environment                                       *)

(* A watch of a new boot has no outage.                                    *)
LEMMA FreshWatch == NewWatch \in Watches /\ NewWatch.down = Unset /\ Recorded(NewWatch) = 0
<1>1. /\ Unset \in Unset..DownReboot /\ Unset \in Unset..HealthyReset
      /\ Unset \in Unset..ProbeEvery /\ Unset \in Unset..RepairEvery /\ 0 \in 0..(FailsToAct - 1)
    BY NetAssumption DEF Unset
<1> QED BY <1>1 DEF NewWatch, Watches, Recorded

(* The servers and the link change under the net, and nothing else.        *)
LEMMA EnvStepInv ==
    ASSUME NetInv, SetOnline \/ ServerStarts \/ ServerHangs \/ FaultClears \/ ShutDown
    PROVE  NetInv'
<1>1. /\ UNCHANGED <<rtc, reason, pc, watch, uptime, streak, webOpen, sinceGood>>
    BY DEF SetOnline, ServerStarts, ServerHangs, FaultClears, ShutDown
<1>2. EnvTypeOK'
    BY DEF SetOnline, ServerStarts, ServerHangs, FaultClears, ShutDown, NetInv, NetTypeOK, EnvTypeOK
<1> QED BY <1>1, <1>2 DEF NetInv, NetTypeOK, BudgetInv, OutageInv, Recorded

(* A boot forgets the outage and keeps RTC memory.                         *)
LEMMA BootInv == NetInv /\ Boot => NetInv'
<1> SUFFICES ASSUME NetInv, Boot PROVE NetInv'
    OBVIOUS
<1>1. /\ pc = "off" /\ pc' = "boot" /\ watch' = NewWatch /\ uptime' = 0 /\ webOpen' = 0
      /\ sinceGood' = 0 /\ UNCHANGED <<rtc, reason, streak>>
    BY DEF Boot
<1>2. EnvTypeOK'
    BY DEF Boot, NetInv, NetTypeOK, EnvTypeOK
<1>3. watch' \in Watches /\ watch'.down = Unset
    BY <1>1, FreshWatch
<1>4. 0 \in 0..BootGrace /\ 0 \in 0..DownReboot /\ Unset <= 0
    BY Limits DEF Unset
<1>5. NetTypeOK'
    BY <1>1, <1>2, <1>3, <1>4 DEF NetInv, NetTypeOK
<1>6. BudgetInv'
    BY <1>1 DEF NetInv, BudgetInv
<1>7. OutageInv'
    BY <1>1, <1>3, <1>4 DEF OutageInv
<1> QED BY <1>5, <1>6, <1>7 DEF NetInv

(* The task takes over a count that is its own and clears any other.       *)
LEMMA TaskStartInv == NetInv /\ TaskStart => NetInv'
<1> SUFFICES ASSUME NetInv, TaskStart PROVE NetInv'
    OBVIOUS
<1> DEFINE RtcStates == [magic : BOOLEAN, count : 0..(MaxReboots + 1), ours : BOOLEAN]
<1>1. /\ pc = "boot" /\ pc' = "loop"
      /\ UNCHANGED <<reason, watch, uptime, web, https, degraded, online, shutDown, fault, streak,
                     webOpen, sinceGood>>
      /\ rtc' = IF ~rtc.magic \/ ~rtc.ours \/ reason # "sw"
                THEN [magic |-> TRUE, count |-> 0, ours |-> FALSE]
                ELSE [rtc EXCEPT !.ours = FALSE]
    BY DEF TaskStart, env
<1>2. rtc \in RtcStates /\ MaxReboots \in Nat /\ streak \in Nat
    BY Limits DEF NetInv, NetTypeOK
<1>3. streak = 0 \/ (rtc.ours /\ reason = "sw" /\ streak <= rtc.count)
    BY <1>1 DEF NetInv, BudgetInv
<1>4. rtc.ours => rtc.magic /\ rtc.count <= MaxReboots
    BY DEF NetInv, BudgetInv
<1>5. rtc' \in RtcStates /\ rtc'.magic /\ ~rtc'.ours /\ rtc'.count <= MaxReboots /\ streak <= rtc'.count
    <2>1. CASE ~rtc.magic \/ ~rtc.ours \/ reason # "sw"
        <3>1. rtc' = [magic |-> TRUE, count |-> 0, ours |-> FALSE]
            BY <1>1, <2>1
        <3>2. streak = 0
            BY <1>3, <1>4, <2>1
        <3> QED BY <1>2, <3>1, <3>2
    <2>2. CASE ~(~rtc.magic \/ ~rtc.ours \/ reason # "sw")
        <3>1. rtc' = [rtc EXCEPT !.ours = FALSE]
            BY <1>1, <2>2
        <3>2. /\ rtc' \in RtcStates /\ ~rtc'.ours
              /\ rtc'.magic = rtc.magic /\ rtc'.count = rtc.count
            BY <1>2, <3>1
        <3>3. rtc.magic /\ rtc.count <= MaxReboots /\ rtc.count \in Nat
            BY <1>2, <1>4, <2>2
        <3>4. streak <= rtc.count
            BY <1>2, <1>3, <3>3
        <3> QED BY <3>2, <3>3, <3>4
    <2> QED BY <2>1, <2>2
<1>6. NetTypeOK'
    BY <1>1, <1>5 DEF NetInv, NetTypeOK, EnvTypeOK
<1>7. BudgetInv'
    BY <1>1, <1>5 DEF BudgetInv
<1>8. OutageInv'
    BY <1>1, FreshWatch DEF NetInv, OutageInv, Recorded
<1> QED BY <1>6, <1>7, <1>8 DEF NetInv

(* A reboot of our own is one more in the row; any other reset ends it.    *)
LEMMA ResetInv == NetInv /\ (ApiReboot \/ OtherRestart \/ Crash) => NetInv'
<1> SUFFICES ASSUME NetInv, ApiReboot \/ OtherRestart \/ Crash PROVE NetInv'
    OBVIOUS
<1> DEFINE RtcStates == [magic : BOOLEAN, count : 0..(MaxReboots + 1), ours : BOOLEAN]
<1>1. /\ pc # "off" /\ pc' = "off" /\ reason' \in {"sw", "other"}
      /\ UNCHANGED <<watch, uptime, web, https, degraded, online, shutDown, fault, webOpen, sinceGood>>
    BY DEF ApiReboot, OtherRestart, Crash, env
<1>2. rtc \in RtcStates /\ rtc.count \in Nat /\ streak \in Nat /\ MaxReboots \in Nat
    BY Limits DEF NetInv, NetTypeOK
<1>3. webOpen \in {0, 1}
    BY <1>1 DEF NetInv, NetTypeOK, OutageInv, Recorded
<1>4. OutageInv'
    BY <1>1, <1>3 DEF OutageInv
<1>5. rtc' = rtc \/ (rtc' \in RtcStates /\ ~rtc'.ours)
    <2>1. \A g \in Garbage : g \in RtcStates /\ ~g.ours
        BY DEF Garbage
    <2> QED BY <2>1 DEF ApiReboot, OtherRestart, Crash
<1>6. streak' = 0 \/ (ApiReboot /\ rtc' = rtc /\ streak' = streak + 1 /\ reason' = "sw")
    BY DEF ApiReboot, OtherRestart, Crash
<1>7. NetTypeOK'
    <2>1. rtc' \in RtcStates /\ streak' \in Nat
        BY <1>2, <1>5, <1>6
    <2> QED BY <1>1, <2>1 DEF NetInv, NetTypeOK, EnvTypeOK
<1>8. BudgetInv'
    <2>1. rtc'.ours => rtc'.magic /\ rtc'.count <= MaxReboots
        BY <1>5 DEF NetInv, BudgetInv
    <2>2. streak' = 0 \/ (rtc'.ours /\ reason' = "sw" /\ streak' <= rtc'.count)
        <3>1. ApiReboot => rtc.ours /\ streak < rtc.count
            BY DEF ApiReboot, NetInv, BudgetInv
        <3> QED BY <1>2, <1>6, <3>1
    <2> QED BY <1>1, <2>1, <2>2 DEF BudgetInv
<1> QED BY <1>4, <1>7, <1>8 DEF NetInv

-----------------------------------------------------------------------------
(* The safety net, for any delays and limits                               *)

(* A device that was just powered satisfies the invariant, with garbage in *)
(* RTC memory.                                                             *)
LEMMA NetInitInv == NetInit => NetInv
<1> SUFFICES ASSUME NetInit PROVE NetInv
    OBVIOUS
<1>1. /\ rtc \in [magic : BOOLEAN, count : 0..(MaxReboots + 1), ours : BOOLEAN] /\ ~rtc.ours
    BY DEF NetInit, Garbage
<1>2. EnvTypeOK
    BY DEF NetInit, EnvTypeOK
<1>3. watch \in Watches
    BY FreshWatch DEF NetInit
<1>4. 0 \in 0..BootGrace /\ 0 \in 0..DownReboot
    BY Limits
<1>5. NetTypeOK
    BY <1>1, <1>2, <1>3, <1>4 DEF NetInit, NetTypeOK
<1>6. BudgetInv /\ OutageInv
    BY <1>1 DEF NetInit, BudgetInv, OutageInv
<1> QED BY <1>5, <1>6 DEF NetInv

(* Every step preserves it.                                                *)
LEMMA NetNextInv == NetInv /\ [NetNext]_netVars => NetInv'
<1> SUFFICES ASSUME NetInv, [NetNext]_netVars PROVE NetInv'
    OBVIOUS
<1>1. CASE Supervise \/ Ensured \/ Probed \/ Restarted \/ Repaired
    BY <1>1, SuperviseStep, EnsuredStep, ProbedStep, RestartedStep, RepairedStep, WatchStepInv
<1>2. CASE TaskStart
    BY <1>2, TaskStartInv
<1>3. CASE Boot
    BY <1>3, BootInv
<1>4. CASE ApiReboot \/ OtherRestart \/ Crash
    BY <1>4, ResetInv
<1>5. CASE SetOnline \/ ServerStarts \/ ServerHangs \/ FaultClears \/ ShutDown
    BY <1>5, EnvStepInv
<1>6. CASE UNCHANGED netVars
    BY <1>6 DEF netVars, NetInv, NetTypeOK, EnvTypeOK, BudgetInv, OutageInv, Recorded
<1> QED BY <1>1, <1>2, <1>3, <1>4, <1>5, <1>6 DEF NetNext, Task

(* The invariant of the safety net through checks, boots and resets.       *)
THEOREM NetInvariant == NetSpec => []NetInv
BY NetInitInv, NetNextInv, PTL DEF NetSpec

(* A fault that survives reboots cannot boot-loop the controller: at most  *)
(* API_MAX_REBOOTS safety-net reboots follow each other, whatever RTC      *)
(* memory holds after a power cut.                                         *)
THEOREM NoBootLoop == NetSpec => []BackToBackBounded
<1>1. NetInv => BackToBackBounded
    BY Limits DEF NetInv, NetTypeOK, BudgetInv, BackToBackBounded
<1> QED BY <1>1, NetInvariant, PTL

(* RECOVERED is recorded only for an outage recorded as down, and once;    *)
(* the device is rebooted only after an outage of API_DOWN_REBOOT_MS.      *)
THEOREM NetFollowsOutages == NetSpec => []OutagesFollowed
<1>1. NetInv => OutagesFollowed
    BY DEF NetInv, NetTypeOK, OutageInv, OutagesFollowed, WebEventsMatched, RebootOnlyAfterOutage,
           Recorded
<1> QED BY <1>1, NetInvariant, PTL

-----------------------------------------------------------------------------
USE DEF Flags

-----------------------------------------------------------------------------
(* What the lifecycle functions do to the servers                          *)

(* Stopping closes every port and keeps the rest.                          *)
LEMMA StoppedServers ==
    ASSUME NEW s \in Servers
    PROVE  /\ Stopped(s) \in Servers
           /\ ~Stopped(s).started /\ ~Stopped(s).ssl /\ ~Stopped(s).http /\ ~Stopped(s).integ
           /\ Stopped(s).disabled = s.disabled
BY DEF Stopped, Servers

(* Disabling HTTPS closes port 443 and starts nothing.                     *)
LEMMA DisabledServers ==
    ASSUME NEW s \in Servers
    PROVE  /\ DisableHttps(s) \in Servers
           /\ DisableHttps(s).disabled /\ ~DisableHttps(s).ssl
           /\ DisableHttps(s).started => s.started
           /\ DisableHttps(s).http => s.http
           /\ DisableHttps(s).integ => s.integ
<1>1. CASE s.ssl
    BY <1>1 DEF DisableHttps, Stopped, Servers
<1>2. CASE ~s.ssl
    BY <1>2 DEF DisableHttps, Servers
<1> QED BY <1>1, <1>2

(* A start or repair never opens port 443 once HTTPS is disabled, and does *)
(* nothing at all after the shutdown.                                      *)
LEMMA EnsuredServers ==
    ASSUME NEW s \in Servers, NEW down \in BOOLEAN, s.disabled => ~s.ssl,
           NEW r \in EnsureRunning(s, down)
    PROVE  /\ r.srv \in Servers /\ r.ok \in BOOLEAN
           /\ r.srv.disabled => ~r.srv.ssl
           /\ down => r.srv = s /\ ~r.ok
<1>1. CASE down
    <2>1. r = [srv |-> s, ok |-> FALSE]
        BY <1>1 DEF EnsureRunning
    <2> QED BY <2>1
<1>2. CASE ~down /\ Healthy(s)
    <2>1. r = [srv |-> s, ok |-> TRUE]
        BY <1>2 DEF EnsureRunning
    <2> QED BY <1>2, <2>1
<1>3. CASE ~down /\ ~Healthy(s) /\ Running(s)
    <2>1. PICK t \in Repairs(s) : r = [srv |-> t, ok |-> TRUE]
        BY <1>3 DEF EnsureRunning
    <2>2. t \in Servers /\ t.ssl = s.ssl /\ t.disabled = s.disabled
        BY DEF Repairs, Servers
    <2> QED BY <1>3, <2>1, <2>2
<1>4. CASE ~down /\ ~Healthy(s) /\ ~Running(s)
    <2>1. CASE \E t \in StartOk(s) : r = [srv |-> t, ok |-> TRUE]
        <3>1. PICK t \in StartOk(s) : r = [srv |-> t, ok |-> TRUE]
            BY <2>1
        <3>2. t \in Servers /\ (t.disabled => ~t.ssl)
            BY <3>1 DEF StartOk, Servers
        <3> QED BY <1>4, <3>1, <3>2
    <2>2. CASE \E t \in StartFails(s) : r = [srv |-> t, ok |-> FALSE]
        <3>1. PICK t \in StartFails(s) : r = [srv |-> t, ok |-> FALSE]
            BY <2>2
        <3>2. t = Stopped(s) \/ \E d \in BOOLEAN : t = [Stopped(s) EXCEPT !.mode = FALSE, !.disabled = d]
            BY <3>1 DEF StartFails
        <3>3. t \in Servers /\ ~t.ssl
            BY <3>2, StoppedServers DEF Servers
        <3> QED BY <1>4, <3>1, <3>3
    <2> QED BY <1>4, <2>1, <2>2 DEF EnsureRunning
<1> QED BY <1>1, <1>2, <1>3, <1>4

-----------------------------------------------------------------------------
(* Types                                                                   *)

(* After wifi_mgr_init every variable has its type.                        *)
LEMMA ApiInitTypes ==
    ASSUME ApiInit PROVE ApiTypeOK
<1> USE ApiParameters DEF ApiInit
<1>1. SharedTypeOK
    <2>1. /\ lastOk \in BOOLEAN /\ probeOk \in BOOLEAN /\ notified \in BOOLEAN /\ ip \in BOOLEAN
          /\ s_shut_down \in BOOLEAN /\ mdns \in BOOLEAN /\ s_mdns_ready \in BOOLEAN
        OBVIOUS
    <2>2. /\ reqGen = 0 /\ doneGen = 0 /\ probeReq = 0 /\ probeDone = 0 /\ reqFlags = {}
          /\ ev = "idle" /\ ota = "idle"
        OBVIOUS
    <2>3. 0 \in 0..MaxReq /\ 0 \in 0..MaxProbe
        OBVIOUS
    <2> QED BY <2>1, <2>2, <2>3, Zenon DEF SharedTypeOK
<1>2. ServiceTypeOK
    BY DEF ServiceTypeOK
<1>3. SupervisorTypeOK
    BY DEF SupervisorTypeOK
<1> QED BY <1>1, <1>2, <1>3 DEF ApiTypeOK

(* The service task is alone in changing its own state.                    *)
LEMMA OthersLeaveService ==
    Supervisor \/ GotIp \/ GotIpNotify \/ LinkLost \/ OtaShutdown \/ OtaMdnsFree => svc' = svc
BY DEF Supervisor, GotIp, GotIpNotify, LinkLost, OtaShutdown, OtaMdnsFree, SupEnsure, SupRestart,
       SupRestartPost, SupProbe, SupNotify, SupReturn, SupTimeout

(* The service task leaves the supervisor alone.                           *)
LEMMA ServiceLeavesOthers ==
    Service => sup' = sup /\ ev' = ev /\ ota' = ota /\ ip' = ip /\ s_shut_down' = s_shut_down
<1>1. CASE SvcWake
    BY <1>1 DEF SvcWake, servers
<1>2. CASE SvcReadGen
    BY <1>2 DEF SvcReadGen, servers
<1>3. CASE SvcTakeFlags
    BY <1>3 DEF SvcTakeFlags, servers
<1>4. CASE SvcCheck
    BY <1>4 DEF SvcCheck, servers
<1>5. CASE SvcDisable
    BY <1>5 DEF SvcDisable, servers
<1>6. CASE SvcStop
    BY <1>6 DEF SvcStop, servers
<1>7. CASE SvcMdns
    BY <1>7 DEF SvcMdns, servers
<1>8. CASE SvcEnsure
    BY <1>8 DEF SvcEnsure, servers
<1>9. CASE SvcResult
    BY <1>9 DEF SvcResult, servers
<1>10. CASE SvcDone
    BY <1>10 DEF SvcDone, servers
<1>11. CASE SvcReadProbe
    BY <1>11 DEF SvcReadProbe, servers
<1>12. CASE SvcProbe
    BY <1>12 DEF SvcProbe, servers
<1>13. CASE SvcProbeResult
    BY <1>13 DEF SvcProbeResult, servers
<1>14. CASE SvcProbeDone
    BY <1>14 DEF SvcProbeDone, servers
<1> QED BY <1>1, <1>2, <1>3, <1>4, <1>5, <1>6, <1>7, <1>8, <1>9, <1>10, <1>11, <1>12, <1>13, <1>14 DEF Service

(* Each step of the service task keeps the type of its state.              *)
LEMMA ServiceTypes ==
    ASSUME ApiTypeOK, OnlyAllowedServers, Service
    PROVE  ServiceTypeOK'
<1> USE DEF ApiTypeOK, ServiceTypeOK
<1>1. CASE SvcWake
    BY <1>1 DEF SvcWake, SharedTypeOK
<1>2. CASE SvcReadGen
    BY <1>2 DEF SvcReadGen, SharedTypeOK
<1>3. CASE SvcTakeFlags
    BY <1>3 DEF SvcTakeFlags, SharedTypeOK
<1>4. CASE SvcCheck
    BY <1>4 DEF SvcCheck, SharedTypeOK
<1>5. CASE SvcDisable
    BY <1>5 DEF SvcDisable, SharedTypeOK
<1>6. CASE SvcStop
    BY <1>6 DEF SvcStop, SharedTypeOK
<1>7. CASE SvcMdns
    BY <1>7 DEF SvcMdns, SharedTypeOK
<1>8. CASE SvcEnsure
    <2>1. PICK r \in EnsureRunning(srv, s_shut_down) : svc' = [svc EXCEPT !.pc = "result", !.ok = r.ok]
        BY <1>8, Zenon DEF SvcEnsure
    <2>2. r.ok \in BOOLEAN
        BY EnsuredServers DEF OnlyAllowedServers, DisabledMeansNo443, SharedTypeOK
    <2> QED BY <2>1, <2>2
<1>9. CASE SvcResult
    BY <1>9 DEF SvcResult, SharedTypeOK
<1>10. CASE SvcDone
    BY <1>10 DEF SvcDone, SharedTypeOK
<1>11. CASE SvcReadProbe
    BY <1>11 DEF SvcReadProbe, SharedTypeOK
<1>12. CASE SvcProbe
    BY <1>12 DEF SvcProbe, SharedTypeOK
<1>13. CASE SvcProbeResult
    BY <1>13 DEF SvcProbeResult, SharedTypeOK
<1>14. CASE SvcProbeDone
    BY <1>14 DEF SvcProbeDone, SharedTypeOK
<1> QED
    BY <1>1, <1>2, <1>3, <1>4, <1>5, <1>6, <1>7, <1>8, <1>9, <1>10, <1>11, <1>12, <1>13, <1>14 DEF Service

(* Only a shutdown, the two orders to stop and a start touch the servers.  *)
LEMMA OthersLeaveServers ==
    [ApiNext]_serviceVars => \/ OtaShutdown \/ SvcDisable \/ SvcStop \/ SvcEnsure
                      \/ UNCHANGED <<srv, s_shut_down>>
<1> SUFFICES ASSUME [ApiNext]_serviceVars
             PROVE  \/ OtaShutdown \/ SvcDisable \/ SvcStop \/ SvcEnsure
                    \/ UNCHANGED <<srv, s_shut_down>>
    OBVIOUS
<1>1. CASE Service
    <2>1. CASE SvcWake \/ SvcReadGen \/ SvcTakeFlags \/ SvcCheck \/ SvcMdns
        BY <2>1 DEF SvcWake, SvcReadGen, SvcTakeFlags, SvcCheck, SvcMdns, servers
    <2>2. CASE SvcResult \/ SvcDone
        BY <2>2 DEF SvcResult, SvcDone, servers
    <2>3. CASE SvcReadProbe \/ SvcProbeResult \/ SvcProbeDone
        BY <2>3 DEF SvcReadProbe, SvcProbeResult, SvcProbeDone, servers
    <2>4. CASE SvcProbe
        BY <2>4 DEF SvcProbe, servers
    <2> QED BY <1>1, <2>1, <2>2, <2>3, <2>4 DEF Service
<1>2. CASE Supervisor
    BY <1>2 DEF Supervisor, SupEnsure, SupRestart, SupRestartPost, SupProbe, SupNotify, SupReturn,
       SupTimeout, servers
<1>3. CASE GotIp \/ GotIpNotify \/ LinkLost \/ OtaMdnsFree \/ UNCHANGED serviceVars
    BY <1>3 DEF GotIp, GotIpNotify, LinkLost, OtaMdnsFree, servers, serviceVars
<1> QED BY <1>1, <1>2, <1>3 DEF ApiNext

(* Requests, results and the notification keep their types.                *)
LEMMA SharedTypes ==
    ASSUME ApiTypeOK, [ApiNext]_serviceVars
    PROVE  SharedTypeOK'
<1> USE ApiParameters DEF ApiTypeOK, SharedTypeOK, ServiceTypeOK, atomics, servers
<1>1. CASE GotIp
    BY <1>1 DEF GotIp
<1>2. CASE GotIpNotify
    BY <1>2 DEF GotIpNotify
<1>3. CASE LinkLost
    BY <1>3 DEF LinkLost
<1>4. CASE OtaShutdown
    BY <1>4 DEF OtaShutdown
<1>5. CASE OtaMdnsFree
    BY <1>5 DEF OtaMdnsFree
<1>6. CASE SvcWake
    BY <1>6 DEF SvcWake
<1>7. CASE SvcReadGen
    BY <1>7 DEF SvcReadGen
<1>8. CASE SvcTakeFlags
    BY <1>8 DEF SvcTakeFlags
<1>9. CASE SvcCheck
    BY <1>9 DEF SvcCheck
<1>10. CASE SvcDisable
    BY <1>10 DEF SvcDisable
<1>11. CASE SvcStop
    BY <1>11 DEF SvcStop
<1>12. CASE SvcMdns
    BY <1>12 DEF SvcMdns
<1>13. CASE SvcEnsure
    BY <1>13 DEF SvcEnsure
<1>14. CASE SvcResult
    BY <1>14 DEF SvcResult
<1>15. CASE SvcDone
    BY <1>15 DEF SvcDone
<1>16. CASE SvcReadProbe
    BY <1>16 DEF SvcReadProbe
<1>17. CASE SvcProbe
    BY <1>17 DEF SvcProbe
<1>18. CASE SvcProbeResult
    BY <1>18 DEF SvcProbeResult
<1>19. CASE SvcProbeDone
    BY <1>19 DEF SvcProbeDone
<1>20. CASE SupEnsure
    BY <1>20 DEF SupEnsure
<1>21. CASE SupRestart
    BY <1>21 DEF SupRestart
<1>22. CASE SupRestartPost
    BY <1>22 DEF SupRestartPost
<1>23. CASE SupProbe
    BY <1>23 DEF SupProbe
<1>24. CASE SupNotify
    BY <1>24 DEF SupNotify
<1>25. CASE SupReturn
    BY <1>25 DEF SupReturn
<1>26. CASE SupTimeout
    BY <1>26 DEF SupTimeout
<1>27. CASE UNCHANGED serviceVars
    BY <1>27 DEF serviceVars
<1> QED
    BY <1>1, <1>2, <1>3, <1>4, <1>5, <1>6, <1>7, <1>8, <1>9, <1>10, <1>11, <1>12, <1>13, <1>14,
       <1>15, <1>16, <1>17, <1>18, <1>19, <1>20, <1>21, <1>22, <1>23, <1>24, <1>25, <1>26, <1>27
       DEF ApiNext, Service, Supervisor

(* The supervisor's call in progress and the history keep their types.     *)
LEMMA SupervisorTypes ==
    ASSUME ApiTypeOK, [ApiNext]_serviceVars
    PROVE  SupervisorTypeOK'
<1> reqGen + 1 \in Nat /\ probeReq + 1 \in Nat
    BY ApiParameters DEF ApiTypeOK, SharedTypeOK
<1> USE DEF ApiTypeOK, SupervisorTypeOK
<1>1. CASE GotIp
    BY <1>1 DEF GotIp
<1>2. CASE GotIpNotify
    BY <1>2 DEF GotIpNotify
<1>3. CASE LinkLost
    BY <1>3 DEF LinkLost
<1>4. CASE OtaShutdown
    BY <1>4 DEF OtaShutdown
<1>5. CASE OtaMdnsFree
    BY <1>5 DEF OtaMdnsFree
<1>6. CASE SvcWake
    BY <1>6 DEF SvcWake
<1>7. CASE SvcReadGen
    BY <1>7 DEF SvcReadGen
<1>8. CASE SvcTakeFlags
    BY <1>8 DEF SvcTakeFlags
<1>9. CASE SvcCheck
    BY <1>9 DEF SvcCheck
<1>10. CASE SvcDisable
    BY <1>10 DEF SvcDisable
<1>11. CASE SvcStop
    BY <1>11 DEF SvcStop
<1>12. CASE SvcMdns
    BY <1>12 DEF SvcMdns
<1>13. CASE SvcEnsure
    BY <1>13 DEF SvcEnsure
<1>14. CASE SvcResult
    BY <1>14 DEF SvcResult
<1>15. CASE SvcDone
    BY <1>15 DEF SvcDone
<1>16. CASE SvcReadProbe
    BY <1>16 DEF SvcReadProbe
<1>17. CASE SvcProbe
    BY <1>17 DEF SvcProbe
<1>18. CASE SvcProbeResult
    BY <1>18 DEF SvcProbeResult
<1>19. CASE SvcProbeDone
    BY <1>19 DEF SvcProbeDone
<1>20. CASE SupEnsure
    BY <1>20 DEF SupEnsure
<1>21. CASE SupRestart
    BY <1>21 DEF SupRestart
<1>22. CASE SupRestartPost
    BY <1>22 DEF SupRestartPost
<1>23. CASE SupProbe
    BY <1>23 DEF SupProbe
<1>24. CASE SupNotify
    BY <1>24 DEF SupNotify
<1>25. CASE SupReturn
    BY <1>25 DEF SupReturn
<1>26. CASE SupTimeout
    BY <1>26 DEF SupTimeout
<1>27. CASE UNCHANGED serviceVars
    BY <1>27 DEF serviceVars
<1> QED
    BY <1>1, <1>2, <1>3, <1>4, <1>5, <1>6, <1>7, <1>8, <1>9, <1>10, <1>11, <1>12, <1>13, <1>14,
       <1>15, <1>16, <1>17, <1>18, <1>19, <1>20, <1>21, <1>22, <1>23, <1>24, <1>25, <1>26, <1>27
       DEF ApiNext, Service, Supervisor

(* ApiNext preserves the types.                                            *)
LEMMA ApiNextTypes ==
    ASSUME ApiTypeOK, OnlyAllowedServers, [ApiNext]_serviceVars
    PROVE  ApiTypeOK'
<1>1. ServiceTypeOK'
    <2>1. CASE Service
        BY <2>1, ServiceTypes
    <2>2. CASE svc' = svc
        BY <2>2 DEF ApiTypeOK, ServiceTypeOK
    <2> QED BY <2>1, <2>2, OthersLeaveService DEF ApiNext, serviceVars
<1>2. srv' \in Servers
    <2>1. CASE OtaShutdown
        BY <2>1, StoppedServers DEF OtaShutdown, ApiTypeOK
    <2>2. CASE SvcDisable
        BY <2>2, DisabledServers DEF SvcDisable, ApiTypeOK
    <2>3. CASE SvcStop
        BY <2>3, StoppedServers DEF SvcStop, ApiTypeOK
    <2>4. CASE SvcEnsure
        BY <2>4, EnsuredServers
           DEF SvcEnsure, ApiTypeOK, SharedTypeOK, OnlyAllowedServers, DisabledMeansNo443
    <2>5. CASE srv' = srv
        BY <2>5 DEF ApiTypeOK
    <2> QED BY <2>1, <2>2, <2>3, <2>4, <2>5, OthersLeaveServers
<1> QED BY <1>1, <1>2, SharedTypes, SupervisorTypes DEF ApiTypeOK

-----------------------------------------------------------------------------
(* The servers that run                                                    *)

(* No step opens a port after the shutdown, or 443 once it is disabled.    *)
LEMMA ApiNextServers ==
    ASSUME ApiTypeOK, OnlyAllowedServers, [ApiNext]_serviceVars
    PROVE  OnlyAllowedServers'
<1> USE DEF ApiTypeOK, OnlyAllowedServers, NoServerAfterShutdown, DisabledMeansNo443
<1>1. CASE OtaShutdown
    BY <1>1, StoppedServers DEF OtaShutdown
<1>2. CASE SvcDisable
    <2>1. srv' = srv \/ srv' = DisableHttps(srv)
        BY <1>2 DEF SvcDisable
    <2> QED BY <1>2, <2>1, DisabledServers DEF SvcDisable
<1>3. CASE SvcStop
    <2>1. srv' = srv \/ srv' = Stopped(srv)
        BY <1>3 DEF SvcStop
    <2> QED BY <1>3, <2>1, StoppedServers DEF SvcStop
<1>4. CASE SvcEnsure
    <2>1. PICK r \in EnsureRunning(srv, s_shut_down) : srv' = r.srv
        BY <1>4, Zenon DEF SvcEnsure
    <2>2. s_shut_down \in BOOLEAN /\ s_shut_down' = s_shut_down
        BY <1>4 DEF SvcEnsure, SharedTypeOK
    <2> QED BY <2>1, <2>2, EnsuredServers
<1>5. CASE UNCHANGED <<srv, s_shut_down>>
    BY <1>5
<1> QED BY <1>1, <1>2, <1>3, <1>4, <1>5, OthersLeaveServers

-----------------------------------------------------------------------------
(* Requests and results                                                    *)

(* What the types say of the parts the next lemmas compare.                *)
LEMMA GenerationTypes ==
    ASSUME ApiTypeOK
    PROVE  /\ reqGen \in Nat /\ doneGen \in Nat /\ svc.gen \in Nat /\ sup.gen \in Nat
           /\ svc.ok \in BOOLEAN /\ lastOk \in BOOLEAN
           /\ hist.owed \in BOOLEAN /\ hist.ran \in BOOLEAN
           /\ DOMAIN svc = {"pc", "gen", "flags", "ok", "pgen"}
           /\ DOMAIN sup = {"pc", "kind", "gen", "failed"}
           /\ svc = [svc EXCEPT !.pc = svc.pc] /\ sup = [sup EXCEPT !.pc = sup.pc]
           /\ hist = [hist EXCEPT !.owed = hist.owed]
BY ApiParameters DEF ApiTypeOK, SharedTypeOK, ServiceTypeOK, SupervisorTypeOK

(* A request that is refused drops its flags and the restart they ask for. *)
LEMMA CheckEffect ==
    ASSUME ApiTypeOK, SvcCheck
    PROVE  /\ svc.pc = "check" /\ svc'.gen = svc.gen /\ svc'.ok = svc.ok
           /\ \/ svc'.pc = "disable" /\ svc'.flags = svc.flags /\ hist' = hist
              \/ /\ svc'.pc = "result" /\ hist'.ran = hist.ran
                 /\ hist'.owed = (hist.owed /\ "restart" \notin svc.flags)
           /\ UNCHANGED <<reqGen, doneGen, lastOk, reqFlags, sup>>
<1> USE DEF ApiTypeOK, ServiceTypeOK, SupervisorTypeOK, atomics
<1>1. svc.pc = "check" /\ UNCHANGED <<reqGen, doneGen, lastOk, reqFlags, sup>>
    BY DEF SvcCheck
<1>2. CASE svc' = [svc EXCEPT !.pc = "disable"] /\ hist' = hist
    BY <1>1, <1>2
<1>3. CASE /\ svc' = [svc EXCEPT !.pc = "result", !.flags = {}]
           /\ hist' = [hist EXCEPT !.owed = (@ /\ "restart" \notin svc.flags)]
    <2>1. svc'.pc = "result" /\ svc'.gen = svc.gen /\ svc'.ok = svc.ok
        BY <1>3
    <2>2. hist'.ran = hist.ran /\ hist'.owed = (hist.owed /\ "restart" \notin svc.flags)
        BY <1>3
    <2> QED BY <1>1, <2>1, <2>2
<1> QED BY <1>2, <1>3 DEF SvcCheck

(* A stop with the restart flag serves the restart that is owed.           *)
LEMMA StopEffect ==
    ASSUME ApiTypeOK, SvcStop
    PROVE  /\ svc.pc = "stop" /\ svc'.pc = "mdns" /\ svc'.gen = svc.gen /\ svc'.ok = svc.ok
           /\ hist'.ran = hist.ran /\ hist'.owed = (hist.owed /\ "restart" \notin svc.flags)
           /\ UNCHANGED <<reqGen, doneGen, lastOk, reqFlags, sup>>
<1> USE DEF ApiTypeOK, ServiceTypeOK, SupervisorTypeOK, atomics
<1>1. svc.pc = "stop" /\ UNCHANGED <<reqGen, doneGen, lastOk, reqFlags, sup>>
    BY DEF SvcStop
<1>2. svc'.pc = "mdns" /\ svc'.gen = svc.gen /\ svc'.ok = svc.ok
    BY DEF SvcStop
<1>3. hist' = IF "restart" \in svc.flags THEN [hist EXCEPT !.owed = FALSE] ELSE hist
    BY DEF SvcStop
<1>4. hist.owed \in BOOLEAN
    OBVIOUS
<1>5. hist'.ran = hist.ran /\ hist'.owed = (hist.owed /\ "restart" \notin svc.flags)
    BY <1>3, <1>4
<1> QED BY <1>1, <1>2, <1>5

(* A start that succeeds counts as a run of the servers.                   *)
LEMMA EnsureEffect ==
    ASSUME ApiTypeOK, OnlyAllowedServers, SvcEnsure
    PROVE  /\ svc.pc = "ensure" /\ svc'.pc = "result" /\ svc'.gen = svc.gen
           /\ ~hist'.ran => ~hist.ran /\ ~svc'.ok
           /\ UNCHANGED <<reqGen, doneGen, lastOk, reqFlags, sup>>
<1> USE DEF ApiTypeOK, ServiceTypeOK, SupervisorTypeOK, atomics
<1>1. svc.pc = "ensure" /\ UNCHANGED <<reqGen, doneGen, lastOk, reqFlags, sup>>
    BY DEF SvcEnsure
<1>2. PICK r \in EnsureRunning(srv, s_shut_down) :
            /\ svc' = [svc EXCEPT !.pc = "result", !.ok = r.ok]
            /\ hist' = [hist EXCEPT !.ran = @ \/ r.ok]
    BY Zenon DEF SvcEnsure
<1>3. svc'.pc = "result" /\ svc'.gen = svc.gen /\ svc'.ok = r.ok
    BY <1>2
<1>4. ~hist'.ran => ~hist.ran /\ ~r.ok
    <2>1. hist'.ran = (hist.ran \/ r.ok)
        BY <1>2
    <2> QED BY <2>1
<1> QED BY <1>1, <1>3, <1>4

(* Generations are posted, read and completed in order.                    *)
LEMMA ApiNextOrder ==
    ASSUME ApiTypeOK, GenerationsInOrder, [ApiNext]_serviceVars
    PROVE  GenerationsInOrder'
<1> USE GenerationTypes DEF GenerationsInOrder, Posted, atomics
<1>1. CASE GotIp
    BY <1>1 DEF GotIp
<1>2. CASE GotIpNotify
    BY <1>2 DEF GotIpNotify
<1>3. CASE LinkLost
    BY <1>3 DEF LinkLost
<1>4. CASE OtaShutdown
    BY <1>4 DEF OtaShutdown
<1>5. CASE OtaMdnsFree
    BY <1>5 DEF OtaMdnsFree
<1>6. CASE SvcWake
    BY <1>6 DEF SvcWake
<1>7. CASE SvcReadGen
    BY <1>7 DEF SvcReadGen
<1>8. CASE SvcTakeFlags
    BY <1>8 DEF SvcTakeFlags
<1>9. CASE SvcCheck
    BY <1>9 DEF SvcCheck
<1>10. CASE SvcDisable
    BY <1>10 DEF SvcDisable
<1>11. CASE SvcStop
    BY <1>11 DEF SvcStop
<1>12. CASE SvcMdns
    BY <1>12 DEF SvcMdns
<1>13. CASE SvcEnsure
    BY <1>13 DEF SvcEnsure
<1>14. CASE SvcResult
    BY <1>14 DEF SvcResult
<1>15. CASE SvcDone
    BY <1>15 DEF SvcDone
<1>16. CASE SvcReadProbe
    BY <1>16 DEF SvcReadProbe
<1>17. CASE SvcProbe
    BY <1>17 DEF SvcProbe
<1>18. CASE SvcProbeResult
    BY <1>18 DEF SvcProbeResult
<1>19. CASE SvcProbeDone
    BY <1>19 DEF SvcProbeDone
<1>20. CASE SupEnsure
    BY <1>20 DEF SupEnsure
<1>21. CASE SupRestart
    BY <1>21 DEF SupRestart
<1>22. CASE SupRestartPost
    BY <1>22 DEF SupRestartPost
<1>23. CASE SupProbe
    BY <1>23 DEF SupProbe
<1>24. CASE SupNotify
    BY <1>24 DEF SupNotify
<1>25. CASE SupReturn
    BY <1>25 DEF SupReturn
<1>26. CASE SupTimeout
    BY <1>26 DEF SupTimeout
<1>27. CASE UNCHANGED serviceVars
    BY <1>27 DEF serviceVars
<1> QED
    BY <1>1, <1>2, <1>3, <1>4, <1>5, <1>6, <1>7, <1>8, <1>9, <1>10, <1>11, <1>12, <1>13, <1>14,
       <1>15, <1>16, <1>17, <1>18, <1>19, <1>20, <1>21, <1>22, <1>23, <1>24, <1>25, <1>26, <1>27
       DEF ApiNext, Service, Supervisor

(* A restart that is owed stays flagged until the servers are stopped.     *)
LEMMA ApiNextFlagged ==
    ASSUME ApiTypeOK, OwedIsFlagged, [ApiNext]_serviceVars
    PROVE  OwedIsFlagged'
<1> USE GenerationTypes DEF OwedIsFlagged, atomics
<1>1. CASE GotIp
    BY <1>1 DEF GotIp
<1>2. CASE GotIpNotify
    BY <1>2 DEF GotIpNotify
<1>3. CASE LinkLost
    BY <1>3 DEF LinkLost
<1>4. CASE OtaShutdown
    BY <1>4 DEF OtaShutdown
<1>5. CASE OtaMdnsFree
    BY <1>5 DEF OtaMdnsFree
<1>6. CASE SvcWake
    BY <1>6 DEF SvcWake
<1>7. CASE SvcReadGen
    BY <1>7 DEF SvcReadGen
<1>8. CASE SvcTakeFlags
    BY <1>8 DEF SvcTakeFlags
<1>9. CASE SvcCheck
    BY <1>9, CheckEffect
<1>10. CASE SvcDisable
    BY <1>10 DEF SvcDisable
<1>11. CASE SvcStop
    BY <1>11, StopEffect
<1>12. CASE SvcMdns
    BY <1>12 DEF SvcMdns
<1>13. CASE SvcEnsure
    BY <1>13 DEF SvcEnsure
<1>14. CASE SvcResult
    BY <1>14 DEF SvcResult
<1>15. CASE SvcDone
    BY <1>15 DEF SvcDone
<1>16. CASE SvcReadProbe
    BY <1>16 DEF SvcReadProbe
<1>17. CASE SvcProbe
    BY <1>17 DEF SvcProbe
<1>18. CASE SvcProbeResult
    BY <1>18 DEF SvcProbeResult
<1>19. CASE SvcProbeDone
    BY <1>19 DEF SvcProbeDone
<1>20. CASE SupEnsure
    BY <1>20 DEF SupEnsure
<1>21. CASE SupRestart
    BY <1>21 DEF SupRestart
<1>22. CASE SupRestartPost
    BY <1>22 DEF SupRestartPost
<1>23. CASE SupProbe
    BY <1>23 DEF SupProbe
<1>24. CASE SupNotify
    BY <1>24 DEF SupNotify
<1>25. CASE SupReturn
    BY <1>25 DEF SupReturn
<1>26. CASE SupTimeout
    BY <1>26 DEF SupTimeout
<1>27. CASE UNCHANGED serviceVars
    BY <1>27 DEF serviceVars
<1> QED
    BY <1>1, <1>2, <1>3, <1>4, <1>5, <1>6, <1>7, <1>8, <1>9, <1>10, <1>11, <1>12, <1>13, <1>14,
       <1>15, <1>16, <1>17, <1>18, <1>19, <1>20, <1>21, <1>22, <1>23, <1>24, <1>25, <1>26, <1>27
       DEF ApiNext, Service, Supervisor

(* The generation of an owed restart stays ahead of what is completed.     *)
LEMMA ApiNextAhead ==
    ASSUME ApiTypeOK, GenerationsInOrder, OwedIsFlagged, OwedIsAhead, [ApiNext]_serviceVars
    PROVE  OwedIsAhead'
<1> USE GenerationTypes DEF OwedIsAhead, GenerationsInOrder, Posted, atomics
<1>1. CASE GotIp
    BY <1>1 DEF GotIp
<1>2. CASE GotIpNotify
    BY <1>2 DEF GotIpNotify
<1>3. CASE LinkLost
    BY <1>3 DEF LinkLost
<1>4. CASE OtaShutdown
    BY <1>4 DEF OtaShutdown
<1>5. CASE OtaMdnsFree
    BY <1>5 DEF OtaMdnsFree
<1>6. CASE SvcWake
    BY <1>6 DEF SvcWake
<1>7. CASE SvcReadGen
    BY <1>7 DEF SvcReadGen
<1>8. CASE SvcTakeFlags
    BY <1>8 DEF SvcTakeFlags, OwedIsFlagged
<1>9. CASE SvcCheck
    BY <1>9, CheckEffect
<1>10. CASE SvcDisable
    BY <1>10 DEF SvcDisable
<1>11. CASE SvcStop
    BY <1>11, StopEffect
<1>12. CASE SvcMdns
    BY <1>12 DEF SvcMdns
<1>13. CASE SvcEnsure
    BY <1>13 DEF SvcEnsure
<1>14. CASE SvcResult
    BY <1>14 DEF SvcResult
<1>15. CASE SvcDone
    BY <1>15 DEF SvcDone
<1>16. CASE SvcReadProbe
    BY <1>16 DEF SvcReadProbe
<1>17. CASE SvcProbe
    BY <1>17 DEF SvcProbe
<1>18. CASE SvcProbeResult
    BY <1>18 DEF SvcProbeResult
<1>19. CASE SvcProbeDone
    BY <1>19 DEF SvcProbeDone
<1>20. CASE SupEnsure
    BY <1>20 DEF SupEnsure
<1>21. CASE SupRestart
    BY <1>21 DEF SupRestart
<1>22. CASE SupRestartPost
    BY <1>22 DEF SupRestartPost
<1>23. CASE SupProbe
    BY <1>23 DEF SupProbe
<1>24. CASE SupNotify
    BY <1>24 DEF SupNotify
<1>25. CASE SupReturn
    BY <1>25 DEF SupReturn
<1>26. CASE SupTimeout
    BY <1>26 DEF SupTimeout
<1>27. CASE UNCHANGED serviceVars
    BY <1>27 DEF serviceVars
<1> QED
    BY <1>1, <1>2, <1>3, <1>4, <1>5, <1>6, <1>7, <1>8, <1>9, <1>10, <1>11, <1>12, <1>13, <1>14,
       <1>15, <1>16, <1>17, <1>18, <1>19, <1>20, <1>21, <1>22, <1>23, <1>24, <1>25, <1>26, <1>27
       DEF ApiNext, Service, Supervisor

(* A success that is stored belongs to an older generation than the post.  *)
LEMMA ApiNextOlder ==
    ASSUME ApiTypeOK, OnlyAllowedServers, GenerationsInOrder, OldResultIsOlder,
           [ApiNext]_serviceVars
    PROVE  OldResultIsOlder'
<1> USE GenerationTypes DEF OldResultIsOlder, GenerationsInOrder, Posted, atomics
<1>1. CASE GotIp
    BY <1>1 DEF GotIp
<1>2. CASE GotIpNotify
    BY <1>2 DEF GotIpNotify
<1>3. CASE LinkLost
    BY <1>3 DEF LinkLost
<1>4. CASE OtaShutdown
    BY <1>4 DEF OtaShutdown
<1>5. CASE OtaMdnsFree
    BY <1>5 DEF OtaMdnsFree
<1>6. CASE SvcWake
    BY <1>6 DEF SvcWake
<1>7. CASE SvcReadGen
    BY <1>7 DEF SvcReadGen
<1>8. CASE SvcTakeFlags
    BY <1>8 DEF SvcTakeFlags
<1>9. CASE SvcCheck
    BY <1>9, CheckEffect
<1>10. CASE SvcDisable
    BY <1>10 DEF SvcDisable
<1>11. CASE SvcStop
    BY <1>11, StopEffect
<1>12. CASE SvcMdns
    BY <1>12 DEF SvcMdns
<1>13. CASE SvcEnsure
    BY <1>13, EnsureEffect
<1>14. CASE SvcResult
    BY <1>14 DEF SvcResult
<1>15. CASE SvcDone
    BY <1>15 DEF SvcDone
<1>16. CASE SvcReadProbe
    BY <1>16 DEF SvcReadProbe
<1>17. CASE SvcProbe
    BY <1>17 DEF SvcProbe
<1>18. CASE SvcProbeResult
    BY <1>18 DEF SvcProbeResult
<1>19. CASE SvcProbeDone
    BY <1>19 DEF SvcProbeDone
<1>20. CASE SupEnsure
    BY <1>20 DEF SupEnsure
<1>21. CASE SupRestart
    BY <1>21 DEF SupRestart
<1>22. CASE SupRestartPost
    BY <1>22 DEF SupRestartPost
<1>23. CASE SupProbe
    BY <1>23 DEF SupProbe
<1>24. CASE SupNotify
    BY <1>24 DEF SupNotify
<1>25. CASE SupReturn
    BY <1>25 DEF SupReturn
<1>26. CASE SupTimeout
    BY <1>26 DEF SupTimeout
<1>27. CASE UNCHANGED serviceVars
    BY <1>27 DEF serviceVars
<1> QED
    BY <1>1, <1>2, <1>3, <1>4, <1>5, <1>6, <1>7, <1>8, <1>9, <1>10, <1>11, <1>12, <1>13, <1>14,
       <1>15, <1>16, <1>17, <1>18, <1>19, <1>20, <1>21, <1>22, <1>23, <1>24, <1>25, <1>26, <1>27
       DEF ApiNext, Service, Supervisor

-----------------------------------------------------------------------------
(* The service task, for any number of requests                            *)

(* The invariant holds when the service task has been created.             *)
LEMMA ApiInitInv == ApiInit => ApiInv
<1> SUFFICES ASSUME ApiInit PROVE ApiInv
    OBVIOUS
<1>1. ApiTypeOK
    BY ApiInitTypes
<1>2. OnlyAllowedServers
    BY DEF ApiInit, OnlyAllowedServers, NoServerAfterShutdown, DisabledMeansNo443
<1>3. GenerationsInOrder /\ OwedIsFlagged /\ OwedIsAhead /\ OldResultIsOlder
    BY DEF ApiInit, GenerationsInOrder, OwedIsFlagged, OwedIsAhead, OldResultIsOlder, Posted
<1> QED BY <1>1, <1>2, <1>3 DEF ApiInv

(* Every step preserves it.                                                *)
LEMMA ApiNextInv == ApiInv /\ [ApiNext]_serviceVars => ApiInv'
BY ApiNextTypes, ApiNextServers, ApiNextOrder, ApiNextFlagged, ApiNextAhead, ApiNextOlder DEF ApiInv

(* The invariant of the service task, its requesters and the servers.      *)
THEOREM ApiInvariant == ApiSpec => []ApiInv
BY ApiInitInv, ApiNextInv, PTL DEF ApiSpec

(* No server runs after api_server_shutdown, whatever start was under way  *)
(* or requested, and nothing listens on port 443 once it is disabled.      *)
THEOREM ServersAllowed == ApiSpec => []OnlyAllowedServers
<1>1. ApiInv => OnlyAllowedServers
    BY DEF ApiInv
<1> QED BY <1>1, ApiInvariant, PTL

(* wifi_mgr_api_restart finds its generation completed only after its      *)
(* restart flag was acted on, although requests are merged.                *)
THEOREM RestartIsServed == ApiSpec => [](ApiTypeOK /\ RestartServed)
<1>1. ApiInv => ApiTypeOK /\ RestartServed
    <2> SUFFICES ASSUME ApiInv PROVE RestartServed
        BY DEF ApiInv
    <2>1. doneGen \in Nat /\ sup.gen \in Nat
        BY GenerationTypes DEF ApiInv
    <2> QED BY <2>1 DEF ApiInv, OwedIsAhead, RestartServed, Posted
<1> QED BY <1>1, ApiInvariant, PTL

(* A success that the caller sees is one of its own request or a later.    *)
THEOREM SuccessIsFresh == ApiSpec => []OkIsFresh
<1>1. ApiInv => OkIsFresh
    BY DEF ApiInv, OldResultIsOlder, OkIsFresh, Posted, ApiTypeOK, SupervisorTypeOK
<1> QED BY <1>1, ApiInvariant, PTL
=============================================================================
