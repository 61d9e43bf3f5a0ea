------------------------- MODULE LinkSupervisorProofs -------------------------
(***************************************************************************)
(* Proofs about the link supervision, for all the delays and limits of     *)
(* wifi_supervisor.cpp: it reboots the device only after a real outage,    *)
(* and its events about the gateway are matched.                           *)
(***************************************************************************)
EXTENDS LinkSupervisor, TLAPS

(* The delays and limits are whole numbers.                                *)
LEMMA LinkLimits ==
    /\ Check \in Nat /\ Check > 0 /\ RebootAfter \in Nat /\ RebootAfter > 0 /\ ReconnectEvery \in Nat
    /\ PingMax \in Nat /\ RoamMax \in Nat /\ Fast \in Nat /\ MaxBounces \in Nat
    /\ ReachReboot \in Nat /\ Notable \in Nat /\ Notable <= ReachReboot
<1>1. /\ Check \in Nat /\ Check > 0 /\ RebootAfter \in Nat /\ RebootAfter > 0
      /\ ReconnectEvery \in Nat /\ PingMax \in Nat /\ RoamMax \in Nat /\ Fast \in Nat
      /\ MaxBounces \in Nat /\ BounceStep \in Nat /\ ReachGrace \in Nat /\ Notable \in Nat
      /\ Notable <= ReachReboot
    BY LinkAssumption
<1>2. \A m, n \in Nat : m * n \in Nat
    OBVIOUS
<1>3. MaxBounces * BounceStep \in Nat
    BY <1>1, <1>2
<1>4. ReachReboot \in Nat
    BY <1>1, <1>3 DEF ReachReboot
<1> QED BY <1>1, <1>4

(* An age grows by one unit, up to its cutoff.                             *)
LEMMA LaterAge ==
    ASSUME NEW max \in Nat, NEW age \in Unset..max
    PROVE  /\ Later(age, max) \in Unset..max
           /\ (Later(age, max) = Unset) <=> (age = Unset)
           /\ age = Unset \/ Later(age, max) <= age + 1
           /\ age \in 0..max => Later(age, max) \in 0..max
BY DEF Later, Unset

(* A clock that is at most slack ahead of another stays so.                *)
LEMMA LaterSlack ==
    ASSUME NEW max \in Nat, NEW slack \in Nat, NEW age \in Unset..max, NEW other \in 0..max,
           age <= other + slack
    PROVE  Later(age, max) <= Later(other, max) + slack
BY DEF Later, Unset

-----------------------------------------------------------------------------
(* The radio                                                               *)

Drops == [ever : BOOLEAN, down : BOOLEAN, local : BOOLEAN, pending : BOOLEAN]

(* The drop tracker keeps its type; only a disconnect marks the link down. *)
LEMMA DropNotes ==
    ASSUME NEW d \in Drops
    PROVE  /\ NoteDown(d) \in Drops /\ NoteUp(d) \in Drops /\ NoteLocal(d) \in Drops
           /\ ~NoteUp(d).down /\ NoteLocal(d).down = d.down
BY DEF NoteDown, NoteUp, NoteLocal, Drops

(* The radio is not up after the step; if it was, the link is lost now.    *)
RadioLeaves ==
    /\ state' \in {"disconnected", "connecting", "connected"} /\ radio' \in {"idle", "joining"}
    /\ discEv' \in BOOLEAN /\ late' \subseteq {"connecting", "connected"} /\ drop' \in Drops
    /\ trueDown' = IF radio = "up" THEN 0 ELSE trueDown

(* The step leaves the radio and its events alone.                         *)
RadioStays ==
    /\ UNCHANGED <<state, radio, discEv, late, trueDown>>
    /\ drop' \in Drops /\ drop'.down = drop.down

(* connect_internal starts a join, or the driver refuses.                  *)
LEMMA ConnectStep ==
    ASSUME WifiTypeOK, Connect(drop)
    PROVE  RadioLeaves \/ RadioStays
<1> DEFINE d2 == IF state = "connected" THEN NoteLocal(drop) ELSE drop
<1>1. d2 \in Drops /\ d2.down = drop.down
    BY DropNotes DEF WifiTypeOK, Drops
<1>2. drop' = d2
    BY DEF Connect
<1> HIDE DEF d2
<1>3. CASE /\ radio' = "joining" /\ late' = late \union {"connecting"}
           /\ discEv' = (discEv \/ radio = "up")
           /\ trueDown' = (IF radio = "up" THEN 0 ELSE trueDown) /\ state' = state
    BY <1>1, <1>2, <1>3 DEF WifiTypeOK, RadioLeaves
<1>4. CASE UNCHANGED <<state, late, radio, discEv, trueDown>>
    BY <1>1, <1>2, <1>4 DEF RadioStays
<1> QED BY <1>3, <1>4 DEF Connect

(* wifi_mgr_disconnect takes the link down.                                *)
LEMMA DisconnectStep ==
    ASSUME WifiTypeOK, Disconnect, late' = late
    PROVE  RadioLeaves
BY DropNotes DEF Disconnect, WifiTypeOK, RadioLeaves, Drops

(* Both keep the types and the invariant of the radio.                     *)
LEMMA RadioStepInv ==
    ASSUME WifiTypeOK, RadioInv, RadioLeaves \/ RadioStays,
           seen' \in BOOLEAN, note' \in BOOLEAN, creds' \in BOOLEAN, gw' \in BOOLEAN, calm' \in BOOLEAN
    PROVE  WifiTypeOK' /\ RadioInv'
<1>1. 0 \in Unset..RebootAfter /\ Unset # 0
    BY LinkLimits DEF Unset
<1>2. CASE RadioLeaves
    <2>1. trueDown' \in Unset..RebootAfter /\ trueDown' # Unset
        BY <1>1, <1>2 DEF RadioLeaves, WifiTypeOK, RadioInv
    <2> QED BY <1>2, <2>1 DEF RadioLeaves, WifiTypeOK, RadioInv, Drops
<1>3. CASE RadioStays
    BY <1>3 DEF RadioStays, WifiTypeOK, RadioInv, Drops
<1> QED BY <1>2, <1>3

(* The link and its events through every step.                             *)
LEMMA LinkNextRadio ==
    ASSUME WifiTypeOK, RadioInv, [LinkNext]_vars
    PROVE  WifiTypeOK' /\ RadioInv'
<1> USE DEF wifi, task, hist
<1>1. CASE \/ LoopTop \/ NoCredentials \/ Associated \/ PingAnswered \/ PingUnarmed \/ RoamStays
           \/ RoamEnds \/ Reboot \/ SetCreds \/ SetGateway \/ CalmDown \/ UNCHANGED vars
    <2>1. /\ UNCHANGED <<state, radio, discEv, late, trueDown, drop>>
        BY <1>1 DEF LoopTop, NoCredentials, Associated, PingAnswered, PingUnarmed, RoamStays,
                    RoamEnds, Reboot, SetCreds, SetGateway, CalmDown, vars
    <2>2. /\ seen' \in BOOLEAN /\ note' \in BOOLEAN /\ creds' \in BOOLEAN /\ gw' \in BOOLEAN
          /\ calm' \in BOOLEAN
        BY <1>1 DEF WifiTypeOK, LoopTop, NoCredentials, Associated, PingAnswered, PingUnarmed,
                    RoamStays, RoamEnds, Reboot, SetCreds, SetGateway, CalmDown, vars
    <2> QED BY <2>1, <2>2, RadioStepInv DEF RadioStays, WifiTypeOK, Drops
<1>2. CASE Associate \/ BounceConnect \/ RoamConnect \/ AppConnect
    <2>1. /\ seen' \in BOOLEAN /\ UNCHANGED <<note, creds, gw, calm>>
        BY <1>2 DEF WifiTypeOK, Associate, BounceConnect, RoamConnect, AppConnect
    <2>2. Connect(drop) \/ UNCHANGED <<state, late, radio, discEv, drop, trueDown>>
        BY <1>2 DEF Associate, BounceConnect, RoamConnect, AppConnect
    <2>3. RadioLeaves \/ RadioStays
        BY <2>2, ConnectStep DEF RadioStays, WifiTypeOK, Drops
    <2> QED BY <2>1, <2>3, RadioStepInv DEF WifiTypeOK
<1>3. CASE RoamLeave \/ AppDisconnect
    <2>1. Disconnect /\ UNCHANGED <<seen, note, late, creds, gw, calm>>
        BY <1>3 DEF RoamLeave, AppDisconnect
    <2> QED BY <2>1, DisconnectStep, RadioStepInv DEF WifiTypeOK
<1>4. CASE PingLost
    <2>1. UNCHANGED <<seen, note, late, creds, gw, calm>>
        BY <1>4 DEF PingLost
    <2>2. Disconnect \/ UNCHANGED <<state, radio, drop, discEv, trueDown>>
        BY <1>4 DEF PingLost
    <2>3. RadioLeaves \/ RadioStays
        BY <2>1, <2>2, DisconnectStep DEF RadioStays, WifiTypeOK, Drops
    <2> QED BY <2>1, <2>3, RadioStepInv DEF WifiTypeOK
<1>5. CASE RadioDrops
    <2>1. RadioLeaves
        BY <1>5 DEF RadioDrops, RadioLeaves, WifiTypeOK, Drops
    <2> QED BY <1>5, <2>1, RadioStepInv DEF RadioDrops, WifiTypeOK
<1>6. CASE Disconnected
    <2>1. radio # "up"
        BY <1>6 DEF Disconnected, RadioInv
    <2>2. RadioLeaves
        BY <1>6, <2>1, DropNotes DEF Disconnected, RadioLeaves, WifiTypeOK, Drops
    <2> QED BY <1>6, <2>2, RadioStepInv DEF Disconnected, WifiTypeOK
<1>7. CASE ConnectState
    <2>1. radio # "up"
        BY <1>7 DEF ConnectState, RadioInv
    <2>2. RadioLeaves
        BY <1>7, <2>1 DEF ConnectState, RadioLeaves, WifiTypeOK, Drops
    <2> QED BY <1>7, <2>2, RadioStepInv DEF ConnectState, WifiTypeOK
<1>8. CASE GotIpState
    BY <1>8 DEF GotIpState, WifiTypeOK, RadioInv
<1>9. CASE GotIp
    <2>1. Unset \in Unset..RebootAfter
        BY LinkLimits DEF Unset
    <2>2. NoteUp(drop) \in Drops /\ ~NoteUp(drop).down
        BY DropNotes DEF WifiTypeOK, Drops
    <2> QED BY <1>9, <2>1, <2>2 DEF GotIp, EventTurn, WifiTypeOK, RadioInv, Drops
<1>10. CASE Tick
    <2>1. Later(trueDown, RebootAfter) \in Unset..RebootAfter
        BY LaterAge, LinkLimits DEF WifiTypeOK
    <2>2. (Later(trueDown, RebootAfter) = Unset) <=> (trueDown = Unset)
        BY LaterAge, LinkLimits DEF WifiTypeOK
    <2> QED BY <1>10, <2>1, <2>2 DEF Tick, WifiTypeOK, RadioInv
<1>11. CASE Boot
    <2>1. 0 \in Unset..RebootAfter /\ Unset # 0
        BY LinkLimits DEF Unset
    <2> QED BY <1>11, <2>1 DEF Boot, WifiTypeOK, RadioInv
<1> QED BY <1>1, <1>2, <1>3, <1>4, <1>5, <1>6, <1>7, <1>8, <1>9, <1>10, <1>11
        DEF LinkNext, Supervisor, Events, Environment

-----------------------------------------------------------------------------
(* The gateway                                                             *)

PCs == {"off", "wait", "sleep", "assoc", "online", "ping", "bounce", "roam", "pinned", "trial",
        "strongest", "last", "reboot"}
Assocs == [down : Unset..RebootAfter, attempt : Unset..ReconnectEvery, fast : BOOLEAN]
Reaches == [since : Unset..ReachReboot, logged : BOOLEAN, bounces : 0..MaxBounces, ever : BOOLEAN]

(* Nothing is known at the beginning, or after a forgotten outage.         *)
LEMMA NothingKnown ==
    /\ NoOutage \in Assocs /\ NoOutage.down = Unset
    /\ NoWedge \in Reaches /\ NoWedge.since = Unset /\ ~NoWedge.logged
<1>1. /\ Unset \in Unset..RebootAfter /\ Unset \in Unset..ReconnectEvery
      /\ Unset \in Unset..ReachReboot /\ 0 \in 0..MaxBounces
    BY LinkLimits DEF Unset
<1> QED BY <1>1 DEF NoOutage, NoWedge, Assocs, Reaches

(* The outage of a check has a clock that runs.                            *)
LEMMA OutageNowAssoc ==
    ASSUME NEW a \in Assocs, seen \in BOOLEAN
    PROVE  /\ OutageNow(a) \in Assocs /\ OutageNow(a).down \in 0..RebootAfter
           /\ OutageNow(a).down = IF seen \/ a.down = Unset THEN 0 ELSE a.down
<1>1. 0 \in 0..RebootAfter /\ 0 \in Unset..RebootAfter /\ Unset # 0
    BY LinkLimits DEF Unset
<1>2. CASE seen
    BY <1>1, <1>2, NothingKnown DEF OutageNow, Assocs
<1>3. CASE ~seen /\ a.down = Unset
    BY <1>1, <1>3 DEF OutageNow, Assocs
<1>4. CASE ~seen /\ a.down # Unset
    <2>1. a.down \in 0..RebootAfter
        BY <1>4, LinkLimits DEF Assocs, Unset
    <2> QED BY <1>4, <2>1 DEF OutageNow
<1> QED BY <1>2, <1>3, <1>4

(* A check without a link: the clock of the outage is not reset by an      *)
(* attempt, the link may leave, and the next wait is at most Check while   *)
(* the link is in fact up.                                                 *)
LEMMA AssociateStep ==
    ASSUME LinkInv, Associate
    PROVE  /\ pc = "assoc" /\ ~seen' /\ left' \in Nat /\ assoc' \in Assocs
           /\ assoc'.down \in 0..RebootAfter
           /\ assoc'.down = IF seen \/ assoc.down = Unset THEN 0 ELSE assoc.down
           /\ RadioLeaves \/ RadioStays
           /\ \/ pc' = "reboot" /\ assoc'.down >= RebootAfter /\ st' = st
              \/ pc' = "wait" /\ st' = "none" /\ (radio = "up" => left' = Check)
           /\ UNCHANGED <<reach, sinceReach, netOpen>>
<1> DEFINE a == OutageNow(assoc)
           due == st # "connecting" /\ ((FastDue(a) /\ a.down >= Fast) \/ SlowDue(a))
           b == IF due THEN [a EXCEPT !.attempt = 0, !.fast = TRUE] ELSE a
           wait == IF ~due /\ FastDue(b) /\ st # "connecting" /\ Fast - b.down > 0
                   THEN Fast - b.down ELSE Check
<1>1. /\ pc = "assoc" /\ ~seen' /\ assoc' = b /\ UNCHANGED <<reach, sinceReach, netOpen>>
      /\ \/ pc' = "reboot" /\ b.down >= RebootAfter /\ left' = left /\ st' = st
         \/ pc' = "wait" /\ left' = wait /\ st' = "none"
    BY DEF Associate, WaitFor
<1>2. Connect(drop) \/ UNCHANGED <<state, late, radio, discEv, drop, trueDown>>
    BY DEF Associate
<1>3. RadioLeaves \/ RadioStays
    BY <1>2, ConnectStep DEF LinkInv, LinkTypeOK, RadioStays, WifiTypeOK, Drops
<1>4. /\ a \in Assocs /\ a.down \in 0..RebootAfter
      /\ a.down = IF seen \/ assoc.down = Unset THEN 0 ELSE assoc.down
    BY OutageNowAssoc DEF LinkInv, LinkTypeOK, WifiTypeOK, TaskTypeOK, Assocs
<1>5. radio = "up" => ~FastDue(b)
    BY DEF FastDue, UnplannedDown, LinkInv, RadioInv
<1> HIDE DEF a, due
<1>6. b \in Assocs /\ b.down = a.down
    <2>1. 0 \in Unset..ReconnectEvery
        BY LinkLimits DEF Unset
    <2> QED BY <1>4, <2>1 DEF Assocs
<1> HIDE DEF b
<1>7. wait \in Nat /\ (radio = "up" => wait = Check)
    <2>1. b.down \in Nat /\ Fast \in Nat /\ Check \in Nat
        BY <1>4, <1>6, LinkLimits
    <2> QED BY <1>5, <2>1
<1> HIDE DEF wait
<1>8. left \in Nat
    BY DEF LinkInv, LinkTypeOK, TaskTypeOK
<1> QED BY <1>1, <1>3, <1>4, <1>6, <1>7, <1>8

(* No answer to a ping: the outage's clock starts behind the last answer,  *)
(* and the device is rebooted only when the outage was recorded.           *)
LEMMA PingLostStep ==
    ASSUME LinkInv, PingLost
    PROVE  /\ pc = "ping" /\ left' \in Nat /\ reach' \in Reaches
           /\ reach'.since <= sinceReach /\ reach'.bounces = reach.bounces
           /\ UNCHANGED <<assoc, sinceReach, seen>>
           /\ RadioLeaves \/ RadioStays
           /\ \/ /\ pc' = "bounce" /\ reach.bounces < MaxBounces /\ st' = st
                 /\ netOpen' = IF reach'.logged THEN 1 ELSE 0
              \/ /\ pc' = "wait" /\ st' = "none"
                 /\ netOpen' = IF reach'.logged THEN 1 ELSE 0
              \/ pc' = "reboot" /\ netOpen' = 0 /\ st' = st /\ sinceReach >= ReachReboot
<1> DEFINE r == IF reach.since = Unset THEN [reach EXCEPT !.since = 0] ELSE reach
           new == ~r.logged /\ r.since >= Notable
           l == IF new THEN [r EXCEPT !.logged = TRUE] ELSE r
           open == IF new THEN netOpen + 1 ELSE netOpen
<1>1. /\ pc = "ping" /\ late' = late /\ reach' = l
      /\ UNCHANGED <<assoc, sinceReach, seen>>
      /\ Disconnect \/ UNCHANGED <<state, radio, drop, discEv, trueDown>>
      /\ \/ /\ l.bounces < MaxBounces /\ netOpen' = open /\ pc' = "bounce"
            /\ UNCHANGED <<left, st>>
         \/ /\ l.since >= ReachReboot /\ netOpen' = open - 1 /\ pc' = "reboot"
            /\ UNCHANGED <<left, st>>
         \/ netOpen' = open /\ pc' = "wait" /\ left' = Check /\ st' = "none"
    BY DEF PingLost, WaitFor
<1>2. /\ reach \in Reaches /\ left \in Nat /\ Check \in Nat /\ sinceReach \in 0..ReachReboot
      /\ reach.since <= sinceReach /\ netOpen = IF reach.logged THEN 1 ELSE 0
    BY <1>1, LinkLimits DEF LinkInv, LinkTypeOK, TaskTypeOK, Reaches, ReachInv
<1>3. /\ r \in Reaches /\ r.since <= sinceReach /\ r.since \in 0..ReachReboot
      /\ r.logged = reach.logged /\ r.bounces = reach.bounces
    <2>1. 0 \in Unset..ReachReboot /\ 0 \in 0..ReachReboot /\ 0 <= sinceReach
        BY <1>2, LinkLimits DEF Unset
    <2>2. CASE reach.since = Unset
        BY <1>2, <2>1, <2>2 DEF Reaches
    <2>3. CASE reach.since # Unset
        <3>1. reach.since \in 0..ReachReboot
            BY <1>2, <2>3, LinkLimits DEF Reaches, Unset
        <3> QED BY <1>2, <2>3, <3>1
    <2> QED BY <2>2, <2>3
<1> HIDE DEF r
<1>4. /\ l \in Reaches /\ l.since = r.since /\ l.bounces = r.bounces
      /\ l.logged = (r.logged \/ new)
    BY <1>3 DEF Reaches
<1>5. open = IF l.logged THEN 1 ELSE 0
    <2>1. r.logged \in BOOLEAN
        BY <1>3 DEF Reaches
    <2> QED BY <1>2, <1>3, <1>4, <2>1
<1>6. l.since >= ReachReboot => l.logged /\ sinceReach >= ReachReboot
    BY <1>2, <1>3, <1>4, LinkLimits
<1>7. RadioLeaves \/ RadioStays
    BY <1>1, DisconnectStep DEF RadioStays, LinkInv, LinkTypeOK, WifiTypeOK, Drops
<1> HIDE DEF l, open, new
<1> QED BY <1>1, <1>2, <1>3, <1>4, <1>5, <1>6, <1>7

(* The task's own state and the reachability record through every step.    *)
LEMMA LinkNextReach ==
    ASSUME LinkInv, [LinkNext]_vars
    PROVE  TaskTypeOK' /\ ReachInv'
<1> USE DEF wifi, task, hist
<1>1. CASE \/ ConnectState \/ GotIpState \/ Disconnected \/ GotIp \/ RadioDrops \/ AppConnect
           \/ AppDisconnect \/ SetCreds \/ SetGateway \/ CalmDown \/ UNCHANGED vars
    <2>1. UNCHANGED <<pc, left, st, assoc, reach, sinceReach, netOpen>>
        BY <1>1 DEF ConnectState, GotIpState, Disconnected, GotIp, RadioDrops, AppConnect,
                    AppDisconnect, SetCreds, SetGateway, CalmDown, vars
    <2> QED BY <2>1 DEF LinkInv, LinkTypeOK, TaskTypeOK, ReachInv
<1>2. CASE LoopTop \/ Associated \/ PingUnarmed \/ RoamStays \/ RoamLeave \/ RoamConnect \/ RoamEnds
    <2>1. /\ UNCHANGED <<reach, sinceReach, netOpen>> /\ assoc' \in {assoc, NoOutage}
          /\ pc \notin {"off", "reboot"} /\ pc' \in PCs \ {"off", "reboot", "bounce"}
        BY <1>2 DEF LoopTop, Associated, PingUnarmed, RoamStays, RoamLeave, RoamConnect, RoamEnds,
                    WaitFor, PCs
    <2>2. left' \in Nat
        BY <1>2, LinkLimits DEF LoopTop, Associated, PingUnarmed, RoamStays, RoamLeave, RoamConnect,
                    RoamEnds, WaitFor
    <2>3. st' \in {"none", state, st}
        BY <1>2 DEF LoopTop, Associated, PingUnarmed, RoamStays, RoamLeave, RoamConnect, RoamEnds,
                    WaitFor
    <2> QED BY <2>1, <2>2, <2>3, NothingKnown
            DEF LinkInv, LinkTypeOK, WifiTypeOK, TaskTypeOK, ReachInv, PCs, Assocs
<1>3. CASE Associate
    BY <1>3, AssociateStep DEF LinkInv, LinkTypeOK, TaskTypeOK, ReachInv, Assocs
<1>4. CASE PingLost
    BY <1>4, PingLostStep DEF LinkInv, LinkTypeOK, TaskTypeOK, ReachInv, Assocs, Reaches
<1>5. CASE PingAnswered
    <2>1. /\ pc = "ping" /\ reach' = [NoWedge EXCEPT !.ever = TRUE] /\ sinceReach' = 0
          /\ netOpen' = (IF reach.logged THEN netOpen - 1 ELSE netOpen) /\ assoc' = assoc
          /\ pc' \in {"wait", "roam"} /\ left' \in {left, Check} /\ st' \in {st, "none"}
        BY <1>5 DEF PingAnswered, WaitFor
    <2>2. reach' \in Reaches /\ ~reach'.logged /\ reach'.since = Unset
        BY <2>1, NothingKnown DEF Reaches
    <2>3. netOpen' = 0
        BY <2>1 DEF LinkInv, ReachInv
    <2>4. 0 \in 0..ReachReboot /\ Unset <= 0 /\ Check \in Nat
        BY LinkLimits DEF Unset
    <2> QED BY <2>1, <2>2, <2>3, <2>4 DEF LinkInv, LinkTypeOK, TaskTypeOK, ReachInv, Reaches
<1>6. CASE NoCredentials
    <2>1. /\ reach' = [reach EXCEPT !.since = Unset, !.logged = FALSE, !.bounces = 0]
          /\ assoc' = NoOutage /\ netOpen' = 0 /\ pc' = "sleep" /\ left' = Check /\ st' = "none"
          /\ sinceReach' = sinceReach
        BY <1>6 DEF NoCredentials
    <2>2. Unset \in Unset..ReachReboot /\ 0 \in 0..MaxBounces /\ Check \in Nat
        BY LinkLimits DEF Unset
    <2>3. reach' \in Reaches /\ ~reach'.logged /\ reach'.since = Unset
        BY <2>1, <2>2 DEF LinkInv, LinkTypeOK, TaskTypeOK, Reaches
    <2>4. sinceReach \in 0..ReachReboot /\ Unset <= sinceReach
        BY LinkLimits DEF LinkInv, LinkTypeOK, TaskTypeOK, Unset
    <2> QED BY <2>1, <2>2, <2>3, <2>4, NothingKnown
            DEF TaskTypeOK, ReachInv, Reaches, Assocs
<1>7. CASE BounceConnect
    <2>1. /\ pc = "bounce" /\ reach' = [reach EXCEPT !.bounces = @ + 1]
          /\ UNCHANGED <<assoc, sinceReach, netOpen>>
          /\ pc' = "wait" /\ left' = Check /\ st' = "none"
        BY <1>7 DEF BounceConnect, WaitFor
    <2>2. reach.bounces + 1 \in 0..MaxBounces /\ Check \in Nat
        BY <2>1, LinkLimits DEF LinkInv, LinkTypeOK, TaskTypeOK, ReachInv
    <2>3. reach' \in Reaches /\ reach'.logged = reach.logged /\ reach'.since = reach.since
        BY <2>1, <2>2 DEF LinkInv, LinkTypeOK, TaskTypeOK, Reaches
    <2> QED BY <2>1, <2>2, <2>3 DEF LinkInv, LinkTypeOK, TaskTypeOK, ReachInv, Reaches
<1>8. CASE Tick
    <2>1. /\ left > 0 /\ left' = left - 1 /\ UNCHANGED <<pc, st, netOpen>>
          /\ assoc' = [assoc EXCEPT !.down = Later(assoc.down, RebootAfter),
                                    !.attempt = Later(assoc.attempt, ReconnectEvery)]
          /\ reach' = [reach EXCEPT !.since = Later(reach.since, ReachReboot)]
          /\ sinceReach' = Later(sinceReach, ReachReboot)
        BY <1>8 DEF Tick
    <2>2. /\ assoc \in Assocs /\ reach \in Reaches /\ sinceReach \in 0..ReachReboot
          /\ left \in Nat /\ reach.since <= sinceReach
        BY DEF LinkInv, LinkTypeOK, TaskTypeOK, Assocs, Reaches, ReachInv
    <2>3. /\ assoc.down \in Unset..RebootAfter /\ assoc.attempt \in Unset..ReconnectEvery
          /\ reach.since \in Unset..ReachReboot
        BY <2>2 DEF Assocs, Reaches
    <2>4. /\ Later(assoc.down, RebootAfter) \in Unset..RebootAfter
          /\ Later(assoc.attempt, ReconnectEvery) \in Unset..ReconnectEvery
          /\ Later(reach.since, ReachReboot) \in Unset..ReachReboot
        BY <2>3, LaterAge, LinkLimits
    <2>5. /\ Later(sinceReach, ReachReboot) \in 0..ReachReboot
          /\ Later(reach.since, ReachReboot) <= Later(sinceReach, ReachReboot)
        <3>1. sinceReach \in Unset..ReachReboot /\ 0 \in Nat /\ reach.since <= sinceReach + 0
            BY <2>2, <2>3, LinkLimits DEF Unset
        <3>2. Later(reach.since, ReachReboot) <= Later(sinceReach, ReachReboot) + 0
            BY <2>2, <2>3, <3>1, LaterSlack, LinkLimits
        <3>3. Later(sinceReach, ReachReboot) \in 0..ReachReboot
            BY <2>2, <3>1, LaterAge, LinkLimits
        <3>4. Later(reach.since, ReachReboot) \in Int
            BY <2>4, LinkLimits DEF Unset
        <3> QED BY <3>2, <3>3, <3>4, LinkLimits
    <2>6. assoc' \in Assocs
        BY <2>1, <2>2, <2>4 DEF Assocs
    <2>7. /\ reach' \in Reaches /\ reach'.since = Later(reach.since, ReachReboot)
          /\ reach'.logged = reach.logged /\ reach'.bounces = reach.bounces
        BY <2>1, <2>2, <2>4 DEF Reaches
    <2> QED BY <2>1, <2>2, <2>5, <2>6, <2>7
            DEF LinkInv, LinkTypeOK, TaskTypeOK, ReachInv, Assocs, Reaches
<1>9. CASE Reboot
    BY <1>9 DEF Reboot, LinkInv, LinkTypeOK, TaskTypeOK, ReachInv
<1>10. CASE Boot
    <2>1. 0 \in 0..ReachReboot /\ Unset <= 0 /\ Check \in Nat
        BY LinkLimits DEF Unset
    <2> QED BY <1>10, <2>1, NothingKnown DEF Boot, TaskTypeOK, ReachInv, Assocs, Reaches
<1> QED BY <1>1, <1>2, <1>3, <1>4, <1>5, <1>6, <1>7, <1>8, <1>9, <1>10
        DEF LinkNext, Supervisor, Events, Environment

-----------------------------------------------------------------------------
(* The association                                                         *)

(* The numbers the next lemma compares.                                    *)
LEMMA AssocTypes ==
    ASSUME LinkInv
    PROVE  /\ assoc \in Assocs /\ assoc.down \in Unset..RebootAfter /\ assoc.down \in Int
           /\ left \in Nat /\ Check \in Nat /\ seen \in BOOLEAN
           /\ trueDown \in Unset..RebootAfter /\ trueDown \in Int
           /\ radio # "up" => trueDown \in 0..RebootAfter
           /\ assoc.down = Unset => assoc.down <= 0
<1>1. assoc \in Assocs /\ left \in Nat /\ seen \in BOOLEAN /\ trueDown \in Unset..RebootAfter
    BY DEF LinkInv, LinkTypeOK, WifiTypeOK, TaskTypeOK, Assocs
<1>2. assoc.down \in Unset..RebootAfter
    BY <1>1 DEF Assocs
<1>3. radio # "up" => trueDown # Unset
    BY DEF LinkInv, RadioInv
<1> QED BY <1>1, <1>2, <1>3, LinkLimits DEF Unset

(* When the link is lost, the outage clock is within a check.              *)
LEMMA LinkLost ==
    ASSUME LinkInv, RadioLeaves, assoc' = assoc, seen' = seen, left' \in Nat,
           pc \notin {"off", "reboot"}, pc' \in {"assoc", "online"} => left' = 0,
           \/ pc' = pc
           \/ assoc.down = Unset
    PROVE  AssocInv'
<1>1. radio' # "up" /\ trueDown' = IF radio = "up" THEN 0 ELSE trueDown
    BY DEF RadioLeaves
<1>2. ~seen => assoc.down <= trueDown' + Check
    BY <1>1, AssocTypes DEF LinkInv, AssocInv
<1> QED BY <1>1, <1>2 DEF LinkInv, AssocInv

(* The outage clock through every step.                                    *)
LEMMA LinkNextAssoc ==
    ASSUME LinkInv, [LinkNext]_vars
    PROVE  AssocInv'
<1> USE DEF wifi, task, hist
<1>1. CASE GotIpState \/ SetCreds \/ SetGateway \/ CalmDown \/ UNCHANGED vars
    <2>1. /\ UNCHANGED <<pc, left, assoc, seen, radio, trueDown>> /\ late' \subseteq late
        BY <1>1 DEF GotIpState, SetCreds, SetGateway, CalmDown, vars
    <2> QED BY <2>1 DEF LinkInv, AssocInv
<1>2. CASE ConnectState \/ Disconnected
    <2>1. UNCHANGED <<pc, left, assoc, seen, radio, trueDown>> /\ radio # "up"
        BY <1>2 DEF ConnectState, Disconnected, LinkInv, RadioInv
    <2> QED BY <2>1 DEF LinkInv, AssocInv
<1>3. CASE GotIp
    BY <1>3 DEF GotIp, LinkInv, AssocInv
<1>4. CASE RadioDrops \/ AppDisconnect \/ AppConnect
    <2>1. UNCHANGED <<pc, left, assoc, seen>>
        BY <1>4 DEF RadioDrops, AppDisconnect, AppConnect
    <2>2. CASE pc \in {"off", "reboot"}
        BY <2>1, <2>2 DEF LinkInv, AssocInv
    <2>3. RadioLeaves \/ RadioStays
        <3>1. CASE RadioDrops
            BY <3>1 DEF RadioDrops, RadioLeaves, LinkInv, LinkTypeOK, WifiTypeOK, Drops
        <3>2. CASE AppDisconnect
            BY <3>2, DisconnectStep DEF AppDisconnect, LinkInv, LinkTypeOK
        <3>3. CASE AppConnect
            BY <3>3, ConnectStep DEF AppConnect, LinkInv, LinkTypeOK
        <3> QED BY <1>4, <3>1, <3>2, <3>3
    <2>4. CASE RadioLeaves /\ pc \notin {"off", "reboot"}
        BY <2>1, <2>4, LinkLost, AssocTypes DEF LinkInv, AssocInv
    <2>5. CASE RadioStays
        BY <2>1, <2>5 DEF RadioStays, LinkInv, AssocInv
    <2> QED BY <2>2, <2>3, <2>4, <2>5
<1>5. CASE LoopTop
    <2>1. /\ UNCHANGED <<state, seen, late, radio, trueDown, assoc>> /\ left' = 0
          /\ pc \in {"wait", "sleep"}
          /\ (pc' = "assoc" /\ state # "connected") \/ pc' = "online"
        BY <1>5 DEF LoopTop
    <2>2. radio = "up" /\ pc' = "assoc" => "connected" \in late
        BY <2>1 DEF LinkInv, RadioInv
    <2> QED BY <2>1, <2>2, AssocTypes DEF LinkInv, AssocInv
<1>6. CASE NoCredentials \/ Associated
    <2>1. /\ assoc' = NoOutage /\ UNCHANGED <<late, radio, trueDown>>
          /\ pc' \in {"sleep", "ping", "wait"}
        BY <1>6 DEF NoCredentials, Associated, WaitFor
    <2>2. assoc'.down = Unset
        BY <2>1, NothingKnown
    <2>3. Unset <= Check /\ Unset <= 0 /\ (radio # "up" => Unset <= trueDown + Check)
        BY AssocTypes, LinkLimits DEF Unset
    <2> QED BY <2>1, <2>2, <2>3 DEF AssocInv
<1>7. CASE Associate
    <2>1. /\ pc = "assoc" /\ ~seen' /\ assoc'.down \in 0..RebootAfter
          /\ assoc'.down = (IF seen \/ assoc.down = Unset THEN 0 ELSE assoc.down)
          /\ RadioLeaves \/ RadioStays
          /\ pc' = "reboot" \/ (pc' = "wait" /\ (radio = "up" => left' = Check))
        BY <1>7, AssociateStep
    <2>2. ~seen /\ radio = "up" => assoc'.down <= 0
        BY <2>1, AssocTypes DEF LinkInv, AssocInv
    <2>3. radio = "up" => assoc'.down <= 0
        BY <2>1, <2>2
    <2>4. radio # "up" => assoc'.down <= trueDown + Check
        BY <2>1, AssocTypes DEF LinkInv, AssocInv
    <2>5. CASE RadioLeaves
        <3>1. radio' # "up" /\ trueDown' = IF radio = "up" THEN 0 ELSE trueDown
            BY <2>5 DEF RadioLeaves
        <3>2. assoc'.down <= trueDown' + Check
            BY <2>1, <2>3, <2>4, <3>1, AssocTypes
        <3> QED BY <2>1, <3>1, <3>2 DEF AssocInv
    <2>6. CASE RadioStays
        <3>1. UNCHANGED <<radio, trueDown>>
            BY <2>6 DEF RadioStays
        <3>2. radio = "up" => assoc'.down <= Check /\ assoc'.down + Check <= Check
            BY <2>1, <2>3, AssocTypes, LinkLimits
        <3> QED BY <2>1, <2>3, <2>4, <3>1, <3>2 DEF AssocInv
    <2> QED BY <2>1, <2>5, <2>6
<1>8. CASE PingAnswered \/ PingUnarmed \/ RoamStays \/ RoamEnds
    <2>1. /\ UNCHANGED <<assoc, seen, radio, late, trueDown>> /\ assoc.down = Unset
          /\ pc \notin {"off", "reboot"} /\ pc' \in {"wait", "roam"}
        BY <1>8 DEF PingAnswered, PingUnarmed, RoamStays, RoamEnds, WaitFor, LinkInv, AssocInv
    <2> QED BY <2>1 DEF LinkInv, AssocInv
<1>9. CASE BounceConnect \/ RoamConnect \/ RoamLeave \/ PingLost
    <2>1. /\ assoc' = assoc /\ seen' = seen /\ assoc.down = Unset
          /\ pc \notin {"off", "reboot"} /\ pc' \notin {"assoc", "online"}
          /\ pc' # "wait" => pc' \in {"trial", "last", "pinned", "strongest", "bounce", "reboot"}
        BY <1>9, PingLostStep DEF BounceConnect, RoamConnect, RoamLeave, WaitFor, LinkInv, AssocInv
    <2>2. left' \in Nat
        BY <1>9, PingLostStep, LinkLimits DEF BounceConnect, RoamConnect, RoamLeave, WaitFor
    <2>3. RadioLeaves \/ RadioStays
        <3>1. CASE BounceConnect \/ RoamConnect
            <4>1. Connect(drop) \/ UNCHANGED <<state, late, radio, discEv, drop, trueDown>>
                BY <3>1 DEF BounceConnect, RoamConnect
            <4> QED BY <4>1, ConnectStep DEF RadioStays, LinkInv, LinkTypeOK, WifiTypeOK, Drops
        <3>2. CASE RoamLeave
            BY <3>2, DisconnectStep DEF RoamLeave, LinkInv, LinkTypeOK
        <3>3. CASE PingLost
            BY <3>3, PingLostStep
        <3> QED BY <1>9, <3>1, <3>2, <3>3
    <2>4. CASE RadioLeaves
        BY <2>1, <2>2, <2>4, LinkLost
    <2>5. CASE RadioStays
        BY <2>1, <2>5 DEF RadioStays, LinkInv, AssocInv
    <2> QED BY <2>3, <2>4, <2>5
<1>10. CASE Tick
    <2>1. /\ left > 0 /\ late = {} /\ left' = left - 1 /\ UNCHANGED <<pc, seen, radio, late>>
          /\ assoc' = [assoc EXCEPT !.down = Later(assoc.down, RebootAfter),
                                    !.attempt = Later(assoc.attempt, ReconnectEvery)]
          /\ trueDown' = Later(trueDown, RebootAfter)
        BY <1>10 DEF Tick
    <2>2. assoc'.down = Later(assoc.down, RebootAfter)
        BY <2>1, AssocTypes DEF Assocs
    <2>3. /\ Later(assoc.down, RebootAfter) \in Unset..RebootAfter
          /\ (Later(assoc.down, RebootAfter) = Unset) <=> (assoc.down = Unset)
          /\ assoc.down = Unset \/ Later(assoc.down, RebootAfter) <= assoc.down + 1
        BY AssocTypes, LaterAge, LinkLimits
    <2>4. radio # "up" /\ ~seen /\ pc \notin {"off", "reboot"} => assoc'.down <= trueDown' + Check
        <3> SUFFICES ASSUME radio # "up", ~seen, pc \notin {"off", "reboot"}
                     PROVE  assoc'.down <= trueDown' + Check
            OBVIOUS
        <3>1. assoc.down <= trueDown + Check
            BY DEF LinkInv, AssocInv
        <3> QED BY <2>1, <2>2, <3>1, LaterSlack, AssocTypes, LinkLimits
    <2>5. pc \notin {"assoc", "online"}
        BY <2>1, LinkLimits DEF LinkInv, AssocInv
    <2>6. radio = "up" /\ ~seen /\ pc \notin {"off", "reboot"} =>
            /\ assoc'.down <= Check
            /\ pc = "wait" => assoc'.down = Unset \/ assoc'.down + left' <= Check
        <3> SUFFICES ASSUME radio = "up", ~seen, pc \notin {"off", "reboot"}
                     PROVE  /\ assoc'.down <= Check
                            /\ pc = "wait" => assoc'.down = Unset \/ assoc'.down + left' <= Check
            OBVIOUS
        <3>1. CASE assoc.down = Unset
            BY <2>2, <2>3, <3>1, LinkLimits DEF Unset
        <3>2. CASE assoc.down # Unset
            <4>1. pc = "wait"
                BY <2>5, <3>2 DEF LinkInv, LinkTypeOK, TaskTypeOK, AssocInv
            <4>2. assoc.down + left <= Check
                BY <3>2, <4>1 DEF LinkInv, AssocInv
            <4>3. assoc'.down <= assoc.down + 1 /\ assoc'.down \in Int
                BY <2>2, <2>3, <3>2, LinkLimits DEF Unset
            <4> QED BY <2>1, <4>2, <4>3, AssocTypes
        <3> QED BY <3>1, <3>2
    <2> QED BY <2>1, <2>2, <2>3, <2>4, <2>5, <2>6 DEF LinkInv, AssocInv
<1>11. CASE Reboot
    BY <1>11 DEF Reboot, AssocInv
<1>12. CASE Boot
    <2>1. Unset <= 0 + Check
        BY LinkLimits DEF Unset
    <2> QED BY <1>12, <2>1, NothingKnown DEF Boot, AssocInv
<1> QED BY <1>1, <1>2, <1>3, <1>4, <1>5, <1>6, <1>7, <1>8, <1>9, <1>10, <1>11, <1>12
        DEF LinkNext, Supervisor, Events, Environment

-----------------------------------------------------------------------------
(* The link supervision, for any delays and limits                         *)

(* A device that has booted satisfies the invariant.                       *)
LEMMA LinkInitInv == LinkInit => LinkInv
<1> SUFFICES ASSUME LinkInit PROVE LinkInv
    OBVIOUS
<1>1. /\ 0 \in Unset..RebootAfter /\ 0 \in 0..ReachReboot /\ Check \in Nat /\ Unset # 0
      /\ Unset <= 0 /\ Unset <= 0 + Check
    BY LinkLimits DEF Unset
<1>2. WifiTypeOK
    BY <1>1 DEF LinkInit, WifiTypeOK
<1>3. TaskTypeOK
    BY <1>1, NothingKnown DEF LinkInit, TaskTypeOK, Assocs, Reaches
<1>4. RadioInv /\ AssocInv /\ ReachInv
    BY <1>1, NothingKnown DEF LinkInit, RadioInv, AssocInv, ReachInv
<1> QED BY <1>2, <1>3, <1>4 DEF LinkInv, LinkTypeOK

(* Every step preserves it.                                                *)
LEMMA LinkNextInv == LinkInv /\ [LinkNext]_vars => LinkInv'
BY LinkNextRadio, LinkNextReach, LinkNextAssoc DEF LinkInv, LinkTypeOK

(* The invariant of the link supervision.                                  *)
THEOREM LinkInvariant == LinkSpec => []LinkInv
BY LinkInitInv, LinkNextInv, PTL DEF LinkSpec

(* NETWORK_RECOVERED is recorded only for an outage that was recorded, and *)
(* once.                                                                   *)
THEOREM LinkEventsMatched == LinkSpec => []NetEventsMatched
<1>1. LinkInv => NetEventsMatched
    BY DEF LinkInv, ReachInv, NetEventsMatched
<1> QED BY <1>1, LinkInvariant, PTL

(* The supervisor reboots the device only after the link was lost for      *)
(* REBOOT_AFTER_MS less a check, or the gateway silent for the whole       *)
(* escalation.                                                             *)
THEOREM LinkRebootsOnlyAfterOutage == LinkSpec => RebootOnlyAfterOutage
<1> DEFINE Late == /\ pc = "assoc" /\ pc' = "reboot" => trueDown >= RebootAfter - Check
                   /\ pc = "ping" /\ pc' = "reboot" => sinceReach >= ReachReboot
<1>1. LinkInv /\ [LinkNext]_vars => [Late]_vars
    <2> SUFFICES ASSUME LinkInv, LinkNext PROVE Late
        BY DEF vars
    <2>1. pc = "assoc" /\ pc' = "reboot" => trueDown >= RebootAfter - Check
        <3> SUFFICES ASSUME pc = "assoc", pc' = "reboot" PROVE trueDown >= RebootAfter - Check
            OBVIOUS
        <3>1. Associate
            BY DEF LinkNext, Supervisor, Events, Environment, Tick, LoopTop, NoCredentials,
                   Associated, PingAnswered, PingLost, PingUnarmed, BounceConnect, RoamStays,
                   RoamLeave, RoamConnect, RoamEnds, Reboot, Boot, ConnectState, GotIpState,
                   Disconnected, GotIp, RadioDrops, AppConnect, AppDisconnect, SetCreds,
                   SetGateway, CalmDown, task
        <3>2. /\ assoc'.down >= RebootAfter
              /\ assoc'.down = IF seen \/ assoc.down = Unset THEN 0 ELSE assoc.down
            BY <3>1, AssociateStep
        <3>3. ~seen /\ assoc.down >= RebootAfter
            BY <3>2, LinkLimits
        <3>4. radio # "up"
            BY <3>3, LinkLimits, AssocTypes DEF LinkInv, AssocInv
        <3>5. assoc.down <= trueDown + Check
            BY <3>3, <3>4 DEF LinkInv, AssocInv
        <3> QED BY <3>3, <3>5, LinkLimits, AssocTypes
    <2>2. pc = "ping" /\ pc' = "reboot" => sinceReach >= ReachReboot
        <3> SUFFICES ASSUME pc = "ping", pc' = "reboot" PROVE sinceReach >= ReachReboot
            OBVIOUS
        <3>1. PingLost
            BY DEF LinkNext, Supervisor, Events, Environment, Tick, LoopTop, NoCredentials,
                   Associate, Associated, PingAnswered, PingUnarmed, BounceConnect, RoamStays,
                   RoamLeave, RoamConnect, RoamEnds, Reboot, Boot, ConnectState, GotIpState,
                   Disconnected, GotIp, RadioDrops, AppConnect, AppDisconnect, SetCreds,
                   SetGateway, CalmDown, WaitFor, task
        <3> QED BY <3>1, PingLostStep
    <2> QED BY <2>1, <2>2
<1>2. QED
    BY <1>1, LinkInvariant, PTL DEF LinkSpec, RebootOnlyAfterOutage
=============================================================================
