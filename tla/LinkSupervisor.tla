--------------------------- MODULE LinkSupervisor ---------------------------
(***************************************************************************)
(* Association and reachability supervision of wifi_supervisor.cpp, with   *)
(* the part of wifi_manager.cpp, wifi_drops.cpp and wifi_roam.cpp it       *)
(* reads: the link state the event handlers publish, the flag that a link  *)
(* came up while the supervisor slept, local and unplanned disconnects.    *)
(* The supervisor acts on a link state it read at the top of its loop.     *)
(*                                                                         *)
(* Time passes only while the task waits (Tick); ages are cut off at the   *)
(* largest value the code compares them with.  The safety net for the web  *)
(* server, which the same loop calls, is ApiSafetyNet; here it is part of  *)
(* the time a ping takes.                                                  *)
(***************************************************************************)
EXTENDS Integers

CONSTANTS
    Check,          \* CHECK_INTERVAL_MS
    PingMax,        \* longest time the web server check and the ping take
    RoamMax,        \* CONNECT_TIMEOUT_MS of wifi_roam.cpp
    Fast,           \* FAST_RECONNECT_MS
    Grace,          \* GRACE_MS
    ReconnectEvery, \* RECONNECT_EVERY_MS
    RebootAfter,    \* REBOOT_AFTER_MS
    Notable,        \* NOTABLE_MS
    ReachGrace,     \* REACH_GRACE_MS
    BounceStep,     \* BOUNCE_STEP_MS
    MaxBounces      \* MAX_BOUNCES

ReachReboot == ReachGrace + MaxBounces * BounceStep

ASSUME LinkAssumption ==
    /\ {Check, RebootAfter, ReconnectEvery} \subseteq Nat \ {0}
    /\ {PingMax, RoamMax, Fast, Grace, Notable, ReachGrace, BounceStep, MaxBounces} \subseteq Nat
    /\ Notable <= ReachReboot

VARIABLES
    \* wifi_manager.cpp and wifi_drops.cpp
    state,      \* wifi_state.state: disconnected, connecting or connected
    seen,       \* s_link_up_seen
    note,       \* the supervisor's task notification
    drop,       \* the outage WifiDropTracker sees, and s_local_pending
    late,       \* states about to be stored: connected by the event task,
                \* connecting by the caller of connect_internal
    \* the radio, credentials and the network (environment)
    radio,      \* idle, joining or up
    discEv,     \* a DISCONNECTED event is on its way
    creds,      \* saved credentials
    gw,         \* the gateway answers
    calm,       \* the radio has stopped dropping the link
    \* wifi_supervisor_task
    pc, left,   \* where it is, and the time left to wait there
    st,         \* the link state it has read
    assoc,      \* down_since_us, last_attempt_us, fast_tried
    reach,      \* unreachable_since_us, unreachable_logged, bounces, ever_reachable
    \* history
    trueDown,   \* time since the link was lost
    sinceReach, \* time since the gateway last answered
    netOpen     \* NETWORK_UNREACHABLE events without their RECOVERED

wifi == <<state, seen, note, drop, late, radio, discEv>>
task == <<pc, left, st, assoc, reach>>
hist == <<trueDown, sinceReach, netOpen>>
vars == <<state, seen, note, drop, late, radio, discEv, creds, gw, calm, pc, left, st, assoc, reach,
          trueDown, sinceReach, netOpen>>

Unset == -1

NoOutage   == [down |-> Unset, attempt |-> Unset, fast |-> FALSE]
NoWedge    == [since |-> Unset, logged |-> FALSE, bounces |-> 0, ever |-> FALSE]

WifiTypeOK ==
    /\ state \in {"disconnected", "connecting", "connected"} /\ radio \in {"idle", "joining", "up"}
    /\ seen \in BOOLEAN /\ note \in BOOLEAN /\ discEv \in BOOLEAN
    /\ creds \in BOOLEAN /\ gw \in BOOLEAN /\ calm \in BOOLEAN
    /\ late \subseteq {"connecting", "connected"}
    /\ drop \in [ever : BOOLEAN, down : BOOLEAN, local : BOOLEAN, pending : BOOLEAN]
    /\ trueDown \in Unset..RebootAfter

TaskTypeOK ==
    /\ pc \in {"off", "wait", "sleep", "assoc", "online", "ping", "bounce", "roam", "pinned", "trial",
              "strongest", "last", "reboot"}
    /\ left \in Nat /\ st \in {"none", "disconnected", "connecting", "connected"}
    /\ assoc \in [down : Unset..RebootAfter, attempt : Unset..ReconnectEvery, fast : BOOLEAN]
    /\ reach \in [since : Unset..ReachReboot, logged : BOOLEAN, bounces : 0..MaxBounces,
                  ever : BOOLEAN]
    /\ sinceReach \in 0..ReachReboot /\ netOpen \in Int

LinkTypeOK == WifiTypeOK /\ TaskTypeOK

-----------------------------------------------------------------------------
(* wifi_drops.cpp with WifiDropTracker, as far as stats().down goes        *)

NoteDown(d) ==
    [d EXCEPT !.pending = FALSE, !.down = @ \/ d.ever,
              !.local = IF d.ever /\ ~d.down THEN d.pending ELSE @]

NoteUp(d) == [d EXCEPT !.pending = FALSE, !.ever = TRUE, !.down = FALSE]

NoteLocal(d) == [d EXCEPT !.pending = TRUE]

UnplannedDown == drop.down /\ ~drop.local

-----------------------------------------------------------------------------
(* wifi_manager.cpp                                                        *)

(* connect_internal: the driver may refuse; a link that is up is dropped   *)
(* on purpose.  CONNECTING is stored after the driver has been told.       *)
Connect(d) ==
    LET d2 == IF state = "connected" THEN NoteLocal(d) ELSE d
    IN \/ /\ radio' = "joining" /\ drop' = d2 /\ late' = late \union {"connecting"}
          /\ discEv' = (discEv \/ radio = "up")
          /\ trueDown' = IF radio = "up" THEN 0 ELSE trueDown
          /\ UNCHANGED state
       \/ ~calm /\ drop' = d2 /\ UNCHANGED <<state, late, radio, discEv, trueDown>>

(* The supervisor's own call of connect_internal is over (or none is).     *)
ConnectOver == "connecting" \notin late

ConnectState ==
    /\ "connecting" \in late
    /\ late' = late \ {"connecting"} /\ state' = "connecting"
    /\ UNCHANGED <<seen, note, drop, radio, discEv, creds, gw, calm, task, hist>>

(* wifi_mgr_disconnect                                                     *)
Disconnect ==
    /\ state' = "disconnected" /\ radio' = "idle" /\ drop' = NoteLocal(drop)
    /\ discEv' = (discEv \/ radio # "idle")
    /\ trueDown' = IF radio = "up" THEN 0 ELSE trueDown

(* Events come one at a time.  A join takes longer than the rest of        *)
(* connect_internal, so its outcome comes after CONNECTING is stored.      *)
EventTurn == late = {}

(* ip_event_handler up to wifi_supervisor_notify_connected ...             *)
GotIp ==
    /\ pc # "off" /\ radio = "joining" /\ EventTurn /\ ~discEv
    /\ radio' = "up" /\ drop' = NoteUp(drop) /\ seen' = TRUE /\ note' = TRUE
    /\ late' = late \union {"connected"} /\ trueDown' = Unset
    /\ UNCHANGED <<state, discEv, creds, gw, calm, task, sinceReach, netOpen>>

(* ... and the new state at its end.                                       *)
GotIpState ==
    /\ "connected" \in late
    /\ late' = late \ {"connected"} /\ state' = "connected"
    /\ UNCHANGED <<seen, note, drop, radio, discEv, creds, gw, calm, task, hist>>

(* The access point or the signal goes, or an attempt fails.               *)
RadioDrops ==
    /\ radio # "idle" /\ (calm => radio = "joining") /\ ~discEv
    /\ radio' = "idle" /\ discEv' = TRUE
    /\ trueDown' = IF radio = "up" THEN 0 ELSE trueDown
    /\ UNCHANGED <<state, seen, note, drop, late, creds, gw, calm, task, sinceReach, netOpen>>

(* The DISCONNECTED event is handled.                                      *)
Disconnected ==
    /\ discEv /\ EventTurn
    /\ discEv' = FALSE /\ drop' = NoteDown(drop) /\ state' = "disconnected" /\ note' = TRUE
    /\ UNCHANGED <<seen, late, radio, creds, gw, calm, task, hist>>

(* The application's own connect at boot, or one asked for by a user.      *)
AppConnect ==
    /\ pc # "off" /\ creds /\ radio = "idle" /\ ~discEv /\ late = {}
    /\ Connect(drop)
    /\ UNCHANGED <<seen, note, creds, gw, calm, task, sinceReach, netOpen>>

(* A user leaves the network; the credentials may be forgotten or saved.   *)
AppDisconnect ==
    /\ pc # "off" /\ radio = "up" /\ late = {} /\ ~calm
    /\ Disconnect
    /\ UNCHANGED <<seen, note, late, creds, gw, calm, task, sinceReach, netOpen>>

SetCreds ==
    /\ ~calm /\ creds' = ~creds
    /\ UNCHANGED <<wifi, gw, calm, task, hist>>

SetGateway ==
    /\ ~calm /\ gw' = ~gw
    /\ UNCHANGED <<wifi, creds, calm, task, hist>>

CalmDown ==
    /\ ~calm /\ calm' = TRUE
    /\ UNCHANGED <<wifi, creds, gw, task, hist>>

-----------------------------------------------------------------------------
(* The supervisor task                                                     *)

LinkInit ==
    /\ state = "disconnected" /\ seen = FALSE /\ note = FALSE /\ late = {}
    /\ drop = [ever |-> FALSE, down |-> FALSE, local |-> FALSE, pending |-> FALSE]
    /\ radio = "idle" /\ discEv = FALSE /\ creds \in BOOLEAN /\ gw \in BOOLEAN /\ calm = FALSE
    /\ pc = "sleep" /\ left = Check /\ st = "none"
    /\ assoc = NoOutage /\ reach = NoWedge
    /\ trueDown = 0 /\ sinceReach = 0 /\ netOpen = 0

Later(age, max) == IF age = Unset THEN Unset ELSE IF age + 1 > max THEN max ELSE age + 1

(* The steps above take no time on this scale.                             *)
Tick ==
    /\ left > 0 /\ late = {} /\ left' = left - 1
    /\ assoc' = [assoc EXCEPT !.down = Later(@, RebootAfter), !.attempt = Later(@, ReconnectEvery)]
    /\ reach' = [reach EXCEPT !.since = Later(@, ReachReboot)]
    /\ trueDown' = Later(trueDown, RebootAfter) /\ sinceReach' = Later(sinceReach, ReachReboot)
    /\ UNCHANGED <<wifi, creds, gw, calm, pc, st, netOpen>>

WaitFor(ms) == pc' = "wait" /\ left' = ms /\ st' = "none"

(* The top of the loop, on a notification or when the time is over.        *)
LoopTop ==
    /\ \/ pc = "wait" /\ (left = 0 \/ note)
       \/ pc = "sleep" /\ left = 0
    /\ ConnectOver
    /\ note' = (note /\ pc = "sleep") /\ left' = 0 /\ st' = state
    /\ \/ /\ creds /\ state # "connected" /\ pc' = "assoc"
          /\ UNCHANGED <<assoc, reach, netOpen>>
       \/ /\ creds /\ state = "connected" /\ pc' = "online"
          /\ UNCHANGED <<assoc, reach, netOpen>>
    /\ UNCHANGED <<state, seen, drop, late, radio, discEv, creds, gw, calm, trueDown, sinceReach>>

(* Without credentials the task forgets everything, an open outage too.    *)
NoCredentials ==
    /\ \/ pc = "wait" /\ (left = 0 \/ note)
       \/ pc = "sleep" /\ left = 0
    /\ ConnectOver
    /\ ~creds
    /\ note' = (note /\ pc = "sleep")
    /\ assoc' = NoOutage /\ reach' = [reach EXCEPT !.since = Unset, !.logged = FALSE, !.bounces = 0]
    /\ netOpen' = 0
    /\ pc' = "sleep" /\ left' = Check /\ st' = "none"
    /\ UNCHANGED <<state, seen, drop, late, radio, discEv, creds, gw, calm, trueDown, sinceReach>>

(* Mutant: a link that came up in between is overlooked.                   *)
OutageNowBlind(a) == IF a.down = Unset THEN [a EXCEPT !.down = 0] ELSE a

(* Mutant: an attempt under way stops the outage clock.                    *)
OutageNowRestarts(a) == IF seen \/ a.down = Unset \/ st = "connecting" THEN [NoOutage EXCEPT !.down = 0] ELSE a

(* The outage this check belongs to: a new one if the link has been up.    *)
OutageNow(a) ==
    LET b == IF seen THEN NoOutage ELSE a
    IN IF b.down = Unset THEN [b EXCEPT !.down = 0] ELSE b

FastDue(a) == ~a.fast /\ UnplannedDown

SlowDue(a) == a.down >= Grace /\ (a.attempt = Unset \/ a.attempt >= ReconnectEvery)

(* Not connected: at most one reconnect unless one is under way, then the  *)
(* reboot backstop.                                                        *)
Associate ==
    /\ pc = "assoc"
    /\ seen' = FALSE
    /\ LET a == OutageNow(assoc)
           due == st # "connecting" /\ ((FastDue(a) /\ a.down >= Fast) \/ SlowDue(a))
           b == IF due THEN [a EXCEPT !.attempt = 0, !.fast = TRUE] ELSE a
       IN /\ assoc' = b
          /\ IF due THEN (creds /\ Connect(drop)) \/ (~creds /\ UNCHANGED <<state, late, radio, discEv, drop, trueDown>>)
                    ELSE UNCHANGED <<state, late, radio, discEv, drop, trueDown>>
          /\ IF b.down >= RebootAfter
             THEN pc' = "reboot" /\ UNCHANGED <<left, st>>
             ELSE WaitFor(IF ~due /\ FastDue(b) /\ st # "connecting" /\ Fast - b.down > 0
                          THEN Fast - b.down ELSE Check)
    /\ UNCHANGED <<note, creds, gw, calm, reach, sinceReach, netOpen>>

(* Connected: the association bookkeeping is reset; without an address     *)
(* (it went in the meantime) there is nothing to probe.                    *)
Associated ==
    /\ pc = "online"
    /\ seen' = FALSE /\ assoc' = NoOutage
    /\ \/ /\ state = "connected" /\ pc' = "ping" /\ left' \in 0..PingMax /\ UNCHANGED st
       \/ /\ state # "connected" /\ WaitFor(Check)
    /\ UNCHANGED <<state, note, drop, late, radio, discEv, creds, gw, calm, reach, hist>>

(* Mutant: the outage is not closed.                                       *)
PingAnsweredKeepsOutage ==
    /\ pc = "ping" /\ left = 0 /\ gw /\ radio = "up"
    /\ reach' = [reach EXCEPT !.ever = TRUE]
    /\ netOpen' = IF reach.logged THEN netOpen - 1 ELSE netOpen
    /\ sinceReach' = 0
    /\ \/ WaitFor(Check)
       \/ pc' = "roam" /\ UNCHANGED <<left, st>>
    /\ UNCHANGED <<wifi, creds, gw, calm, assoc, trueDown>>

(* The gateway answers: the outage is over, and wifi_roam_poll may decide  *)
(* to move to a better access point.                                       *)
PingAnswered ==
    /\ pc = "ping" /\ left = 0 /\ gw /\ radio = "up"
    /\ reach' = [NoWedge EXCEPT !.ever = TRUE]
    /\ netOpen' = IF reach.logged THEN netOpen - 1 ELSE netOpen
    /\ sinceReach' = 0
    /\ \/ WaitFor(Check)
       \/ pc' = "roam" /\ UNCHANGED <<left, st>>
    /\ UNCHANGED <<wifi, creds, gw, calm, assoc, trueDown>>

(* No answer, after the gateway has been seen once: record the outage,     *)
(* bounce the link, in the end reboot.                                     *)
PingLost ==
    /\ pc = "ping" /\ left = 0 /\ ~(gw /\ radio = "up") /\ reach.ever
    /\ LET r == IF reach.since = Unset THEN [reach EXCEPT !.since = 0] ELSE reach
           new == ~r.logged /\ r.since >= Notable
           l == IF new THEN [r EXCEPT !.logged = TRUE] ELSE r
           open == IF new THEN netOpen + 1 ELSE netOpen
       IN \/ /\ l.bounces < MaxBounces /\ l.since >= ReachGrace + l.bounces * BounceStep
             /\ Disconnect
             /\ reach' = l /\ netOpen' = open /\ pc' = "bounce"
             /\ UNCHANGED <<left, st>>
          \/ /\ l.bounces >= MaxBounces /\ l.since >= ReachReboot
             /\ reach' = l /\ netOpen' = open - 1 /\ pc' = "reboot"
             /\ UNCHANGED <<state, radio, drop, discEv, trueDown, left, st>>
          \/ /\ l.since < ReachGrace + l.bounces * BounceStep
             /\ reach' = l /\ netOpen' = open /\ WaitFor(Check)
             /\ UNCHANGED <<state, radio, drop, discEv, trueDown>>
    /\ UNCHANGED <<seen, note, late, creds, gw, calm, assoc, sinceReach>>

(* Never reachable since boot: nothing is concluded.                       *)
PingUnarmed ==
    /\ pc = "ping" /\ left = 0 /\ ~(gw /\ radio = "up") /\ ~reach.ever
    /\ WaitFor(Check)
    /\ UNCHANGED <<wifi, creds, gw, calm, assoc, reach, hist>>

(* Mutant: bounces are not counted.                                        *)
BounceConnectUncounted ==
    /\ pc = "bounce"
    /\ (creds /\ Connect(drop)) \/ (~creds /\ UNCHANGED <<state, late, radio, discEv, drop, trueDown>>)
    /\ WaitFor(Check)
    /\ UNCHANGED <<seen, note, creds, gw, calm, assoc, reach, sinceReach, netOpen>>

(* The second half of a bounce, after the link had time to go down.        *)
BounceConnect ==
    /\ pc = "bounce"
    /\ (creds /\ Connect(drop)) \/ (~creds /\ UNCHANGED <<state, late, radio, discEv, drop, trueDown>>)
    /\ reach' = [reach EXCEPT !.bounces = @ + 1]
    /\ WaitFor(Check)
    /\ UNCHANGED <<seen, note, creds, gw, calm, assoc, sinceReach, netOpen>>

(* roam: stay, or leave the access point for a better one, pinned; if that *)
(* fails, leave it again and join the strongest one.                       *)
RoamStays ==
    /\ pc = "roam"
    /\ WaitFor(Check)
    /\ UNCHANGED <<wifi, creds, gw, calm, assoc, reach, hist>>

RoamLeave ==
    /\ \/ pc = "roam" /\ state = "connected" /\ creds /\ pc' = "pinned"
       \/ pc = "trial" /\ state # "connected" /\ left = 0 /\ pc' = "strongest"
    /\ ConnectOver
    /\ Disconnect
    /\ left' = 0 /\ UNCHANGED st
    /\ UNCHANGED <<seen, note, late, creds, gw, calm, assoc, reach, sinceReach, netOpen>>

RoamConnect ==
    /\ \/ pc = "pinned" /\ pc' = "trial"
       \/ pc = "strongest" /\ pc' = "last"
    /\ Connect(drop)
    /\ left' \in 0..RoamMax
    /\ UNCHANGED <<seen, note, creds, gw, calm, st, assoc, reach, sinceReach, netOpen>>

RoamEnds ==
    /\ \/ pc \in {"trial", "last"} /\ state = "connected"
       \/ pc = "last" /\ left = 0
    /\ ConnectOver
    /\ WaitFor(Check)
    /\ UNCHANGED <<wifi, creds, gw, calm, assoc, reach, hist>>

(* system_safe_restart: RAM is lost.                                       *)
Reboot ==
    /\ pc = "reboot" /\ ConnectOver
    /\ pc' = "off" /\ UNCHANGED <<wifi, creds, gw, calm, left, st, assoc, reach, hist>>

Boot ==
    /\ pc = "off"
    /\ state' = "disconnected" /\ seen' = FALSE /\ note' = FALSE /\ late' = {}
    /\ drop' = [ever |-> FALSE, down |-> FALSE, local |-> FALSE, pending |-> FALSE]
    /\ radio' = "idle" /\ discEv' = FALSE
    /\ pc' = "sleep" /\ left' = Check /\ st' = "none"
    /\ assoc' = NoOutage /\ reach' = NoWedge
    /\ trueDown' = 0 /\ sinceReach' = 0 /\ netOpen' = 0
    /\ UNCHANGED <<creds, gw, calm>>

-----------------------------------------------------------------------------

Supervisor ==
    \/ Tick \/ LoopTop \/ NoCredentials \/ Associate \/ Associated \/ PingAnswered \/ PingLost
    \/ PingUnarmed \/ BounceConnect \/ RoamStays \/ RoamLeave \/ RoamConnect \/ RoamEnds
    \/ Reboot \/ Boot

Events == ConnectState \/ GotIpState \/ Disconnected

Environment == GotIp \/ RadioDrops \/ AppConnect \/ AppDisconnect \/ SetCreds \/ SetGateway \/ CalmDown

LinkNext == Supervisor \/ Events \/ Environment

LinkSpec == LinkInit /\ [][LinkNext]_vars

(* The tasks run and time passes, however often the radio wakes them.      *)
LinkFairSpec == LinkSpec /\ SF_vars(Supervisor) /\ WF_vars(Events) /\ SF_vars(Tick)

-----------------------------------------------------------------------------
(* Properties                                                              *)

(* The supervisor reboots only after a real outage.  The association       *)
(* backstop: the link has been down for REBOOT_AFTER_MS, less one check; a *)
(* link that came up and went again while the supervisor slept starts a    *)
(* new outage.  The reachability supervision: no ping has been answered    *)
(* for the whole escalation, time spent disconnected in between included.  *)
RebootOnlyAfterOutage ==
    [][/\ pc = "assoc" /\ pc' = "reboot" => trueDown >= RebootAfter - Check
       /\ pc = "ping" /\ pc' = "reboot" => sinceReach >= ReachReboot]_vars

(* NETWORK_RECOVERED is recorded only for an outage that was recorded as   *)
(* NETWORK_UNREACHABLE, and once; removing the credentials drops an open   *)
(* outage without an event.                                                *)
NetEventsMatched == LinkTypeOK /\ netOpen \in {0, 1}

(* A device with credentials never stays without a link: it connects, or   *)
(* it reboots -- also when an attempt hangs for ever.                      *)
LinkLossEscalates ==
    (creds /\ state # "connected" /\ pc # "off")
        ~> (state = "connected" \/ ~creds \/ pc = "reboot")

(* A wedged network stack is not left alone: once the gateway has been     *)
(* seen, silence ends in a reboot if no bounce helps.                      *)
WedgeEscalates ==
    (calm /\ creds /\ reach.ever /\ ~gw /\ pc # "off") ~> (pc = "reboot")

-----------------------------------------------------------------------------
(* Why the safety properties hold: invariants for the proofs               *)

(* The link is lost from the moment the radio is not up.  A link that is   *)
(* up has no disconnect on its way, and its state is stored or about to be.*)
RadioInv ==
    /\ trueDown = Unset <=> radio = "up"
    /\ radio = "up" => /\ ~discEv /\ ~drop.down /\ "connecting" \notin late
                       /\ "connected" \in late \/ state = "connected"

(* The clock of the association outage: not running outside an outage, at  *)
(* most one check ahead of the loss of the link, and while a link that the *)
(* supervisor knows of is up, at zero or within the check it waits for.    *)
AssocInv ==
    /\ pc \in {"sleep", "ping", "bounce", "roam", "pinned", "trial", "strongest", "last"}
           => assoc.down = Unset
    /\ pc \in {"assoc", "online"} => left = 0
    /\ pc \notin {"off", "reboot"} /\ ~seen /\ radio # "up" => assoc.down <= trueDown + Check
    /\ pc \notin {"off", "reboot"} /\ ~seen /\ radio = "up" =>
        /\ assoc.down <= Check
        /\ pc = "wait" => assoc.down = Unset \/ assoc.down + left <= Check
        /\ pc = "assoc" \/ "connected" \in late => assoc.down <= 0

(* An outage of the gateway is open in the event log exactly when the task *)
(* says so; its clock is never ahead of the last answer.                   *)
ReachInv ==
    /\ netOpen \in {0, 1}
    /\ pc \notin {"off", "reboot"} => netOpen = IF reach.logged THEN 1 ELSE 0
    /\ pc = "bounce" => reach.bounces < MaxBounces
    /\ reach.since <= sinceReach

LinkInv == LinkTypeOK /\ RadioInv /\ AssocInv /\ ReachInv
=============================================================================
